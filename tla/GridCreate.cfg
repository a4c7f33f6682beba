\* Two new clusters and an existing one share the config file.
CONSTANTS
  c1 = c1
  c2 = c2
  c3 = c3
  Nobody = Nobody
  Clusters = {c1, c2, c3}
  Kind <- TwoNewOneExisting
SPECIFICATION FairSpec
CHECK_DEADLOCK FALSE
INVARIANT TypeOK
INVARIANT NilMeansReady
INVARIANT NoLeakAfterSuccess
PROPERTY CreateReturns
PROPERTY MutexIsReleased
