\* One run of two tests; a pod is lost, calls fail or the manager restarts.
CONSTANTS
  Nil = Nil
  c1 = c1
  c2 = c2
  r1 = r1
  n1 = n1
  n2 = n2
  ch1 = ch1
  Clusters = {c1, c2}
  Runs = {n1}
  Releases = {r1}
  Channels = {ch1}
  KubeletMoves <- MCMoves
  Launchable <- TwoTests
  MaxLosses = 1
  MaxFaults = 2
SPECIFICATION FairSpec
CHECK_DEADLOCK FALSE
INVARIANT TypeOK
INVARIANT VerdictsAreEarned
INVARIANT NeverAbandoned
PROPERTY OutcomeLifeSpec
PROPERTY EveryVerdictReported
