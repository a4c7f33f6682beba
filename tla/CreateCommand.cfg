\* One new cluster of two nodes; a kubectl may write more than its stderr pipe holds.
CONSTANTS
  PipeSize = 1
  MaxStderr = 2
  MaxTries = 2
  Desired = 2
SPECIFICATION FairSpec
CHECK_DEADLOCK FALSE
INVARIANT TypeOK
INVARIANT CheckMeansUsable
INVARIANT PanicsKnown
PROPERTY MarkStays
PROPERTY PollingStops
PROPERTY CommandEnds
