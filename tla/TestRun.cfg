\* A grid of one to three clusters; a call fails, and deployments time out.
CONSTANTS
  MaxClusters = 3
  MaxFaults = 1
  Other <- OtherCluster
SPECIFICATION FairSpec
CHECK_DEADLOCK FALSE
INVARIANT TypeOK
INVARIANT PassMeansReady
INVARIANT BundlesFirst
INVARIANT TornDown
INVARIANT OthersUntouched
PROPERTY TestEnds
PROPERTY RunLifeSpec
