\* A run from the Version to its complete Outcome.
CONSTANTS
  Nil = Nil
  Absent = Absent
  c1 = c1
  c2 = c2
  r1 = r1
  n1 = n1
  ch1 = ch1
  k1 = k1
  a1 = a1
  g1 = g1
  Clusters = {c1}
  EksClusters = {c1}
  Runs = {n1}
  Releases = {r1}
  Channels = {ch1}
  Configs = {k1}
  Apps = {a1}
  Grids = {g1}
  VersionObjects <- Objects1
  KubeletMoves <- OneMove
  AppSpecs <- OneSpec
  GridSpecs <- None
  VersionSpecs <- OneVersion
  InitialApps <- OneApp
  InitialGrids <- OneGrid
  InitialVersions <- NoVersion
  EditableApps = {}
  EditableGrids = {}
  EditableVersions = {1}
  DeletablePods = {}
  MaxEdits = 1
  MaxFaults = 1
SPECIFICATION FairSpec
CHECK_DEADLOCK FALSE
PROPERTY TrackerSpec
PROPERTY RunsComplete
