\* An application and the Version are deployed and changed in any order, on a grid that is already there.
CONSTANTS
  Nil = Nil
  Absent = Absent
  c1 = c1
  c2 = c2
  r1 = r1
  r2 = r2
  n1 = n1
  n2 = n2
  ch1 = ch1
  ch2 = ch2
  k1 = k1
  k2 = k2
  a1 = a1
  a2 = a2
  g1 = g1
  g2 = g2
  Clusters = {c1, c2}
  EksClusters = {c1, c2}
  Runs = {n1}
  Releases = {r1, r2}
  Channels = {ch1, ch2}
  Configs = {k1, k2}
  Apps = {a1}
  Grids = {g1}
  VersionObjects <- Objects1
  KubeletMoves <- OneMove
  AppSpecs <- LiveSpecs
  GridSpecs <- GridChoices
  VersionSpecs <- LiveVersions
  InitialApps <- NoApp
  InitialGrids <- OneGrid
  InitialVersions <- NoVersion
  EditableApps = {a1}
  EditableGrids = {}
  EditableVersions = {1}
  DeletablePods = {}
  MaxEdits = 3
  MaxFaults = 1
SPECIFICATION FairSpec
CHECK_DEADLOCK FALSE
PROPERTY EveryApplicationTested
PROPERTY EveryRunReported
