\* Pods deleted and launched again, and a grid with a cluster that makes the manager panic until it is repaired.
CONSTANTS
  Nil = Nil
  Absent = Absent
  c1 = c1
  c2 = c2
  r1 = r1
  n1 = n1
  ch1 = ch1
  k1 = k1
  a1 = a1
  g1 = g1
  Clusters = {c1, c2}
  EksClusters = {c1}
  Runs = {n1}
  Releases = {r1}
  Channels = {ch1}
  Configs = {k1}
  Apps = {a1}
  Grids = {g1}
  VersionObjects <- Objects1
  KubeletMoves <- OneMove
  AppSpecs <- OneSpec
  GridSpecs <- RepairedGrid
  VersionSpecs <- OneVersion
  InitialApps <- OneApp
  InitialGrids <- OneGrid
  InitialVersions <- Labelled
  EditableApps = {}
  EditableGrids = {g1}
  EditableVersions = {}
  DeletablePods <- RunTests
  MaxEdits = 2
  MaxFaults = 1
SPECIFICATION Spec
CHECK_DEADLOCK FALSE
INVARIANT VerdictsAreEarned
