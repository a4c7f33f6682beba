\* Two applications; the Version loses its run label or a cluster comes up that makes the manager panic, and a call fails or the manager restarts.
CONSTANTS
  Nil = Nil
  Absent = Absent
  c1 = c1
  c2 = c2
  r1 = r1
  r2 = r2
  n1 = n1
  n2 = n2
  ch1 = ch1
  ch2 = ch2
  k1 = k1
  k2 = k2
  a1 = a1
  a2 = a2
  g1 = g1
  g2 = g2
  Clusters = {c1, c2}
  EksClusters = {c1}
  Runs = {n1}
  Releases = {r1, r2}
  Channels = {ch1, ch2}
  Configs = {k1, k2}
  Apps = {a1, a2}
  Grids = {g1, g2}
  VersionObjects <- Objects1
  KubeletMoves <- None
  AppSpecs <- TwoFloating
  GridSpecs <- GridPerCluster
  VersionSpecs <- LabelDropped
  InitialApps <- BothFloating
  InitialGrids <- SecondGridLater
  InitialVersions <- Labelled
  EditableApps = {}
  EditableGrids = {g2}
  EditableVersions = {1}
  DeletablePods = {}
  MaxEdits = 1
  MaxFaults = 1
SPECIFICATION Spec
CHECK_DEADLOCK FALSE
INVARIANT TypeOK
INVARIANT NoUnreportedTest
INVARIANT OutcomeOfOneRun
INVARIANT PodConfigured
