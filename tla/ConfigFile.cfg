\* Two processes on one config file, one of them with two clusters; an operation fails or a process is killed.
CONSTANTS
  p1 = p1
  p2 = p2
  c1 = c1
  c2 = c2
  c3 = c3
  n1 = n1
  n2 = n2
  Main = Main
  Nobody = Nobody
  NoFile = NoFile
  Processes = {p1, p2}
  Clusters = {c1, c2, c3}
  Names = {n1, n2}
  Owner <- TwoAndOne
  GridOf <- OwnNames
  MaxFaults = 1
SPECIFICATION FairSpec
CHECK_DEADLOCK FALSE
INVARIANT TypeOK
INVARIANT EntriesKept
INVARIANT NoOrphans
PROPERTY ProcessesEnd
