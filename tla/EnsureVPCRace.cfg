\* Two new clusters of one grid.
CONSTANTS
  v1 = v1
  v2 = v2
  v3 = v3
  Absent = Absent
  Detached = Detached
  Attempts = {v1, v2}
  Overlap = TRUE
SPECIFICATION Spec
SYMMETRY Symmetric
CHECK_DEADLOCK FALSE
INVARIANT SingleVPC
