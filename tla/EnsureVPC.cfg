\* Three attempts, one after another, any of which may fail anywhere.
CONSTANTS
  v1 = v1
  v2 = v2
  v3 = v3
  Absent = Absent
  Detached = Detached
  Attempts = {v1, v2, v3}
  Overlap = FALSE
SPECIFICATION Spec
SYMMETRY Symmetric
CHECK_DEADLOCK FALSE
INVARIANT TypeOK
INVARIANT OneOfEach
INVARIANT Routed
PROPERTY Settled
