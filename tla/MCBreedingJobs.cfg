SPECIFICATION MCSpec
CONSTANTS
  JobIds = {j1, j2}
  Workers = {w1, w2}
  Requests = {r1, r2}
  MaxAttempts = 2
  AgeCap = 2
  AdminStaleAge = 1
  None = none
  MaxLeases = 5
SYMMETRY Symmetry
INVARIANTS
  TypeOK
  RowsAreConsistent
PROPERTIES
  GoesForward
  FencedQueue
CHECK_DEADLOCK FALSE
