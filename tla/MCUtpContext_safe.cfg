SPECIFICATION Spec
CONSTANTS
  Sock = {0, 1, 3, 6}
  Key = {0, 1, 3, 6}
  Buckets = 3
  Allocated = 1
  Width = 8
  NULL = NULL
CONSTRAINTS OwnMemory Three
INVARIANTS TypeOK TableIntact DispatchIsRight AckListAgrees AcksShrink
PROPERTY ImplementsDirectory
CHECK_DEADLOCK FALSE
