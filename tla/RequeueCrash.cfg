SPECIFICATION Spec
CONSTANTS
  Orders = {o1}
  Workers = {w1}
  Requests = {r1}
  Sweepers = {s1}
  MaxAttempts = 2
  Replies <- MCMock
  ClientOps = {"create"}
  Interruptible = {"worker"}
  MaxInterrupts = 1
  NoOrder = NoOrder
INVARIANT
  NoOrphan
CHECK_DEADLOCK FALSE
