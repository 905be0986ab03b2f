SPECIFICATION Spec
CONSTANTS
  Orders = {o1}
  Workers = {w1, w2}
  Requests = {r1}
  Sweepers = {s1, s2}
  MaxAttempts = 3
  Replies <- MCMock
  ClientOps = {"create"}
  Interruptible = {"worker"}
  MaxInterrupts = 1
  NoOrder = NoOrder
INVARIANT
  ExclusiveExecution
CHECK_DEADLOCK FALSE
