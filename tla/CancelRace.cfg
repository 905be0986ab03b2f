SPECIFICATION Spec
CONSTANTS
  Orders = {o1}
  Workers = {w1}
  Requests = {r1, r2}
  Sweepers = {s1}
  MaxAttempts = 2
  Replies <- MCMock
  ClientOps = {"create", "cancel"}
  Interruptible = {}
  MaxInterrupts = 0
  NoOrder = NoOrder
PROPERTY
  CancelOnlyWhileWaiting
CHECK_DEADLOCK FALSE
