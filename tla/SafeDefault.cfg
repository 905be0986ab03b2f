SPECIFICATION Spec
CONSTANTS
  Orders = {o1}
  Workers = {w1, w2}
  Requests = {r1, r2}
  Sweepers = {s1}
  MaxAttempts = 3
  Replies <- MCNoGarbage
  ClientOps = {"create", "cancel"}
  Interruptible = {"job", "api"}
  MaxInterrupts = 2
  NoOrder = NoOrder
INVARIANT
  NeverChargedUnasked
CHECK_DEADLOCK FALSE
