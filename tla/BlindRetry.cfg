SPECIFICATION Spec
CONSTANTS
  Orders = {o1}
  Workers = {w1}
  Requests = {r1}
  Sweepers = {s1}
  MaxAttempts = 2
  Replies <- MCBotApi
  ClientOps = {"create"}
  Interruptible = {}
  MaxInterrupts = 0
  NoOrder = NoOrder
INVARIANT
  NeverChargedUnasked
CHECK_DEADLOCK FALSE
