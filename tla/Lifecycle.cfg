SPECIFICATION FairSpec
CONSTANTS
  Orders = {o1}
  Workers = {w1, w2}
  Requests = {r1, r2, r3}
  Sweepers = {s1}
  MaxAttempts = 2
  Replies <- MCNoGarbage
  ClientOps = {"create", "cancel", "retry"}
  Interruptible = {}
  MaxInterrupts = 0
  NoOrder = NoOrder
INVARIANTS
  TypeOK
  NoOrphan
  AuditAtRest
  AnnouncedAtRest
  NeverChargedUnasked
PROPERTY
  EveryOrderFinishes
CHECK_DEADLOCK FALSE
