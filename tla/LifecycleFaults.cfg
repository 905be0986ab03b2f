SPECIFICATION FairSpec
CONSTANTS
  Orders = {o1}
  Workers = {w1, w2, w3}
  Requests = {r1, r2}
  Sweepers = {s1}
  MaxAttempts = 2
  Replies <- MCFragment
  ClientOps = {"create", "cancel", "retry"}
  Interruptible = {"worker", "job", "api", "sweep"}
  MaxInterrupts = 2
  NoOrder = NoOrder
INVARIANTS
  ExclusiveExecution
  PaidOrderNeverRequeued
  AttemptsBoundedByRaces
  ExtraChargesAreBlind
PROPERTIES
  ImplementsLedger
  NoOrderStuckProcessing
CHECK_DEADLOCK FALSE
