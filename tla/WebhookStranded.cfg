SPECIFICATION Spec
CONSTANTS
  Deliveries = {d1}
  Senders = {s1, s2}
  MaxAttempts = 3
  MaxJobs = 3
  MaxDeaths = 0
  NoDelivery = NoDelivery
INVARIANT
  PendingIsScheduled
CHECK_DEADLOCK FALSE
