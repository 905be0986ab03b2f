SPECIFICATION Spec
CONSTANTS
  Deliveries = {d1}
  Senders = {s1, s2}
  MaxAttempts = 3
  MaxJobs = 2
  MaxDeaths = 0
  NoDelivery = NoDelivery
INVARIANT
  RetriesWithinLimit
CHECK_DEADLOCK FALSE
