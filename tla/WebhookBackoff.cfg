SPECIFICATION Spec
CONSTANTS
  Deliveries = {d1}
  Senders = {s1}
  MaxAttempts = 3
  MaxJobs = 2
  MaxDeaths = 0
  NoDelivery = NoDelivery
PROPERTY
  BackoffIsKept
CHECK_DEADLOCK FALSE
