SPECIFICATION NotificationsSpec
CONSTANTS
  Orders = {o1}
  Workers = {w1}
  Requests = {r1}
  Sweepers = {s1}
  MaxAttempts = 2
  Replies <- MCMock
  ClientOps = {"create", "cancel", "retry"}
  Interruptible = {"worker"}
  MaxInterrupts = 1
  NoOrder = NoOrder
  Deliveries = {d1, d2}
  Senders = {t1}
  WebhookAttempts = 2
  MaxJobs = 1
  MaxDeaths = 1
  NoDelivery = NoDelivery
INVARIANT DedupedClientKnows
CHECK_DEADLOCK FALSE
