SPECIFICATION FairSpec
CONSTANTS
  Deliveries = {d1}
  Senders = {s1, s2}
  MaxAttempts = 3
  MaxJobs = 3
  MaxDeaths = 2
  NoDelivery = NoDelivery
INVARIANTS
  TypeOK
  NeverGivenUpEarly
  DeliveredWasAccepted
  AttemptsAreCounted
  AcceptedOnce
  StrandedOnlyByRaces
PROPERTIES
  DeliveredIsFinal
  EveryWebhookSettles
CHECK_DEADLOCK FALSE
