SPECIFICATION FairSpec
CONSTANTS
  cron = cron
  job = job
  Deliveries = {d1, d2, d3}
  Doomed = {d1}
  Passes = {cron, job}
  Cron = cron
  Limit <- MCLimit
  MaxAttempts = 3
INVARIANT TypeOK
PROPERTY EveryRowIsReached
CHECK_DEADLOCK FALSE
