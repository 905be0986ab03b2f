SPECIFICATION FairSpec
CONSTANTS
  cron = cron
  job = job
  Deliveries = {d1, d2, d3}
  Doomed = {d1, d2}
  Passes = {cron, job}
  Cron = cron
  Limit <- MCLimit
  MaxAttempts = 3

PROPERTY EveryRowIsReached
CHECK_DEADLOCK FALSE
