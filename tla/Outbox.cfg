SPECIFICATION FairSpec
CONSTANTS
  scheduler = scheduler
  cron = cron
  Messages = {1, 2, 3}
  Workers = {scheduler, cron}
  Limit = 2
  MaxMishaps = 1
INVARIANTS DuplicatesAreMishaps SentIsDelivered GivenUpInTime
PROPERTIES SettledForGood EveryMessageSettles
\* All messages have been settled in the end.
CHECK_DEADLOCK FALSE
