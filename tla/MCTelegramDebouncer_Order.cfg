CONSTANTS
  s1 = s1
  s2 = s2
  s3 = s3
  Senders <- MCSenders
  ThreadOf <- MCThreadOf
  MaxUpdates = 3
  Workers = 1
SPECIFICATION ChatSpec
CHECK_DEADLOCK FALSE
INVARIANT
  CommandsFollowEarlierInput
