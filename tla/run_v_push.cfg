CONSTANTS
  t1 = t1
  t2 = t2
  f1 = f1
  f2 = f2
  a1 = a1
  q1 = q1
  None = None
  Tasks <- OneTask
  Paths <- OnePath
  Apis <- OneApi
  Pushers <- OnePusher
  MaxRequests = 0
  MaxRetries = 1
  MaxFaults = 1
SPECIFICATION FairSpec
PROPERTY BackfillCatchesUp
CHECK_DEADLOCK FALSE
