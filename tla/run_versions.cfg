CONSTANTS
  t1 = t1
  t2 = t2
  f1 = f1
  f2 = f2
  a1 = a1
  q1 = q1
  None = None
  Tasks <- TwoTasks
  Paths <- TwoPaths
  Apis <- OneApi
  Pushers <- OnePusher
  MaxRequests = 1
  MaxRetries = 1
  MaxFaults = 1
INIT Init
NEXT Next
INVARIANTS TypeOK HeadIsFiles NothingForgotten PushedIsInHistory   
SYMMETRY Symmetry
CHECK_DEADLOCK FALSE
