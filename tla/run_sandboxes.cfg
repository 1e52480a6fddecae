CONSTANTS
  w1 = w1
  w2 = w2
  p1 = p1
  p2 = p2
  t1 = t1
  t2 = t2
  None = None
  Workers <- TwoWorkers
  Apis <- OneApi
  Tasks <- TwoTasks
  MaxVersions = 1
  Runnable = {1}
  MaxBuilds = 2
  MaxPreviews = 2
  MaxRequests = 2
  MaxFaults = 1
INIT Init
NEXT Next
INVARIANTS TypeOK MachineAwake BillingStops NoLostMachine 
SYMMETRY Symmetry
CHECK_DEADLOCK FALSE
