CONSTANTS
  a = a
  b = b
  w1 = w1
  w2 = w2
  c1 = c1
  c2 = c2
  None = None
  Agents <- MCAgents
  Workers <- OneWorker
  Clients <- OneClient
  MaxTasks = 2
  Edges <- HandoffAB
  Engine <- ACrewBDev
  ConcurrencyCap = 1
  CostCap = 9
  GoalBudget = 1
  Goals = {FALSE}
  Overrides = {None, b}
  Billing = TRUE
  SlowRuns = FALSE
  MemoryFails = FALSE
  MaxMsgs = 1
  MaxAttempts = 1
  MaxRoots = 2
  MaxStops = 1
  MaxFaults = 1
  MaxPauses = 0
SPECIFICATION Spec
INVARIANTS CapOvershoot NoOrphanRun  
PROPERTIES ImplementsLifecycle
CHECK_DEADLOCK FALSE
