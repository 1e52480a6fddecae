CONSTANTS
  a = a
  b = b
  w1 = w1
  w2 = w2
  c1 = c1
  c2 = c2
  None = None
  Agents <- MCAgents
  Workers <- TwoWorkers
  Clients <- OneClient
  MaxTasks = 4
  Edges <- ReviewAB
  Engine <- ACrewBDev
  ConcurrencyCap = 1
  CostCap = 9
  GoalBudget = 3
  Goals = {TRUE}
  Overrides = {None}
  Billing = FALSE
  SlowRuns = TRUE
  MemoryFails = TRUE
  MaxMsgs = 1
  MaxAttempts = 0
  MaxRoots = 1
  MaxStops = 1
  MaxFaults = 0
  MaxPauses = 1
INIT Init
NEXT Next
INVARIANTS FiredOnce HandoffComplete 
SYMMETRY Symmetry
CHECK_DEADLOCK FALSE
