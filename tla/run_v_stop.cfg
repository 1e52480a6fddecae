CONSTANTS
  a = a
  b = b
  w1 = w1
  w2 = w2
  c1 = c1
  c2 = c2
  None = None
  Agents <- MCAgents
  Workers <- OneWorker
  Clients <- OneClient
  MaxTasks = 2
  Edges <- HandoffAB
  Engine <- ACrewBDev
  ConcurrencyCap = 1
  CostCap = 9
  GoalBudget = 1
  Goals = {FALSE}
  Overrides = {None}
  Billing = TRUE
  SlowRuns = FALSE
  MemoryFails = FALSE
  MaxMsgs = 1
  MaxAttempts = 1
  MaxRoots = 1
  MaxStops = 1
  MaxFaults = 0
  MaxPauses = 0
INIT Init
NEXT Next
INVARIANTS StoppedNeverPropagates
CHECK_DEADLOCK FALSE
