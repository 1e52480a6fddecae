CONSTANTS
  StepCap = 5
  TokenBudget = 6
  Retries = 1
  Fan <- Fans
  Spend = {1}
  MaxFaults = 2
  MaxWrong = 2
  w1 = w1
  w2 = w2
  a1 = a1
  a2 = a2
  t1 = t1
  t2 = t2
  t3 = t3
  Workers <- TwoWorkers
  Agents <- TwoAgents
  Tasks <- ThreeTasks
  AgentOf <- TwoAndOne
  MaxMade = 2
  MaxRuns = 2
  None = None
SPECIFICATION EngineSpec
INVARIANTS Paired  StopObeyed OneMemory StopEndsLoop 
SYMMETRY Symmetry
CHECK_DEADLOCK FALSE
