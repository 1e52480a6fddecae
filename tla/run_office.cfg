CONSTANTS
  a1 = a1
  a2 = a2
  t1 = t1
  t2 = t2
  x1 = x1
  x2 = x2
  Agents <- OneAgent
  Tasks <- TwoTasks
  Apis <- TwoApis
  MaxIters = 2
  Limit = 3
  Fan = 2
  MaxRequests = 3
  MaxFaults = 1
  None = None
INIT Init
NEXT Next
INVARIANTS PromptFits JobsAreCommitted AnswersKept WorkIsKept
SYMMETRY Symmetry
CHECK_DEADLOCK FALSE
