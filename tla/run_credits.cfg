CONSTANTS
  s1 = s1
  s2 = s2
  p1 = p1
  p2 = p2
  pro = pro
  Sessions <- TwoSessions
  Projects <- OneProject
  Events <- Everything
  Cost = 2
  SignupCredits = 1
  Free = Free
  None = None
  MaxOps = 2
  MaxRepeats = 0
  MaxFaults = 0
INIT Init
NEXT Next
INVARIANTS LedgerChain NeverOverdrawn CreditedOnce AckedIsCredited
SYMMETRY Symmetry
CHECK_DEADLOCK FALSE
