CONSTANTS
  s1 = s1
  s2 = s2
  p1 = p1
  p2 = p2
  pro = pro
  Sessions <- TwoSessions
  Projects <- OneProject
  Events <- Payments
  Cost = 2
  SignupCredits = 1
  Free = Free
  None = None
  MaxOps = 0
  MaxRepeats = 1
  MaxFaults = 1
SPECIFICATION FairSpec
PROPERTIES EventsSettle
CHECK_DEADLOCK FALSE
