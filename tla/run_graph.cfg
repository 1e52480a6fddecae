CONSTANTS
  a1 = a1
  a2 = a2
  a3 = a3
  s1 = s1
  s2 = s2
  None = None
  Agents <- ThreeAgents
  Sessions <- TwoSessions
INIT Init
NEXT Next
INVARIANTS CyclesAreRaces WalkIsReach
SYMMETRY Symmetry
CHECK_DEADLOCK FALSE
