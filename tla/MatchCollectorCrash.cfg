SPECIFICATION Spec
CONSTANTS
  p1 = p1
  p2 = p2
  g1 = g1
  g2 = g2
  None = None
  Agents = {p1}
  Good = {g1}
  Last = 1
  MaxAttempts = 2
  PerCycle = 1
  Quota = 1
  MaxFaults = 1
INVARIANTS
  CompletePairIsPromoted
