SPECIFICATION FairSpec
CONSTANTS
  p1 = p1
  p2 = p2
  g1 = g1
  g2 = g2
  None = None
  Agents = {p1, p2}
  Good = {g1, g2}
  Last = 2
  MaxAttempts = 2
  PerCycle = 2
  Quota = 1
  MaxFaults = 2
INVARIANTS
  IInv
  CompleteIsStored
  ExcludedLeavesNoPair
  QuotaIsKept
PROPERTIES
  SettledStays
  EveryMatchSettles
