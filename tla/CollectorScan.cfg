SPECIFICATION StartSpec
CONSTANTS
  k1 = k1
  k2 = k2
  None = None
  Keys = {k1, k2}
  Reinstall = FALSE
  MaxChanges = 2
  MaxErrors = 1
  Players = {1, 2}
  Matches = {1, 2}
  Owner <- SomeOwner
  Rosters <- SomeRosters
  Lag = 1
  Lookback = 1
  Overlap = 1
  Refresh = 2
  Count = 1
  Pages = 2
  PerCycle = 1
  MaxTime = 3
CHECK_DEADLOCK FALSE
INVARIANTS
  NothingMissed
PROPERTIES
  Resumes
  EveryMatchIsFound
