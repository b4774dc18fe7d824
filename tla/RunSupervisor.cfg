SPECIFICATION FairSpec
CONSTANTS
  k1 = k1
  k2 = k2
  k3 = k3
  s1 = s1
  s2 = s2
  a = a
  b = b
  c1 = c1
  c2 = c2
  Owners = {k1, k2}
  Stages = {s1, s2}
  Plan <- TwoStages
  In <- Reading
  Out <- Writing
  Files = {a, b}
  Contents = {c1, c2}
  Missing = Missing
  NoDoc = NoDoc
  Nobody = Nobody
  Notes <- CallNotes
  InputSets <- PlanInputs
  OutputSets <- PlanOutputs
CHECK_DEADLOCK FALSE
INVARIANTS
  StageRunsUnderLock
PROPERTIES
  QuietWhenCertified
  SuccessIsVerified
  EveryCallEnds
