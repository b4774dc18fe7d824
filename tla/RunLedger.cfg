SPECIFICATION Spec
CONSTANTS
  o1 = o1
  s1 = s1
  s2 = s2
  s3 = s3
  a = a
  b = b
  c1 = c1
  c2 = c2
  n1 = n1
  Owners = {o1}
  Stages = {s1, s2}
  Files = {a, b}
  Contents = {c1, c2}
  Missing = Missing
  NoDoc = NoDoc
  Notes = {n1}
  InputSets <- SomeInputs
  OutputSets <- SomeOutputs
INVARIANTS
  IInv
  EveryStopIsRecoverable
  FinishedHasItsStageFile
  ReadsWhatWasRecorded
PROPERTIES
  OneSetOfInputs
  ReceiptsAreKept
  ImplementsStageLog
