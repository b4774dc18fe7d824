SPECIFICATION FairSpec
CONSTANTS
  Modes = {"fail", "best_stop"}
  Epochs = 4
  Patience = 2
  Losses = {0, 1}
  Period = 1
  WallCap = 1
  MaxSeconds = 2
  MaxFaults = 2
CHECK_DEADLOCK FALSE
INVARIANTS
  IInv
  NeverUndercharged
  EveryCutIsReadable
  DyingCallsAdvance
  StopsAsUncut
PROPERTIES
  ImplementsTrainRun
  EveryRunEnds
