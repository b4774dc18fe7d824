SPECIFICATION Spec
CONSTANTS
  Modes = {"best_stop"}
  Epochs = 2
  Patience = 1
  Losses = {0, 1}
  Period = 1
  WallCap = 2
  MaxSeconds = 3
  MaxFaults = 1
CHECK_DEADLOCK FALSE
INVARIANTS
  EndedRunIsRead
