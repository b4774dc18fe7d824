SPECIFICATION FairSpec
CONSTANTS
  k1 = k1
  k2 = k2
  k3 = k3
  None = None
  Keys = {k1, k2, k3}
  Reinstall = TRUE
  MaxChanges = 4
  MaxErrors = 2
CHECK_DEADLOCK FALSE
PROPERTIES
  Resumes
