SPECIFICATION Spec
CONSTANTS
  d1 = d1
  d2 = d2
  t1 = t1
  t2 = t2
  None = None
  Runs = {d1, d2, t1, t2}
  Tests = {t1, t2}
  Setup <- Setups
  MaxChanges = 2
CHECK_DEADLOCK FALSE
INVARIANTS
  IInv
  TestOpenedOnce
  NumbersAreLogged
  RehearsedFirst
