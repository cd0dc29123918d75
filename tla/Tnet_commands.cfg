CONSTANTS
  Invoked <- All
  MaxRounds = 1
  MaxDeaths = 1
SPECIFICATION Spec
INVARIANTS
  RefusedTouchesNothing
  NothingHalfDone
  SuccessIsReal
  SecretGatesALock
CHECK_DEADLOCK FALSE
