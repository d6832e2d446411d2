SPECIFICATION Spec
CONSTANTS
  MaxRelease = 1
  MaxCommand = 1
  MaxFaults = 1
  Expiring = {1}
INVARIANTS
  FailureIsSettled
CHECK_DEADLOCK FALSE
