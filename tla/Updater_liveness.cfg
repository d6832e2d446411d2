SPECIFICATION LiveSpec
CONSTANTS
  MaxRelease = 1
  MaxCommand = 2
  MaxFaults = 1
  Expiring = {1, 2}
PROPERTIES
  ActivationIsDecided
  RollbackIsDecided
  ClaimIsDecided
CHECK_DEADLOCK FALSE
