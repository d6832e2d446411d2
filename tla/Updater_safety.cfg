SPECIFICATION SafetySpec
CONSTANTS
  MaxRelease = 2
  MaxCommand = 2
  MaxFaults = 2
  Expiring = {1, 2}
INVARIANTS
  SettledIsHealthy
  ReceiptsAreNumbered
  RecoverySlotsPresent
PROPERTIES
  ImplementsRootActions
CHECK_DEADLOCK FALSE
