SPECIFICATION FairSpec
CONSTANTS
  MaxRelease = 1
  MaxCommand = 1
  MaxFaults = 1
  Expiring = {1}
PROPERTIES
  RollbackJournalRecovers
CHECK_DEADLOCK FALSE
