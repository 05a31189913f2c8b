CONSTANTS
  None = None
  MaxRequests = 2
  MaxSecrets = 2
  MaxStops = 0
  Checks = FALSE
SPECIFICATION DialogSpec
CHECK_DEADLOCK FALSE
INVARIANTS
  
  RowFitsServer
  OpenHasPasswordAlone
  OwnChangeIsShown

  
