CONSTANTS
  None = None
  none = none
  one = one
  two = two
  twice = twice
SPECIFICATION ProgressSpec
CHECK_DEADLOCK FALSE
PROPERTIES
  Reconnects
  
  
  LocksEnd
