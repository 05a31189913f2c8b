CONSTANTS
  a1 = a1
  a2 = a2
  b1 = b1
  Apps <- TwoApps
  Balancers <- NoBalancers
  Primary = a1
  NoComponent = NoComponent
  NoJob = NoJob
  KeepReleases = 1
  MaxRuns = 2
  MaxEdits = 1
  MaxFaults = 1
  Events = {}
SPECIFICATION Spec
CHECK_DEADLOCK FALSE
INVARIANTS
  JoinsAreFirstDeployments
  StaleVariablesAreFlagged

  
