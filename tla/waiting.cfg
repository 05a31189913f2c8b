CONSTANTS
  a1 = a1
  a2 = a2
  b1 = b1
  Apps <- OneApp
  Balancers <- NoBalancers
  Primary = a1
  NoComponent = NoComponent
  NoJob = NoJob
  KeepReleases = 1
  MaxRuns = 2
  MaxEdits = 0
  MaxFaults = 0
  Events = {"late"}
SPECIFICATION FairSpec
CHECK_DEADLOCK FALSE
PROPERTIES
  WaitingEnds
