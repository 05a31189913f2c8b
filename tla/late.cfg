CONSTANTS
  a1 = a1
  a2 = a2
  b1 = b1
  Apps <- TwoApps
  Balancers <- NoBalancers
  Primary = a1
  NoComponent = NoComponent
  NoJob = NoJob
  KeepReleases = 1
  MaxRuns = 1
  MaxEdits = 0
  MaxFaults = 1
  Events = {"late", "cancel"}
SPECIFICATION Spec
CHECK_DEADLOCK FALSE
INVARIANTS
  NoOverlappingWork
