CONSTANTS
  a1 = a1
  a2 = a2
  b1 = b1
  Apps <- OneApp
  Balancers <- NoBalancers
  Primary = a1
  NoComponent = NoComponent
  NoJob = NoJob
  KeepReleases = 1
  MaxRuns = 2
  MaxEdits = 0
  MaxFaults = 2
  Events = {"cancel"}
SPECIFICATION Spec
CHECK_DEADLOCK FALSE
INVARIANTS
  ServedReleaseKept
