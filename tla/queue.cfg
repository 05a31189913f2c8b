CONSTANTS
  a1 = a1
  a2 = a2
  b1 = b1
  Apps <- OneApp
  Balancers <- NoBalancers
  Primary = a1
  NoComponent = NoComponent
  NoJob = NoJob
  KeepReleases = 1
  MaxRuns = 3
  MaxEdits = 0
  MaxFaults = 0
  Events = {"cancel"}
SPECIFICATION Spec
CHECK_DEADLOCK FALSE
INVARIANTS
  OneActiveRun
  NewestWaits
PROPERTIES
  ImplementsRunQueue
  EndedStaysEnded
