CONSTANTS
  a1 = a1
  a2 = a2
  b1 = b1
  Apps <- OneApp
  Balancers <- OneBalancer
  Primary = a1
  NoComponent = NoComponent
  NoJob = NoJob
  KeepReleases = 1
  MaxRuns = 1
  MaxEdits = 0
  MaxFaults = 1
  Events = {"late", "cancel"}
SPECIFICATION FairSpec
CHECK_DEADLOCK FALSE
PROPERTIES
  RunsEnd
