CONSTANTS
  None = None
  none = none
  one = one
  two = two
  twice = twice
  Custom = Custom
  Projects <- UserProjects
  NoProject = NoProject
  MaxPerUser = 1
  MaxFast = 1
  MaxAttempts = 3
  MaxChanges = 1
  MaxFaults = 1
SPECIFICATION PagesSpec
CHECK_DEADLOCK FALSE
INVARIANTS
  PagesTypeOK
  CreatedOnce
  SubscriptionsMatch
  PerUserCap
  OneLiveSocket
  StatusIsTrue
  ProjectIsFollowed
  TerminalIsTrue
  ShownFollows
  
  SavedWasRead
PROPERTIES
  LateAnswersAreHarmless
  DraftsAreFresh
