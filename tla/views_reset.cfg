\* A second board is made for a project whose task was moved on the first.
SPECIFICATION Spec
CONSTANTS
  a = a
  b = b
  c = c
  t1 = t1
  x = x
  y = y
  Users <- ThreeUsers
  Teams <- OneTeam
  TeamClerks <- TwoClerks
  TimerClerks <- TwoClerks
  MaxEntry = 3
  ViewClerks <- OneClerk
  MaxView = 3
  MaxTask = 1
  Assignees <- TwoUsers
  Ticks <- OneClerk
  Clients <- OneClient
  Ahead <- Distances
  Period = 1
  Window = 2
  MaxTime = 3
  MaxCrashes = 1
PROPERTIES
  NewViewMovesNoCard
CHECK_DEADLOCK FALSE
