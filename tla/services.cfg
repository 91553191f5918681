\* Two handlers of teams with restarts, of time entries and of views; the
\* reminder job beside a client, with one restart.
SPECIFICATION Spec
CONSTANTS
  a = a
  b = b
  c = c
  t1 = t1
  x = x
  y = y
  Users <- ThreeUsers
  Teams <- OneTeam
  TeamClerks <- TwoClerks
  TimerClerks <- TwoClerks
  MaxEntry = 3
  ViewClerks <- TwoClerks
  MaxView = 3
  MaxTask = 1
  Assignees <- TwoUsers
  Ticks <- OneClerk
  Clients <- OneClient
  Ahead <- Distances
  Period = 1
  Window = 2
  MaxTime = 3
  MaxCrashes = 1
INVARIANTS
  LastAdminStays
  NoStrayMembers
  OneTimerRuns
  EveryTaskHasItsPlace
  AViewRemains
  NoPlaceOutlivesItsView
  ToldOnce
  ReminderFollowsDueDate
PROPERTIES
  StoppedStaysStopped
  RemindersAreSent
CONSTRAINT Followed
CHECK_DEADLOCK FALSE
