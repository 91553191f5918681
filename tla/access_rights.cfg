\* One handler and the job, one restart.
SPECIFICATION AccessSpec
CONSTANTS
  a = a
  b = b
  p = p
  t = t
  r1 = r1
  job = job
  Users <- TwoUsers
  Projects <- OneProject
  Teams <- OneTeam
  Administrators <- JustA
  Leavers <- JustB
  Levels <- WriteOrAdmin
  Requests <- OneRequest
  Job = job
  MaxCrashes = 1
INVARIANTS
  ProjectsAreOwned
  NoStrayRights
PROPERTIES
  RightsComeFromAdmins
  AdministeredWorkIsPassedOn
  ScheduledIsSettled
CHECK_DEADLOCK FALSE
