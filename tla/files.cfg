\* One handler at a time on two projects, and two handlers with a failing
\* step and a restart on one.
SPECIFICATION InstanceSpec
CONSTANTS
  r1 = r1
  r2 = r2
  p1 = p1
  p2 = p2
  u1 = u1
  Requests <- TwoRequests
  Projects <- TwoProjects
  Users <- OneUser
  MaxFile = 3
  MaxBatch = 2
  Deletable <- TwoProjects
  Pictures <- AllPictures
  MaxFaults = 1
  MaxCrashes = 1
SYMMETRY Interchangeable
INVARIANTS
  TypeOK
  ShownIsStored
  NothingLeftWhenAlone
PROPERTIES
  LooksAtomic
CHECK_DEADLOCK FALSE
