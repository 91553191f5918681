\* Two overlapping handlers on two projects and one created later.
SPECIFICATION TreeSpec
CONSTANTS
  r1 = r1
  r2 = r2
  Requests <- TwoRequests
  Planted = 2
  MaxProject = 3
INVARIANTS
  TreeTypeOK
  LoopNeedsCrossedMoves
PROPERTIES
  OrphansNeedRaceOrAccount
  WalksEnd
CHECK_DEADLOCK FALSE
