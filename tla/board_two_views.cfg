\* One request at a time, two kanban views.
SPECIFICATION Spec
CONSTANTS
  r1 = r1
  r2 = r2
  j1 = j1
  Requests <- OneRequest
  Jobs = {}
  NumViews = 2
  MaxTask = 2
  MaxBucket = 6
  Ops = {"create", "update", "move", "deleteTask", "updateBucket"}
  Limits = {1}
  Positions = {}
  RepeatKinds = {}
  MaxCrashes = 0
PROPERTIES
  UpdateSettlesEveryBoard
  MoveSettlesDone
  MovesKeepLimit
CHECK_DEADLOCK FALSE
