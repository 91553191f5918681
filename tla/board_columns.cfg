\* One request at a time, one kanban view, every operation on its columns.
SPECIFICATION Spec
CONSTANTS
  r1 = r1
  r2 = r2
  j1 = j1
  Requests <- OneRequest
  Jobs = {}
  NumViews = 1
  MaxTask = 1
  MaxBucket = 4
  Ops = {"create", "update", "move", "bulk", "deleteTask", "createBucket",
         "updateBucket", "deleteBucket", "editView"}
  Limits = {}
  Positions = {1}
  RepeatKinds = {}
  MaxCrashes = 0
INVARIANTS
  TypeOK
  BoardHasColumn
  NoTaskOffBoard
PROPERTIES
  CardsLeaveOnlyByStaleColumn
CHECK_DEADLOCK FALSE
