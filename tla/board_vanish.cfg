\* One request at a time: a column is deleted, then cards are placed.
SPECIFICATION Spec
CONSTANTS
  r1 = r1
  r2 = r2
  j1 = j1
  Requests <- OneRequest
  Jobs = {}
  NumViews = 1
  MaxTask = 1
  MaxBucket = 3
  Ops = {"create", "update", "move", "deleteBucket"}
  Limits = {}
  Positions = {}
  RepeatKinds = {}
  MaxCrashes = 0
INVARIANTS
  CardsNeverVanish
CHECK_DEADLOCK FALSE
