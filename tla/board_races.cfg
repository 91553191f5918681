\* Two overlapping requests beside the repeating-task job, a restart in the
\* middle.
SPECIFICATION FairSpec
CONSTANTS
  r1 = r1
  r2 = r2
  j1 = j1
  Requests <- TwoRequests
  Jobs <- OneJob
  NumViews = 1
  MaxTask = 2
  MaxBucket = 3
  Ops = {"create", "update", "move", "deleteTask"}
  Limits = {}
  Positions = {}
  RepeatKinds = {"never", "dated"}
  MaxCrashes = 1
INVARIANTS
  NumbersUnbroken
  DoneStamped
PROPERTIES
  RepeatingTasksRoll
CONSTRAINT SecondOnlyNumbered
CHECK_DEADLOCK FALSE
