\* Two overlapping requests on two kanban views.
SPECIFICATION Spec
CONSTANTS
  r1 = r1
  r2 = r2
  j1 = j1
  Requests <- TwoRequests
  Jobs = {}
  NumViews = 2
  MaxTask = 1
  MaxBucket = 6
  Ops = {"create", "update", "move", "deleteBucket", "editView"}
  Limits = {}
  Positions = {}
  RepeatKinds = {}
  MaxCrashes = 0
INVARIANTS
  BoardsSeparate
SYMMETRY Interchangeable
CONSTRAINT FewChanges
CHECK_DEADLOCK FALSE
