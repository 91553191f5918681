----------------------------- MODULE BoardProofs -----------------------------
(***************************************************************************)
(* Proofs about the board, for any number of requests, jobs, views, tasks  *)
(* and columns.  Whatever overlaps: the types, that boards stay separate,  *)
(* that done and done_at change together, and that the numbers of tasks    *)
(* are unbroken.  While no two deletions of columns overlap: that a board  *)
(* keeps a column and every task a card.  One request at a time: what a    *)
(* checkbox, a dropped card and the deletion of a column promise.          *)
(***************************************************************************)
EXTENDS BoardProps, FiniteSetTheorems, TLAPS

-----------------------------------------------------------------------------
(* Types.  Each action replaces the record of one request by one that the  *)
(* lemmas below show to be a request record again.                         *)

(* A step of request r to a well-typed record keeps req well-typed.        *)
LEMMA GotoType ==
  ASSUME req \in [Procs -> RequestState], NEW r \in Procs,
         NEW q \in RequestState, Goto(r, q)
  PROVE  req' \in [Procs -> RequestState]
BY DEF Goto

(* The record of a free slot.                                              *)
LEMMA IdleType == Idle \in RequestState
<1>1. [v \in {} |-> NoBucket] \in [{} -> BucketRef]
  OBVIOUS
<1>2. [v \in {} |-> NoBucket] \in Plans
  BY <1>1 DEF Plans
<1> QED
  BY <1>2 DEF Idle, RequestState, Steps, DoneBody, RepeatBody, AllRepeatKinds,
             BucketRef, NoBucket, EditKeys, ViewKeys

(* Moving on is a type-correct change of a record.                         *)
LEMMA PcType ==
  ASSUME NEW q \in RequestState, NEW pc \in Steps
  PROVE  [q EXCEPT !.pc = pc] \in RequestState
BY DEF RequestState

(* The record after one view of the loop is dealt with.                    *)
LEMMA PlacedType ==
  ASSUME NEW q \in RequestState, NEW v \in Views
  PROVE  Placed(q, v) \in RequestState
<1> DEFINE rest == [w \in DOMAIN q.plan \ {v} |-> q.plan[w]]
<1>1. PICK V \in SUBSET Views : q.plan \in [V -> BucketRef]
  BY DEF RequestState, Plans
<1>2. rest \in [V \ {v} -> BucketRef]
  BY <1>1
<1>3. rest \in Plans
  BY <1>2 DEF Plans
<1>4. Placed(q, v) \in {[q EXCEPT !.plan = rest],
                        [q EXCEPT !.plan = rest, !.pc = "roll_read"], Idle}
  BY DEF Placed
<1> HIDE DEF rest
<1>5. [q EXCEPT !.plan = rest] \in RequestState
  BY <1>3 DEF RequestState
<1>6. [q EXCEPT !.plan = rest, !.pc = "roll_read"] \in RequestState
  BY <1>3 DEF RequestState, Steps
<1> QED
  BY <1>4, <1>5, <1>6, IdleType

(* The record after a roll.                                                *)
LEMMA RolledType ==
  ASSUME NEW q \in RequestState
  PROVE  Rolled(q) \in RequestState
BY IdleType DEF Rolled, RequestState, Steps

(* Writing done or the repeat setting keeps a task row a task row.         *)
LEMMA SetDoneType ==
  ASSUME NEW row \in TaskRow, NEW d
  PROVE  SetDone(row, d) \in TaskRow
BY DEF SetDone, TaskRow

(* Setting the repeat settings of tasks leaves well-typed rows.            *)
LEMMA SetRepeatsType ==
  ASSUME NEW row \in TaskRow, NEW k \in RepeatBody
  PROVE  SetRepeats(row, k) \in TaskRow
BY DEF SetRepeats, TaskRow, RepeatBody

(* The initial state.                                                      *)
LEMMA InitType == Init => TypeOK
<1> SUFFICES ASSUME Init PROVE TypeOK
  OBVIOUS
<1>1. task \in [TaskIds -> TaskRow]
  BY DEF Init, NoTask, TaskRow, Rows, AllRepeatKinds
<1>2. bucket \in [BucketIds -> BucketRow]
  <2>1. ASSUME NEW b \in BucketIds, b <= 3 * NumViews
        PROVE  ((b - 1) \div 3) + 1 \in Views /\ ((b - 1) % 3) + 1 \in Nat
    BY <2>1, BoardAssumption DEF BucketIds, Views
  <2> QED
    BY <2>1 DEF Init, NoBucketRow, BucketRow, Rows
<1>3. view \in [Views -> [default: BucketRef, done: BucketRef]]
  BY BoardAssumption DEF Init, Views, BucketRef, BucketIds
<1> QED
  BY <1>1, <1>2, <1>3, IdleType, BoardAssumption DEF Init, TypeOK, BucketRef

(* Every step keeps the types.                                             *)
LEMMA StepType == TypeOK /\ [Next]_vars => TypeOK'
<1>s. SUFFICES ASSUME TypeOK, [Next]_vars PROVE TypeOK'
  OBVIOUS
<1>q. \A r \in Procs : req[r] \in RequestState
  BY <1>s DEF TypeOK
<1>1. ASSUME NEW r \in Procs, ReadMaxIndex(r)
      PROVE  TypeOK'
  <2>1. \A m \in Numbers : m + 1 \in Nat
    BY <1>s DEF TypeOK, Numbers, Stored, TaskRow
  <2>2. PICK k \in Nat :
          Goto(r, [Idle EXCEPT !.pc = "create_insert", !.num = k])
    BY <1>1, <2>1 DEF ReadMaxIndex
  <2>3. [Idle EXCEPT !.pc = "create_insert", !.num = k] \in RequestState
    BY IdleType DEF RequestState, Steps
  <2> QED
    BY <2>2, <2>3, <1>1, GotoType, <1>s DEF TypeOK, ReadMaxIndex
<1>2. ASSUME NEW r \in Procs, InsertConflict(r)
      PROVE  TypeOK'
  BY <1>2, GotoType, IdleType, <1>s DEF TypeOK, InsertConflict, Finish
<1>3. ASSUME NEW r \in Procs, InsertTask(r)
      PROVE  TypeOK'
  <2>1. PICK t \in TaskIds :
          /\ task' = [task EXCEPT ![t] =
               [NoTask EXCEPT !.state = "live", !.index = req[r].num]]
          /\ Goto(r, [req[r] EXCEPT !.pc = "add_views", !.task = t])
    BY <1>3, <1>s DEF TypeOK, InsertTask
  <2>2. [NoTask EXCEPT !.state = "live", !.index = req[r].num] \in TaskRow
    BY <1>q, <1>s DEF TypeOK, NoTask, TaskRow, Rows, AllRepeatKinds,
       RequestState
  <2>3. [req[r] EXCEPT !.pc = "add_views", !.task = t] \in RequestState
    <3>1. "add_views" \in Steps
      BY DEF Steps
    <3> QED
      BY <3>1, <1>q DEF RequestState
  <2> QED
    BY <2>1, <2>2, <2>3, <1>3, GotoType, <1>s DEF TypeOK, InsertTask
<1>4. ASSUME NEW r \in Procs, AddTaskToViews(r)
      PROVE  TypeOK'
  <2> DEFINE p == [v \in Views |-> view[v].default]
  <2>1. p \in Plans
    BY <1>s DEF TypeOK, Plans
  <2> HIDE DEF p
  <2>2. [req[r] EXCEPT !.pc = "place", !.plan = p] \in RequestState
    <3>1. "place" \in Steps
      BY DEF Steps
    <3> QED
      BY <3>1, <2>1, <1>q DEF RequestState
  <2> QED
    BY <2>2, <1>4, GotoType, <1>s DEF TypeOK, AddTaskToViews, p
<1>5. ASSUME NEW r \in Procs, SyncDoneBucket(r)
      PROVE  TypeOK'
  <2> DEFINE p == [v \in Views |-> IF req[r].done = "set" THEN view[v].done
                               ELSE view[v].default]
  <2>1. p \in Plans
    BY <1>s DEF TypeOK, Plans
  <2> HIDE DEF p
  <2>2. [req[r] EXCEPT !.pc = "place", !.plan = p] \in RequestState
    BY <2>1, <1>q DEF RequestState, Steps
  <2> QED
    BY <2>2, <1>5, GotoType, <1>s DEF TypeOK, SyncDoneBucket, p
<1>6. ASSUME NEW r \in Procs, PickFallback(r)
      PROVE  TypeOK'
  <2>1. PICK v \in Views :
          /\ v \in DOMAIN req[r].plan
          /\ \/ \E b \in BucketIds : Goto(r, [req[r] EXCEPT !.plan[v] = b])
             \/ Goto(r, Placed(req[r], v))
    BY <1>6, <1>s DEF TypeOK, PickFallback, NextView, Leftmost, Rightmost,
       Columns
  <2>2. ASSUME NEW b \in BucketIds
        PROVE  [req[r] EXCEPT !.plan[v] = b] \in RequestState
    <3>1. PICK V \in SUBSET Views : req[r].plan \in [V -> BucketRef]
      BY <1>q DEF RequestState, Plans
    <3>2. [req[r].plan EXCEPT ![v] = b] \in Plans
      BY <3>1 DEF Plans, BucketRef
    <3> QED
      BY <3>2, <1>q DEF RequestState
  <2>3. Placed(req[r], v) \in RequestState
    BY <1>q, PlacedType, <1>s DEF TypeOK
  <2> QED
    BY <2>1, <2>2, <2>3, <1>6, GotoType, <1>s DEF TypeOK, PickFallback
<1>7. ASSUME NEW r \in Procs, PlaceCard(r)
      PROVE  TypeOK'
  <2>1. PICK v \in Views :
          /\ v \in DOMAIN req[r].plan
          /\ req[r].plan[v] # NoBucket
          /\ card' = [card EXCEPT ![v][req[r].task] = req[r].plan[v]]
          /\ Goto(r, Placed(req[r], v))
    BY <1>7, <1>s DEF TypeOK, PlaceCard, NextView
  <2>2. req[r].plan[v] \in BucketRef
    BY <2>1, <1>q, <1>s DEF TypeOK, RequestState, Plans
  <2>3. card' \in [Views -> [TaskIds -> BucketRef]]
    BY <2>1, <2>2, <1>s DEF TypeOK
  <2> QED
    BY <2>1, <2>3, <1>7, <1>q, PlacedType, GotoType, <1>s DEF TypeOK, PlaceCard
<1>8. ASSUME NEW r \in Procs, BeginUpdate(r)
      PROVE  TypeOK'
  <2>1. PICK t \in TaskIds, d \in DoneBody, k \in RepeatBody :
          Goto(r, [Idle EXCEPT !.pc = "update_write", !.task = t,
                                !.done = d, !.repeats = k])
    BY <1>8, BoardAssumption DEF BeginUpdate, RepeatBody
  <2>9. [Idle EXCEPT !.pc = "update_write", !.task = t,
                                !.done = d, !.repeats = k] \in RequestState
    BY IdleType DEF RequestState, Steps, RepeatBody
  <2> QED
    BY <2>1, <2>9, <1>8, GotoType, <1>s DEF TypeOK, BeginUpdate
<1>9. ASSUME NEW r \in Procs, WriteUpdate(r)
      PROVE  TypeOK'
  <2>1. \A t \in TaskIds :
          SetRepeats(SetDone(task[t], req[r].done), req[r].repeats) \in TaskRow
    BY <1>q, SetDoneType, SetRepeatsType, <1>s DEF TypeOK, RequestState
  <2>2. task' \in [TaskIds -> TaskRow]
    BY <2>1, <1>9, <1>s DEF TypeOK, WriteUpdate
  <2>3. [req[r] EXCEPT !.pc = "sync_views", !.repeats = "keep"] \in RequestState
    <3>1. "sync_views" \in Steps
      BY DEF Steps
    <3> QED
      BY <3>1, <1>q DEF RequestState, RepeatBody
  <2> QED
    BY <2>2, <2>3, <1>9, IdleType, GotoType, <1>s DEF TypeOK, WriteUpdate,
       Finish
<1>10. ASSUME NEW r \in Procs, BeginDeleteTask(r)
      PROVE  TypeOK'
  <2>1. PICK t \in TaskIds :
          Goto(r, [Idle EXCEPT !.pc = "delete_write", !.task = t])
    BY <1>10, <1>s DEF TypeOK, BeginDeleteTask
  <2>9. [Idle EXCEPT !.pc = "delete_write", !.task = t] \in RequestState
    BY IdleType DEF RequestState, Steps
  <2> QED
    BY <2>1, <2>9, <1>10, GotoType, <1>s DEF TypeOK, BeginDeleteTask
<1>11. ASSUME NEW r \in Procs, WriteDeleteTask(r)
      PROVE  TypeOK'
  <2>1. task' \in [TaskIds -> TaskRow]
    <3>1. \A row \in TaskRow : [row EXCEPT !.state = "gone"] \in TaskRow
      BY DEF TaskRow, Rows
    <3>2. task' = [task EXCEPT ![req[r].task].state = "gone"]
      BY <1>11 DEF WriteDeleteTask
    <3>3. task \in [TaskIds -> TaskRow]
      BY <1>s DEF TypeOK
    <3> QED
      BY <3>1, <3>2, <3>3
  <2> QED
    BY <2>1, <1>11, IdleType, GotoType, <1>s DEF TypeOK, WriteDeleteTask, Finish
<1>12. ASSUME NEW r \in Procs, BeginBulk(r)
      PROVE  TypeOK'
  <2>1. PICK ids \in SUBSET TaskIds, d \in DoneBody :
          Goto(r, [Idle EXCEPT !.pc = "bulk_write", !.ids = ids, !.done = d])
    BY <1>12, <1>s DEF TypeOK, BeginBulk, DoneBody
  <2>9. [Idle EXCEPT !.pc = "bulk_write", !.ids = ids, !.done = d] \in RequestState
    BY IdleType DEF RequestState, Steps
  <2> QED
    BY <2>1, <2>9, <1>12, GotoType, <1>s DEF TypeOK, BeginBulk
<1>13. ASSUME NEW r \in Procs, WriteBulk(r)
      PROVE  TypeOK'
  <2>1. task' \in [TaskIds -> TaskRow]
    BY <1>13, <1>s DEF TypeOK, WriteBulk, TaskRow
  <2> QED
    BY <2>1, <1>13, IdleType, GotoType, <1>s DEF TypeOK, WriteBulk, Finish
<1>14. ASSUME NEW r \in Procs, BeginMove(r)
      PROVE  TypeOK'
  <2>1. PICK t \in TaskIds, v \in Views, b \in BucketIds :
          Goto(r, [Idle EXCEPT !.pc = "move_bucket", !.task = t,
                                !.view = v, !.bucket = b])
    BY <1>14, <1>s DEF TypeOK, BeginMove
  <2>9. [Idle EXCEPT !.pc = "move_bucket", !.task = t,
                                !.view = v, !.bucket = b] \in RequestState
    BY IdleType DEF RequestState, Steps, BucketRef
  <2> QED
    BY <2>1, <2>9, <1>14, GotoType, <1>s DEF TypeOK, BeginMove
<1>15. ASSUME NEW r \in Procs, MoveFindBucket(r)
      PROVE  TypeOK'
  <2>1. \A b \in Columns(req[r].view) : bucket[b].limit \in Nat
    BY <1>s DEF TypeOK, Columns, BucketRow
  <2>2. \A k \in Nat, pc \in Steps :
          [req[r] EXCEPT !.num = k, !.pc = pc] \in RequestState
    BY <1>q DEF RequestState
  <2>3. \/ Finish(r)
        \/ \E k \in Nat, pc \in {"move_count", "move_place"} :
             Goto(r, [req[r] EXCEPT !.num = k, !.pc = pc])
    BY <2>1, <1>15 DEF MoveFindBucket
  <2>4. \E q \in RequestState : Goto(r, q)
    BY <2>2, <2>3, IdleType DEF Finish, Steps
  <2> QED
    BY <2>4, <1>15, GotoType, <1>s DEF TypeOK, MoveFindBucket
<1>16. ASSUME NEW r \in Procs, MoveRejected(r)
      PROVE  TypeOK'
  BY <1>16, IdleType, GotoType, <1>s DEF TypeOK, MoveRejected, Finish
<1>17. ASSUME NEW r \in Procs, MoveAllowed(r)
      PROVE  TypeOK'
  BY <1>17, <1>q, PcType, GotoType, <1>s DEF TypeOK, MoveAllowed, Steps
<1>18. ASSUME NEW r \in Procs, MovePlace(r)
      PROVE  TypeOK'
  <2>1. card' \in [Views -> [TaskIds -> BucketRef]]
    BY <1>18, <1>q, <1>s DEF TypeOK, MovePlace, RequestState
  <2>2. [req[r] EXCEPT !.pc = "move_view", !.num = 0] \in RequestState
    <3>1. "move_view" \in Steps
      BY DEF Steps
    <3> QED
      BY <3>1, <1>q DEF RequestState
  <2> QED
    BY <2>1, <2>2, <1>18, GotoType, <1>s DEF TypeOK, MovePlace
<1>19. ASSUME NEW r \in Procs, MoveReadView(r)
      PROVE  TypeOK'
  <2>1. \A d \in DoneBody :
          [req[r] EXCEPT !.pc = "move_done", !.done = d] \in RequestState
    <3>1. "move_done" \in Steps
      BY DEF Steps
    <3> QED
      BY <3>1, <1>q DEF RequestState
  <2> QED
    BY <2>1, <1>19, IdleType, GotoType, <1>s DEF TypeOK, MoveReadView, Finish,
       DoneBody
<1>20. ASSUME NEW r \in Procs, MoveSetDone(r)
      PROVE  TypeOK'
  <2>1. task' \in [TaskIds -> TaskRow]
    BY <1>20, SetDoneType, <1>s DEF TypeOK, MoveSetDone
  <2>2. [req[r] EXCEPT !.pc = "roll_read"] \in RequestState
    BY <1>q, PcType DEF Steps
  <2> QED
    BY <2>1, <2>2, <1>20, IdleType, GotoType, <1>s DEF TypeOK, MoveSetDone,
       Finish
<1>21. ASSUME NEW r \in Procs, ReadMaxPosition(r)
      PROVE  TypeOK'
  <2>1. \A v \in Views :
          \A m \in {bucket[b].position : b \in Columns(v)} \cup {0} : m + 1 \in Nat
    BY <1>s DEF TypeOK, Columns, BucketRow
  <2>2. PICK v \in Views, k \in Nat :
          Goto(r, [Idle EXCEPT !.pc = "bucket_insert", !.view = v, !.num = k])
    BY <1>21, <2>1 DEF ReadMaxPosition
  <2>3. [Idle EXCEPT !.pc = "bucket_insert", !.view = v, !.num = k] \in RequestState
    BY IdleType DEF RequestState, Steps
  <2> QED
    BY <2>2, <2>3, <1>21, GotoType, <1>s DEF TypeOK, ReadMaxPosition
<1>22. ASSUME NEW r \in Procs, InsertBucket(r)
      PROVE  TypeOK'
  <2>1. PICK b \in BucketIds :
          bucket' = [bucket EXCEPT ![b] =
            [state |-> "live", view |-> req[r].view, limit |-> 0,
             position |-> req[r].num]]
    BY <1>22, <1>s DEF TypeOK, InsertBucket
  <2>2. bucket' \in [BucketIds -> BucketRow]
    BY <2>1, <1>q, <1>s DEF TypeOK, BucketRow, Rows, RequestState
  <2> QED
    BY <2>2, <1>22, IdleType, GotoType, <1>s DEF TypeOK, InsertBucket, Finish
<1>23. ASSUME NEW r \in Procs, BeginUpdateBucket(r)
      PROVE  TypeOK'
  <2>1. PICK b \in BucketIds, key \in {"limit", "position"}, k \in Nat :
          Goto(r, [Idle EXCEPT !.pc = "bucket_write", !.bucket = b,
                                !.key = key, !.num = k])
    BY <1>23, BoardAssumption DEF BeginUpdateBucket
  <2>9. [Idle EXCEPT !.pc = "bucket_write", !.bucket = b,
                                !.key = key, !.num = k] \in RequestState
    BY IdleType DEF RequestState, Steps, EditKeys, BucketRef
  <2> QED
    BY <2>1, <2>9, <1>23, GotoType, <1>s DEF TypeOK, BeginUpdateBucket
<1>24. ASSUME NEW r \in Procs, WriteBucket(r)
      PROVE  TypeOK'
  <2>1. req[r].num \in Nat
    BY <1>q DEF RequestState
  <2>2. \A row \in BucketRow : /\ [row EXCEPT !.limit = req[r].num] \in BucketRow
                              /\ [row EXCEPT !.position = req[r].num] \in BucketRow
    BY <2>1 DEF BucketRow
  <2>3. bucket' \in [BucketIds -> BucketRow]
    BY <2>2, <1>24, <1>s DEF TypeOK, WriteBucket
  <2> QED
    BY <2>3, <1>24, IdleType, GotoType, <1>s DEF TypeOK, WriteBucket, Finish
<1>25. ASSUME NEW r \in Procs, BeginDeleteBucket(r)
      PROVE  TypeOK'
  <2>1. PICK v \in Views, b \in BucketIds :
          Goto(r, [Idle EXCEPT !.pc = "bucket_remaining", !.bucket = b, !.view = v])
    BY <1>25, <1>s DEF TypeOK, BeginDeleteBucket, Columns
  <2>9. [Idle EXCEPT !.pc = "bucket_remaining", !.bucket = b, !.view = v] \in RequestState
    BY IdleType DEF RequestState, Steps, BucketRef
  <2> QED
    BY <2>1, <2>9, <1>25, GotoType, <1>s DEF TypeOK, BeginDeleteBucket
<1>26. ASSUME NEW r \in Procs, ReadRemaining(r)
      PROVE  TypeOK'
  <2>1. \A c \in BucketIds :
          [req[r] EXCEPT !.pc = "bucket_cards", !.other = c] \in RequestState
    <3>1. "bucket_cards" \in Steps
      BY DEF Steps
    <3> QED
      BY <3>1, <1>q DEF RequestState, BucketRef
  <2>2. \/ \E c \in BucketIds :
             Goto(r, [req[r] EXCEPT !.pc = "bucket_cards", !.other = c])
        \/ Finish(r)
    BY <1>26, <1>s DEF TypeOK, ReadRemaining, Leftmost, Columns
  <2> QED
    BY <2>1, <2>2, <1>26, IdleType, GotoType, <1>s DEF TypeOK, ReadRemaining,
       Finish
<1>27. ASSUME NEW r \in Procs, MoveCards(r)
      PROVE  TypeOK'
  <2>1. card' \in [Views -> [TaskIds -> BucketRef]]
    BY <1>27, <1>q, <1>s DEF TypeOK, MoveCards, RequestState
  <2>2. [req[r] EXCEPT !.pc = "bucket_delete", !.other = NoBucket] \in RequestState
    <3>1. "bucket_delete" \in Steps
      BY DEF Steps
    <3> QED
      BY <3>1, <1>q DEF RequestState, BucketRef
  <2> QED
    BY <2>1, <2>2, <1>27, GotoType, <1>s DEF TypeOK, MoveCards
<1>28. ASSUME NEW r \in Procs, DropBucket(r)
      PROVE  TypeOK'
  <2>1. bucket' \in [BucketIds -> BucketRow]
    <3>1. \A row \in BucketRow : [row EXCEPT !.state = "gone"] \in BucketRow
      BY DEF BucketRow, Rows
    <3>2. bucket' = [bucket EXCEPT ![req[r].bucket].state = "gone"]
      BY <1>28 DEF DropBucket
    <3>3. bucket \in [BucketIds -> BucketRow]
      BY <1>s DEF TypeOK
    <3> QED
      BY <3>1, <3>2, <3>3
  <2> QED
    BY <2>1, <1>28, IdleType, GotoType, <1>s DEF TypeOK, DropBucket, Finish
<1>29. ASSUME NEW r \in Procs, BeginEditView(r)
      PROVE  TypeOK'
  <2>1. PICK v \in Views, key \in ViewKeys, b \in BucketRef :
          Goto(r, [Idle EXCEPT !.pc = "view_write", !.view = v, !.key = key,
                                !.bucket = b])
    BY <1>29, <1>s DEF TypeOK, BeginEditView
  <2>9. [Idle EXCEPT !.pc = "view_write", !.view = v, !.key = key,
                                !.bucket = b] \in RequestState
    BY IdleType DEF RequestState, Steps, EditKeys
  <2> QED
    BY <2>1, <2>9, <1>29, GotoType, <1>s DEF TypeOK, BeginEditView
<1>30. ASSUME NEW r \in Procs, WriteView(r)
      PROVE  TypeOK'
  <2>0. /\ view \in [Views -> [default: BucketRef, done: BucketRef]]
        /\ req[r].bucket \in BucketRef
    BY <1>q, <1>s DEF TypeOK, RequestState
  <2>1. view' \in [Views -> [default: BucketRef, done: BucketRef]]
    <3>1. \/ view' = [view EXCEPT ![req[r].view].done = req[r].bucket]
          \/ view' = [view EXCEPT ![req[r].view].default = req[r].bucket]
      BY <1>30 DEF WriteView
    <3> QED
      BY <2>0, <3>1
  <2> QED
    BY <2>1, <1>30, IdleType, GotoType, <1>s DEF TypeOK, WriteView, Finish
<1>31. ASSUME NEW r \in Procs, RollRead(r)
      PROVE  TypeOK'
  BY <1>31, <1>q, PcType, RolledType, GotoType, <1>s DEF TypeOK, RollRead, Steps
<1>32. ASSUME NEW r \in Procs, RollWrite(r)
      PROVE  TypeOK'
  <2>1. task' \in [TaskIds -> TaskRow]
    BY <1>32, SetDoneType, <1>s DEF TypeOK, RollWrite
  <2> QED
    BY <2>1, <1>32, <1>q, RolledType, GotoType, <1>s DEF TypeOK, RollWrite
<1>33. ASSUME NEW r \in Procs, CronStart(r)
      PROVE  TypeOK'
  <2>1. [Idle EXCEPT !.pc = "cron_next", !.ids = Overlooked] \in RequestState
    BY IdleType DEF RequestState, Steps, Overlooked
  <2> QED
    BY <2>1, <1>33, GotoType, <1>s DEF TypeOK, CronStart
<1>34. ASSUME NEW r \in Procs, CronNext(r)
      PROVE  TypeOK'
  <2>1. PICK t \in TaskIds :
          Goto(r, [req[r] EXCEPT !.pc = "roll_read", !.task = t, !.ids = @ \ {t}])
    BY <1>34, <1>q, <1>s DEF TypeOK, CronNext, RequestState
  <2>9. [req[r] EXCEPT !.pc = "roll_read", !.task = t, !.ids = @ \ {t}] \in RequestState
    <3>1. "roll_read" \in Steps
      BY DEF Steps
    <3> QED
      BY <3>1, <1>q DEF RequestState
  <2> QED
    BY <2>1, <2>9, <1>34, GotoType, <1>s DEF TypeOK, CronNext
<1>35. ASSUME NEW t \in TaskIds, Age(t)
      PROVE  TypeOK'
  BY <1>35, <1>s DEF TypeOK, Age, TaskRow
<1>36. CASE Crash
  BY <1>36, IdleType, <1>s DEF TypeOK, Crash
<1>37. CASE UNCHANGED vars
  BY <1>37, <1>s DEF TypeOK, vars
<1> QED
  BY <1>s, <1>1, <1>2, <1>3, <1>4, <1>5, <1>6, <1>7, <1>8,
     <1>9, <1>10, <1>11, <1>12, <1>13, <1>14, <1>15, <1>16,
     <1>17, <1>18, <1>19, <1>20, <1>21, <1>22, <1>23, <1>24,
     <1>25, <1>26, <1>27, <1>28, <1>29, <1>30, <1>31, <1>32,
     <1>33, <1>34, <1>35, <1>36, <1>37
     DEF Next, Begin, Step, TaskStep, MoveStep, ColumnStep

(* Rows and requests keep their types.                                     *)
THEOREM BoardTyped == Spec => []TypeOK
BY InitType, StepType, PTL DEF Spec

-----------------------------------------------------------------------------
(* Frames: which actions matter to what the proofs below follow.           *)

(* A step of request r leaves every other request as it is.                *)
LEMMA OneRequestMoves ==
  ASSUME NEW r \in Procs, Begin(r) \/ Step(r) \/ CronStart(r)
  PROVE  \E q : Goto(r, q)
<1>1. CASE Begin(r)
  BY <1>1 DEF Begin, ReadMaxIndex, BeginUpdate, BeginDeleteTask, BeginMove,
     BeginBulk, ReadMaxPosition, BeginUpdateBucket, BeginDeleteBucket,
     BeginEditView
<1>2. CASE TaskStep(r)
  BY <1>2 DEF TaskStep, InsertConflict, InsertTask, AddTaskToViews,
     SyncDoneBucket, PickFallback, PlaceCard, WriteUpdate, WriteDeleteTask,
     WriteBulk, RollRead, RollWrite, CronNext, Finish
<1>3. CASE MoveStep(r)
  BY <1>3 DEF MoveStep, MoveFindBucket, MoveRejected, MoveAllowed, MovePlace,
     MoveReadView, MoveSetDone, Finish
<1>4. CASE ColumnStep(r)
  BY <1>4 DEF ColumnStep, InsertBucket, WriteBucket, ReadRemaining, MoveCards,
     DropBucket, WriteView, Finish
<1>5. CASE CronStart(r)
  BY <1>5 DEF CronStart
<1> QED
  BY <1>1, <1>2, <1>3, <1>4, <1>5 DEF Step

(* The handlers whose next statement writes what an earlier statement read *)
(* or chose: which actions bring a request there.                          *)
LEMMA ArmedBy ==
  ASSUME TypeOK, [Next]_vars, NEW s \in Procs, req'[s] # req[s]
  PROVE  /\ req'[s].pc = "create_insert" => ReadMaxIndex(s)
         /\ req'[s].pc = "place" =>
              \/ AddTaskToViews(s) \/ SyncDoneBucket(s)
              \/ PickFallback(s) \/ PlaceCard(s)
         /\ req'[s].pc = "bulk_write" => BeginBulk(s)
         /\ req'[s].pc = "delete_write" => BeginDeleteTask(s)
         /\ req'[s].pc \in {"move_count", "move_place"} =>
              MoveFindBucket(s) \/ MoveAllowed(s)
         /\ req'[s].pc = "bucket_cards" => ReadRemaining(s)
         /\ req'[s].pc = "view_write" => BeginEditView(s)
         /\ req'[s].pc = "add_views" => InsertTask(s)
         /\ req'[s].pc = "sync_views" => WriteUpdate(s)
         /\ req'[s].pc = "move_view" => MovePlace(s)
         /\ req'[s].pc = "move_done" => MoveReadView(s)
         /\ req'[s].pc = "bucket_remaining" => BeginDeleteBucket(s)
         /\ req'[s].pc = "bucket_delete" => MoveCards(s)
         /\ req'[s].pc = "update_write" => BeginUpdate(s)
         /\ req'[s].pc = "move_bucket" => BeginMove(s)
<1> DEFINE Armed == {"create_insert", "place", "bulk_write", "delete_write",
                     "move_count", "move_place", "bucket_cards", "view_write",
                     "add_views", "sync_views", "move_view", "move_done",
                     "bucket_remaining", "bucket_delete", "update_write",
                     "move_bucket"}
<1>f. \A q : Goto(s, q) => req'[s] = q
  BY DEF TypeOK, Goto
<1>q. req[s] \in RequestState
  BY DEF TypeOK
<1>d. "pc" \in DOMAIN req[s]
  BY <1>q DEF RequestState
<1>i. Idle.pc = "idle" /\ "pc" \in DOMAIN Idle
  BY DEF Idle
(* Most actions leave for a statement that is not one of these.            *)
<1>1. ASSUME BeginUpdate(s)
      PROVE  req'[s].pc = "update_write"
  <2>1. \E t, d, k :
          req'[s] = [Idle EXCEPT !.pc = "update_write", !.task = t,
            !.done = d, !.repeats = k]
    BY <1>1, <1>f DEF BeginUpdate
  <2> QED
    BY <2>1, <1>d, <1>i
<1>2. ASSUME BeginMove(s)
      PROVE  req'[s].pc = "move_bucket"
  <2>1. \E t, v, b :
          req'[s] = [Idle EXCEPT !.pc = "move_bucket", !.task = t,
            !.view = v, !.bucket = b]
    BY <1>2, <1>f DEF BeginMove
  <2> QED
    BY <2>1, <1>d, <1>i
<1>3. ASSUME ReadMaxPosition(s)
      PROVE  req'[s].pc \notin Armed
  <2>1. \E v, n :
          req'[s] = [Idle EXCEPT !.pc = "bucket_insert", !.view = v, !.num = n]
    BY <1>3, <1>f DEF ReadMaxPosition
  <2> QED
    BY <2>1, <1>d, <1>i
<1>4. ASSUME BeginUpdateBucket(s)
      PROVE  req'[s].pc \notin Armed
  <2>1. \E b, key, n :
          req'[s] = [Idle EXCEPT !.pc = "bucket_write", !.bucket = b,
            !.key = key, !.num = n]
    BY <1>4, <1>f DEF BeginUpdateBucket
  <2> QED
    BY <2>1, <1>d, <1>i
<1>5. ASSUME BeginDeleteBucket(s)
      PROVE  req'[s].pc = "bucket_remaining"
  <2>1. \E v, b :
          req'[s] = [Idle EXCEPT !.pc = "bucket_remaining", !.bucket = b,
            !.view = v]
    BY <1>5, <1>f DEF BeginDeleteBucket
  <2> QED
    BY <2>1, <1>d, <1>i
<1>6. ASSUME InsertTask(s)
      PROVE  req'[s].pc = "add_views"
  <2>1. \E t : req'[s] = [req[s] EXCEPT !.pc = "add_views", !.task = t]
    BY <1>6, <1>f DEF InsertTask
  <2> QED
    BY <2>1, <1>d, <1>i
<1>7. ASSUME WriteUpdate(s)
      PROVE  req'[s].pc \in {"idle", "sync_views"}
  <2>1. \/ req'[s] = Idle
        \/ req'[s] = [req[s] EXCEPT !.pc = "sync_views", !.repeats = "keep"]
    BY <1>7, <1>f DEF WriteUpdate, Finish
  <2> QED
    BY <2>1, <1>d, <1>i
<1>8. ASSUME RollRead(s)
      PROVE  req'[s].pc \notin Armed
  <2>1. \/ req'[s] = [req[s] EXCEPT !.pc = "roll_write"]
        \/ req'[s] = Idle
        \/ req'[s] = [Idle EXCEPT !.pc = "cron_next", !.ids = req[s].ids]
    BY <1>8, <1>f DEF RollRead, Rolled
  <2> QED
    BY <2>1, <1>d, <1>i
<1>9. ASSUME RollWrite(s)
      PROVE  req'[s].pc \notin Armed
  <2>1. \/ req'[s] = Idle
        \/ req'[s] = [Idle EXCEPT !.pc = "cron_next", !.ids = req[s].ids]
    BY <1>9, <1>f DEF RollWrite, Rolled
  <2> QED
    BY <2>1, <1>d, <1>i
<1>10. ASSUME CronNext(s)
      PROVE  req'[s].pc \notin Armed
  <2>1. \E t, i :
          req'[s] = [req[s] EXCEPT !.pc = "roll_read", !.task = t, !.ids = i]
    BY <1>10, <1>f DEF CronNext
  <2> QED
    BY <2>1, <1>d, <1>i
<1>11. ASSUME MovePlace(s)
      PROVE  req'[s].pc = "move_view"
  <2>1. req'[s] = [req[s] EXCEPT !.pc = "move_view", !.num = 0]
    BY <1>11, <1>f DEF MovePlace
  <2> QED
    BY <2>1, <1>d, <1>i
<1>12. ASSUME MoveReadView(s)
      PROVE  req'[s].pc \in {"idle", "move_done"}
  <2>1. \/ req'[s] = Idle
        \/ \E d : req'[s] = [req[s] EXCEPT !.pc = "move_done", !.done = d]
    BY <1>12, <1>f DEF MoveReadView, Finish
  <2> QED
    BY <2>1, <1>d, <1>i
<1>13. ASSUME MoveSetDone(s)
      PROVE  req'[s].pc \notin Armed
  <2>1. req'[s] = Idle \/ req'[s] = [req[s] EXCEPT !.pc = "roll_read"]
    BY <1>13, <1>f DEF MoveSetDone, Finish
  <2> QED
    BY <2>1, <1>d, <1>i
<1>14. ASSUME MoveCards(s)
      PROVE  req'[s].pc = "bucket_delete"
  <2>1. \E b : req'[s] = [req[s] EXCEPT !.pc = "bucket_delete", !.other = b]
    BY <1>14, <1>f DEF MoveCards
  <2> QED
    BY <2>1, <1>d, <1>i
<1>15. ASSUME CronStart(s)
      PROVE  req'[s].pc \notin Armed
  <2>1. \E i : req'[s] = [Idle EXCEPT !.pc = "cron_next", !.ids = i]
    BY <1>15, <1>f DEF CronStart
  <2> QED
    BY <2>1, <1>d, <1>i
<1>16. ASSUME \/ InsertConflict(s) \/ WriteDeleteTask(s) \/ WriteBulk(s) \/ MoveRejected(s)
              \/ InsertBucket(s) \/ WriteBucket(s) \/ DropBucket(s) \/ WriteView(s)
      PROVE  req'[s].pc \notin Armed
  <2>1. req'[s] = Idle
    BY <1>16, <1>f DEF InsertConflict, WriteDeleteTask, WriteBulk,
       MoveRejected, InsertBucket, WriteBucket, DropBucket, WriteView, Finish
  <2> QED
    BY <2>1, <1>i
(* The others.                                                             *)
<1>17. ASSUME ReadMaxIndex(s)
      PROVE  req'[s].pc = "create_insert"
  <2>1. \E k : req'[s] = [Idle EXCEPT !.pc = "create_insert", !.num = k]
    BY <1>17, <1>f DEF ReadMaxIndex
  <2> QED
    BY <2>1, <1>d, <1>i
<1>18. ASSUME BeginBulk(s)
      PROVE  req'[s].pc = "bulk_write"
  <2>1. \E t, d :
          req'[s] = [Idle EXCEPT !.pc = "bulk_write", !.ids = t, !.done = d]
    BY <1>18, <1>f DEF BeginBulk
  <2> QED
    BY <2>1, <1>d, <1>i
<1>19. ASSUME MoveFindBucket(s)
      PROVE  req'[s].pc \in {"idle", "move_count", "move_place"}
  <2>1. \/ req'[s] = Idle
        \/ \E k, pc : /\ pc \in {"move_count", "move_place"}
                   /\ req'[s] = [req[s] EXCEPT !.num = k, !.pc = pc]
    BY <1>19, <1>f DEF MoveFindBucket, Finish
  <2> QED
    BY <2>1, <1>d, <1>i
<1>20. ASSUME BeginDeleteTask(s)
      PROVE  req'[s].pc = "delete_write"
  <2>1. \E t : req'[s] = [Idle EXCEPT !.pc = "delete_write", !.task = t]
    BY <1>20, <1>f DEF BeginDeleteTask
  <2> QED
    BY <2>1, <1>d, <1>i
<1>21. ASSUME MoveAllowed(s)
      PROVE  req'[s].pc = "move_place"
  <2>1. req'[s] = [req[s] EXCEPT !.pc = "move_place"]
    BY <1>21, <1>f DEF MoveAllowed
  <2> QED
    BY <2>1, <1>d, <1>i
<1>22. ASSUME ReadRemaining(s)
      PROVE  req'[s].pc \in {"idle", "bucket_cards"}
  <2>1. \/ req'[s] = Idle
        \/ \E c : req'[s] = [req[s] EXCEPT !.pc = "bucket_cards", !.other = c]
    BY <1>22, <1>f DEF ReadRemaining, Finish
  <2> QED
    BY <2>1, <1>d, <1>i
<1>23. ASSUME BeginEditView(s)
      PROVE  req'[s].pc = "view_write"
  <2>1. \E v, key, b :
          req'[s] = [Idle EXCEPT !.pc = "view_write", !.view = v,
            !.key = key, !.bucket = b]
    BY <1>23, <1>f DEF BeginEditView
  <2> QED
    BY <2>1, <1>d, <1>i
<1>24. ASSUME AddTaskToViews(s)
      PROVE  req'[s].pc = "place"
  <2>1. \E p : req'[s] = [req[s] EXCEPT !.pc = "place", !.plan = p]
    BY <1>24, <1>f DEF AddTaskToViews
  <2> QED
    BY <2>1, <1>d, <1>i
<1>25. ASSUME SyncDoneBucket(s)
      PROVE  req'[s].pc = "place"
  <2>1. \E p : req'[s] = [req[s] EXCEPT !.pc = "place", !.plan = p]
    BY <1>25, <1>f DEF SyncDoneBucket
  <2> QED
    BY <2>1, <1>d, <1>i
<1>26. ASSUME PickFallback(s) \/ PlaceCard(s)
      PROVE  req'[s].pc \in {"place", "roll_read", "idle"}
  <2>1. \/ \E p : req'[s] = [req[s] EXCEPT !.plan = p] /\ req[s].pc = "place"
        \/ \E p : req'[s] = [req[s] EXCEPT !.plan = p, !.pc = "roll_read"]
        \/ req'[s] = Idle
    <3>1. \/ /\ req[s].pc = "place"
             /\ \E v, b : Goto(s, [req[s] EXCEPT !.plan[v] = b])
          \/ \E v : req[s].pc = "place" /\ Goto(s, Placed(req[s], v))
      BY <1>26 DEF PickFallback, PlaceCard, NextView, At
    <3> QED
      BY <3>1, <1>f DEF Placed
  <2> QED
    BY <2>1, <1>d, <1>i
<1>27. ASSUME NEW r \in Procs, Begin(r) \/ Step(r) \/ CronStart(r), r # s
      PROVE  FALSE
  BY <1>27, OneRequestMoves DEF Goto, TypeOK
<1>28. CASE Crash
  BY <1>28, <1>i DEF Crash
<1>29. CASE UNCHANGED req
  BY <1>29
<1> QED
  BY <1>1, <1>2, <1>3, <1>4, <1>5, <1>6, <1>7, <1>8, <1>9, <1>10, <1>11,
     <1>12, <1>13, <1>14, <1>15, <1>16, <1>17, <1>18, <1>19, <1>20, <1>21,
     <1>22, <1>23, <1>24, <1>25, <1>26, <1>27, <1>28, <1>29
     DEF Next, Age, vars, Begin, Step, TaskStep, MoveStep, ColumnStep

(* A step that writes task rows is one of seven actions.                   *)
LEMMA TaskWrittenBy ==
  ASSUME [Next]_vars, task' # task
  PROVE  \/ \E r \in Procs :
              \/ InsertTask(r) \/ WriteUpdate(r) \/ WriteDeleteTask(r)
              \/ MoveSetDone(r) \/ WriteBulk(r) \/ RollWrite(r)
         \/ \E t \in TaskIds : Age(t)
<1>1. ASSUME NEW r \in Procs, Begin(r)
      PROVE  FALSE
  BY <1>1 DEF Begin, ReadMaxIndex, BeginUpdate, BeginDeleteTask, BeginMove,
     BeginBulk, ReadMaxPosition, BeginUpdateBucket, BeginDeleteBucket,
     BeginEditView
<1>2. ASSUME NEW r \in Procs, TaskStep(r)
      PROVE  \/ InsertTask(r) \/ WriteUpdate(r) \/ WriteDeleteTask(r)
             \/ WriteBulk(r) \/ RollWrite(r)
  BY <1>2 DEF TaskStep, InsertConflict, AddTaskToViews, SyncDoneBucket,
     PickFallback, PlaceCard, RollRead, CronNext
<1>3. ASSUME NEW r \in Procs, MoveStep(r)
      PROVE  MoveSetDone(r)
  BY <1>3 DEF MoveStep, MoveFindBucket, MoveRejected, MoveAllowed, MovePlace,
     MoveReadView
<1>4. ASSUME NEW r \in Procs, ColumnStep(r) \/ CronStart(r)
      PROVE  FALSE
  BY <1>4 DEF ColumnStep, InsertBucket, WriteBucket, ReadRemaining, MoveCards,
     DropBucket, WriteView, CronStart
<1>5. ~Crash /\ ~UNCHANGED vars
  BY DEF Crash, vars
<1> QED
  BY <1>1, <1>2, <1>3, <1>4, <1>5 DEF Next, Step

-----------------------------------------------------------------------------
(* done and done_at.                                                       *)

Stamped(row) == row.done <=> row.doneAt # "null"

(* SetDone, the one place that writes both, keeps them together.           *)
LEMMA SetDoneStamps ==
  ASSUME NEW row \in TaskRow, Stamped(row), NEW d
  PROVE  Stamped(SetDone(row, d))
BY DEF SetDone, TaskRow, Stamped

(* A repeat setting has nothing to do with it.                             *)
LEMMA SetRepeatsStamps ==
  ASSUME NEW row \in TaskRow, Stamped(row), NEW k
  PROVE  Stamped(SetRepeats(row, k))
BY DEF SetRepeats, TaskRow, Stamped

(* The invariant: no bulk edit is about to write either.                   *)
StampInv == DoneStamped /\ \A r \in Procs : req[r].pc # "bulk_write"

(* Every step keeps the invariant.                                         *)
LEMMA StampStep ==
  ASSUME "bulk" \notin Ops, TypeOK, StampInv, [Next]_vars
  PROVE  StampInv'
<1>t. \A t \in TaskIds : task[t] \in TaskRow /\ Stamped(task[t])
  BY DEF TypeOK, StampInv, DoneStamped, Stamped
<1>1. ASSUME NEW s \in Procs
      PROVE  req'[s].pc # "bulk_write"
  BY ArmedBy DEF StampInv, BeginBulk, Serves
<1>2. \A t \in TaskIds : Stamped(task'[t])
  <2>1. ASSUME NEW r \in Procs, InsertTask(r)
        PROVE  \A t \in TaskIds : Stamped(task'[t])
    BY <2>1, <1>t DEF InsertTask, NoTask, Stamped, TypeOK
  <2>2. ASSUME NEW r \in Procs, WriteUpdate(r)
        PROVE  \A t \in TaskIds : Stamped(task'[t])
    BY <2>2, <1>t, SetDoneType, SetDoneStamps, SetRepeatsStamps
       DEF WriteUpdate, TypeOK
  <2>3. ASSUME NEW r \in Procs, WriteDeleteTask(r)
        PROVE  \A t \in TaskIds : Stamped(task'[t])
    BY <2>3, <1>t DEF WriteDeleteTask, Stamped, TypeOK, TaskRow
  <2>4. ASSUME NEW r \in Procs, MoveSetDone(r)
        PROVE  \A t \in TaskIds : Stamped(task'[t])
    BY <2>4, <1>t, SetDoneStamps DEF MoveSetDone, TypeOK
  <2>5. ASSUME NEW r \in Procs, WriteBulk(r)
        PROVE  FALSE
    BY <2>5 DEF WriteBulk, StampInv, At
  <2>6. ASSUME NEW r \in Procs, RollWrite(r)
        PROVE  \A t \in TaskIds : Stamped(task'[t])
    BY <2>6, <1>t, SetDoneStamps DEF RollWrite, TypeOK
  <2>7. ASSUME NEW u \in TaskIds, Age(u)
        PROVE  \A t \in TaskIds : Stamped(task'[t])
    BY <2>7, <1>t DEF Age, Stamped, TypeOK, TaskRow
  <2> QED
    BY <2>1, <2>2, <2>3, <2>4, <2>5, <2>6, <2>7, <1>t, TaskWrittenBy
<1> QED
  BY <1>1, <1>2 DEF StampInv, DoneStamped, Stamped

(* The checkbox, the card move and the roll change done and done_at        *)
(* together; only a bulk edit (extras.js:440) does not.                    *)
THEOREM DoneStaysStamped ==
  ASSUME "bulk" \notin Ops
  PROVE  Spec => []DoneStamped
<1>1. Init => StampInv
  BY DEF Init, StampInv, DoneStamped, NoTask, Idle
<1>2. TypeOK /\ StampInv /\ [Next]_vars => StampInv'
  BY StampStep
<1>3. StampInv => DoneStamped
  BY DEF StampInv
<1> QED
  BY <1>1, <1>2, <1>3, BoardTyped, PTL DEF Spec

-----------------------------------------------------------------------------
(* The numbers of tasks.                                                   *)

(* The invariant: ids are handed out in order, a number is no larger than  *)
(* its row id, and a number a create has computed follows a stored one.    *)
NumberInv ==
  /\ \A t \in TaskIds : Stored(t) =>
       /\ task[t].index \in 1 .. t
       /\ \A u \in TaskIds \ {t} : task[u].index # task[t].index
       /\ \A u \in 1 .. (t - 1) : Stored(u)
       /\ task[t].index - 1 \in Numbers
  /\ \A t \in TaskIds : ~Stored(t) => task[t].index = 0
  /\ \A r \in Procs : req[r].pc = "create_insert" =>
       req[r].num \in Nat \ {0} /\ req[r].num - 1 \in Numbers
  /\ \A r \in Procs : req[r].pc = "delete_write" =>
       \E t \in TaskIds : req[r].task = t /\ Stored(t)

(* Only the insert of a task makes a row or writes a number.               *)
LEMMA NumbersKept ==
  ASSUME TypeOK, NumberInv, [Next]_vars, ~\E r \in Procs : InsertTask(r)
  PROVE  \A t \in TaskIds : /\ task'[t].index = task[t].index
                            /\ Stored(t)' <=> Stored(t)
<1> DEFINE Kept(row, new) == new.index = row.index /\ new.state = row.state
<1>1. \A row \in TaskRow : \A d, k :
        /\ Kept(row, SetDone(row, d))
        /\ Kept(row, SetRepeats(SetDone(row, d), k))
  BY DEF SetRepeats, SetDone, TaskRow
<1>2. \A row \in TaskRow : \A x :
        /\ Kept(row, [row EXCEPT !.done = x])
        /\ Kept(row, [row EXCEPT !.doneAt = x])
  BY DEF TaskRow
<1>3. \A row : Kept(row, row)
  OBVIOUS
<1> HIDE DEF Kept
<1>4. ASSUME NEW r \in Procs,
             WriteUpdate(r) \/ MoveSetDone(r) \/ WriteBulk(r) \/ RollWrite(r)
      PROVE  \A t \in TaskIds : Kept(task[t], task'[t])
  <2>1. CASE WriteUpdate(r)
    BY <2>1, <1>1, <1>3 DEF WriteUpdate, TypeOK
  <2>2. CASE MoveSetDone(r)
    BY <2>2, <1>1, <1>3 DEF MoveSetDone, TypeOK
  <2>3. CASE WriteBulk(r)
    BY <2>3, <1>2, <1>3 DEF WriteBulk, TypeOK
  <2>4. CASE RollWrite(r)
    BY <2>4, <1>1, <1>3 DEF RollWrite, TypeOK
  <2> QED
    BY <1>4, <2>1, <2>2, <2>3, <2>4
<1>5. ASSUME NEW u \in TaskIds, Age(u)
      PROVE  \A t \in TaskIds : Kept(task[t], task'[t])
  BY <1>5, <1>2, <1>3 DEF Age, TypeOK
<1>6. ASSUME NEW r \in Procs, WriteDeleteTask(r)
      PROVE  \A t \in TaskIds : /\ task'[t].index = task[t].index
                                /\ Stored(t)' <=> Stored(t)
  <2>1. Stored(req[r].task)
    BY <1>6 DEF NumberInv, WriteDeleteTask, At
  <2>2. \A row \in TaskRow : /\ [row EXCEPT !.state = "gone"].index = row.index
                             /\ [row EXCEPT !.state = "gone"].state = "gone"
    BY DEF TaskRow
  <2> QED
    BY <1>6, <2>1, <2>2 DEF WriteDeleteTask, TypeOK, Stored
<1> QED
  BY <1>4, <1>5, <1>6, TaskWrittenBy DEF Stored, Kept

(* The insert gives the next row a number no row has and that follows one. *)
LEMMA NumbersInserted ==
  ASSUME TypeOK, NumberInv, NEW r \in Procs, InsertTask(r)
  PROVE  \E t \in TaskIds :
           /\ FreshTask(t)
           /\ req[r].num \in 1 .. t
           /\ \A u \in TaskIds : Stored(u) => task[u].index # req[r].num
           /\ task'[t].index = req[r].num
           /\ Stored(t)'
           /\ \A u \in TaskIds \ {t} : /\ task'[u].index = task[u].index
                                       /\ Stored(u)' <=> Stored(u)
<1>1. PICK t \in TaskIds :
        /\ FreshTask(t)
        /\ task' = [task EXCEPT ![t] =
             [NoTask EXCEPT !.state = "live", !.index = req[r].num]]
  BY DEF InsertTask
<1>2. req[r].num \in Nat \ {0} /\ req[r].num - 1 \in Numbers
  BY DEF NumberInv, InsertTask, At
<1>3. \A u \in TaskIds : Stored(u) => u < t
  BY <1>1 DEF NumberInv, FreshTask, TaskIds
<1>4. req[r].num \in 1 .. t
  <2>1. CASE req[r].num = 1
    BY <2>1 DEF TaskIds
  <2>2. CASE \E u \in TaskIds : Stored(u) /\ task[u].index = req[r].num - 1
    <3>1. PICK u \in TaskIds : Stored(u) /\ task[u].index = req[r].num - 1
      BY <2>2
    <3>2. task[u].index \in 1 .. u /\ u < t
      BY <3>1, <1>3 DEF NumberInv
    <3> QED
      BY <3>1, <3>2, <1>2 DEF TaskIds
  <2> QED
    BY <2>1, <2>2, <1>2 DEF Numbers
<1>5. task'[t].index = req[r].num /\ Stored(t)'
  BY <1>1 DEF TypeOK, NoTask, Stored
<1>6. \A u \in TaskIds \ {t} : /\ task'[u].index = task[u].index
                               /\ Stored(u)' <=> Stored(u)
  BY <1>1 DEF TypeOK, Stored
<1>7. \A u \in TaskIds : Stored(u) => task[u].index # req[r].num
  BY DEF InsertTask
<1> QED
  BY <1>1, <1>4, <1>5, <1>6, <1>7

(* A number once stored stays stored.                                      *)
LEMMA NumbersGrow ==
  ASSUME TypeOK, NumberInv, [Next]_vars
  PROVE  Numbers \subseteq Numbers'
<1>1. \A t \in TaskIds : Stored(t) => Stored(t)' /\ task'[t].index = task[t].index
  <2>1. CASE \E r \in Procs : InsertTask(r)
    BY <2>1, NumbersInserted DEF FreshTask
  <2>2. CASE ~\E r \in Procs : InsertTask(r)
    BY <2>2, NumbersKept
  <2> QED
    BY <2>1, <2>2
<1> QED
  BY <1>1 DEF Numbers

(* Every step keeps the invariant.                                         *)
LEMMA NumberStep ==
  ASSUME TypeOK, NumberInv, [Next]_vars
  PROVE  NumberInv'
<1>1. ASSUME NEW s \in Procs, req'[s].pc = "create_insert"
      PROVE  req'[s].num \in Nat \ {0} /\ req'[s].num - 1 \in Numbers'
  <2>1. CASE req'[s] = req[s]
    BY <1>1, <2>1, NumbersGrow DEF NumberInv
  <2>2. CASE req'[s] # req[s]
    <3>1. ReadMaxIndex(s)
      BY <1>1, <2>2, ArmedBy
    <3>2. PICK m \in Numbers :
            Goto(s, [Idle EXCEPT !.pc = "create_insert", !.num = m + 1])
      BY <3>1 DEF ReadMaxIndex
    <3>3. m \in Nat
      BY DEF Numbers, Stored, TypeOK, TaskRow
    <3>4. req'[s].num = m + 1
      BY <3>2 DEF Goto, Idle, TypeOK
    <3> QED
      BY <3>3, <3>4, NumbersGrow
  <2> QED
    BY <2>1, <2>2
<1>2. \A t \in TaskIds : Stored(t) => Stored(t)'
  BY NumbersInserted, NumbersKept DEF FreshTask
<1>3. ASSUME NEW s \in Procs, req'[s].pc = "delete_write"
      PROVE  \E t \in TaskIds : req'[s].task = t /\ Stored(t)'
  <2>1. CASE req'[s] = req[s]
    BY <1>2, <1>3, <2>1 DEF NumberInv
  <2>2. CASE req'[s] # req[s]
    <3>1. BeginDeleteTask(s)
      BY <1>3, <2>2, ArmedBy
    <3>2. PICK t \in TaskIds :
            /\ LiveTask(t)
            /\ Goto(s, [Idle EXCEPT !.pc = "delete_write", !.task = t])
      BY <3>1 DEF BeginDeleteTask
    <3>3. req'[s].task = t
      BY <3>2 DEF Goto, Idle, TypeOK
    <3>4. Stored(t)
      BY <3>2 DEF LiveTask, Stored
    <3> QED
      BY <1>2, <3>3, <3>4
  <2> QED
    BY <2>1, <2>2
<1>r. \A r \in Procs :
        /\ req'[r].pc = "create_insert" =>
             req'[r].num \in Nat \ {0} /\ req'[r].num - 1 \in Numbers'
        /\ req'[r].pc = "delete_write" =>
             \E t \in TaskIds : req'[r].task = t /\ Stored(t)'
  BY <1>1, <1>3
<1>4. CASE ~\E r \in Procs : InsertTask(r)
  <2>1. \A t \in TaskIds : /\ task'[t].index = task[t].index
                           /\ Stored(t)' <=> Stored(t)
    BY <1>4, NumbersKept
  <2>2. \A t \in TaskIds : \A u \in 1 .. (t - 1) : u \in TaskIds
    BY BoardAssumption DEF TaskIds
  <2> QED
    BY <2>1, <2>2, <1>r, NumbersGrow DEF NumberInv
<1>5. ASSUME NEW r \in Procs, InsertTask(r)
      PROVE  NumberInv'
  <2> DEFINE n == req[r].num
  <2>1. PICK t \in TaskIds :
           /\ FreshTask(t)
           /\ n \in 1 .. t
           /\ \A u \in TaskIds : Stored(u) => task[u].index # n
           /\ task'[t].index = n
           /\ Stored(t)'
           /\ \A u \in TaskIds \ {t} : /\ task'[u].index = task[u].index
                                       /\ Stored(u)' <=> Stored(u)
    BY <1>5, NumbersInserted
  <2>2. n - 1 \in Numbers'
    BY <1>5, NumbersGrow DEF NumberInv, InsertTask, At
  <2> HIDE DEF n
  <2>3. \A u \in TaskIds \ {t} : task[u].index # n
    BY <2>1 DEF NumberInv
  <2>4. ASSUME NEW u \in TaskIds, Stored(u)'
        PROVE  /\ task'[u].index \in 1 .. u
               /\ \A w \in TaskIds \ {u} : task'[w].index # task'[u].index
               /\ \A w \in 1 .. (u - 1) : w \in TaskIds /\ Stored(w)'
               /\ task'[u].index - 1 \in Numbers'
    <3>1. CASE u = t
      <4>1. \A w \in TaskIds \ {t} : task'[w].index # n
        BY <2>1, <2>3
      <4>2. \A w \in 1 .. (t - 1) : w \in TaskIds /\ w # t /\ Stored(w)
        BY <2>1, BoardAssumption DEF FreshTask, TaskIds
      <4> QED
        BY <3>1, <4>1, <4>2, <2>1, <2>2
    <3>2. CASE u # t
      <4>1. /\ task[u].index \in 1 .. u
            /\ \A w \in TaskIds \ {u} : task[w].index # task[u].index
            /\ \A w \in 1 .. (u - 1) : Stored(w)
            /\ task[u].index - 1 \in Numbers
        BY <2>4, <3>2, <2>1 DEF NumberInv
      <4>2. task'[u].index = task[u].index
        BY <3>2, <2>1
      <4>3. \A w \in TaskIds \ {u} : task'[w].index # task'[u].index
        BY <4>1, <4>2, <2>1, <2>3, <3>2
      <4>4. \A w \in 1 .. (u - 1) : w \in TaskIds
        BY BoardAssumption DEF TaskIds
      <4>5. \A w \in 1 .. (u - 1) : Stored(w)'
        BY <4>1, <4>4, <2>1
      <4> QED
        BY <4>1, <4>2, <4>3, <4>4, <4>5, NumbersGrow
    <3> QED
      BY <3>1, <3>2
  <2>5. \A u \in TaskIds : ~Stored(u)' => task'[u].index = 0
    BY <2>1 DEF NumberInv
  <2> QED
    BY <2>4, <2>5, <1>r DEF NumberInv
<1> QED
  BY <1>4, <1>5

(* However many creates race for the next number, the tasks of a project   *)
(* are numbered #1, #2, ... without a hole and without a number twice      *)
(* (tasks.js:271 and the unique key of the table).                         *)
THEOREM NumbersStayUnbroken == Spec => []NumbersUnbroken
<1>1. Init => NumberInv
  BY DEF Init, NumberInv, NoTask, Idle, Stored
<1>2. TypeOK /\ NumberInv /\ [Next]_vars => NumberInv'
  BY NumberStep
<1>3. NumberInv => NumbersUnbroken
  BY BoardAssumption DEF NumberInv, NumbersUnbroken, Numbers, TaskIds
<1> QED
  BY <1>1, <1>2, <1>3, BoardTyped, PTL DEF Spec

-----------------------------------------------------------------------------
(* Boards stay separate.                                                   *)

(* The invariant: also the references a handler is about to write are to   *)
(* columns of the view it writes them for.                                 *)
OwnRequest(q) ==
  /\ q.pc = "place" => \A v \in DOMAIN q.plan : OwnColumn(v, q.plan[v])
  /\ q.pc \in {"move_count", "move_place", "view_write"} =>
       OwnColumn(q.view, q.bucket)
  /\ q.pc = "bucket_cards" => OwnColumn(q.view, q.other)

SeparateInv == BoardsSeparate /\ \A r \in Procs : OwnRequest(req[r])

(* A step that writes columns is one of three actions.                     *)
LEMMA BucketWrittenBy ==
  ASSUME [Next]_vars, bucket' # bucket
  PROVE  \E r \in Procs : InsertBucket(r) \/ WriteBucket(r) \/ DropBucket(r)
<1>1. ASSUME NEW r \in Procs, Begin(r)
      PROVE  UNCHANGED bucket
  BY <1>1 DEF Begin, ReadMaxIndex, BeginUpdate, BeginDeleteTask, BeginMove,
     BeginBulk, ReadMaxPosition, BeginUpdateBucket, BeginDeleteBucket,
     BeginEditView
<1>2. ASSUME NEW r \in Procs, TaskStep(r)
      PROVE  UNCHANGED bucket
  BY <1>2 DEF TaskStep, InsertConflict, InsertTask, AddTaskToViews,
     SyncDoneBucket, PickFallback, PlaceCard, WriteUpdate, WriteDeleteTask,
     WriteBulk, RollRead, RollWrite, CronNext
<1>3. ASSUME NEW r \in Procs, MoveStep(r) \/ CronStart(r)
      PROVE  UNCHANGED bucket
  BY <1>3 DEF MoveStep, MoveFindBucket, MoveRejected, MoveAllowed, MovePlace,
     MoveReadView, MoveSetDone, CronStart
<1>4. ASSUME NEW r \in Procs, ReadRemaining(r) \/ MoveCards(r) \/ WriteView(r)
      PROVE  UNCHANGED bucket
  BY <1>4 DEF ReadRemaining, MoveCards, WriteView
<1>5. ASSUME Crash \/ UNCHANGED vars \/ \E t \in TaskIds : Age(t)
      PROVE  UNCHANGED bucket
  BY <1>5 DEF Crash, vars, Age
<1> QED
  BY <1>1, <1>2, <1>3, <1>4, <1>5 DEF Next, Step, ColumnStep

(* A column row never goes away and never changes its view.                *)
LEMMA ColumnsStay ==
  ASSUME TypeOK, [Next]_vars, NEW b \in BucketIds, bucket[b].state # "none"
  PROVE  bucket'[b].state # "none" /\ bucket'[b].view = bucket[b].view
<1>1. ASSUME NEW r \in Procs, InsertBucket(r)
      PROVE  bucket'[b] = bucket[b]
  BY <1>1 DEF InsertBucket, FreshBucket, TypeOK
<1>2. ASSUME NEW r \in Procs, WriteBucket(r)
      PROVE  bucket'[b].state = bucket[b].state /\ bucket'[b].view = bucket[b].view
  BY <1>2 DEF WriteBucket, TypeOK, BucketRow
<1>3. ASSUME NEW r \in Procs, DropBucket(r)
      PROVE  bucket'[b].state # "none" /\ bucket'[b].view = bucket[b].view
  BY <1>3 DEF DropBucket, TypeOK, BucketRow
<1> QED
  BY <1>1, <1>2, <1>3, BucketWrittenBy

(* Whatever was a column of view v still is one.                           *)
LEMMA OwnStays ==
  ASSUME TypeOK, [Next]_vars, NEW v, NEW b \in BucketRef, OwnColumn(v, b)
  PROVE  b # NoBucket => bucket'[b].state # "none" /\ bucket'[b].view = v
BY ColumnsStay DEF OwnColumn, BucketRef, NoBucket

(* A step that writes cards is one of three actions, one that writes the   *)
(* columns a view names is WriteView.                                      *)
LEMMA CardWrittenBy ==
  ASSUME [Next]_vars
  PROVE  /\ card' # card => \E r \in Procs :
                              PlaceCard(r) \/ MovePlace(r) \/ MoveCards(r)
         /\ view' # view => \E r \in Procs : WriteView(r)
<1>1. ASSUME NEW r \in Procs, Begin(r) \/ CronStart(r)
      PROVE  UNCHANGED <<card, view>>
  BY <1>1 DEF Begin, ReadMaxIndex, BeginUpdate, BeginDeleteTask, BeginMove,
     BeginBulk, ReadMaxPosition, BeginUpdateBucket, BeginDeleteBucket,
     BeginEditView, CronStart
<1>2. ASSUME NEW r \in Procs, TaskStep(r)
      PROVE  UNCHANGED view /\ (PlaceCard(r) \/ UNCHANGED card)
  BY <1>2 DEF TaskStep, InsertConflict, InsertTask, AddTaskToViews,
     SyncDoneBucket, PickFallback, WriteUpdate, WriteDeleteTask, WriteBulk,
     RollRead, RollWrite, CronNext, PlaceCard
<1>3. ASSUME NEW r \in Procs, MoveStep(r)
      PROVE  UNCHANGED view /\ (MovePlace(r) \/ UNCHANGED card)
  BY <1>3 DEF MoveStep, MoveFindBucket, MoveRejected, MoveAllowed, MovePlace,
     MoveReadView, MoveSetDone
<1>4. ASSUME NEW r \in Procs, ColumnStep(r)
      PROVE  (WriteView(r) \/ UNCHANGED view) /\ (MoveCards(r) \/ UNCHANGED card)
  BY <1>4 DEF ColumnStep, InsertBucket, WriteBucket, ReadRemaining, MoveCards,
     DropBucket, WriteView
<1>5. ASSUME Crash \/ UNCHANGED vars \/ \E t \in TaskIds : Age(t)
      PROVE  UNCHANGED <<card, view>>
  BY <1>5 DEF Crash, vars, Age
<1> QED
  BY <1>1, <1>2, <1>3, <1>4, <1>5 DEF Next, Step

(* A step puts into a request only references to columns of its view.      *)
LEMMA OwnRequestStep ==
  ASSUME TypeOK, SeparateInv, [Next]_vars, NEW s \in Procs
  PROVE  OwnRequest(req'[s])
<1>f. \A q : Goto(s, q) => req'[s] = q
  BY DEF TypeOK, Goto
<1>q. req[s] \in RequestState /\ OwnRequest(req[s])
  BY DEF TypeOK, SeparateInv
<1>c. \A v \in Views : \A b \in Columns(v) : OwnColumn(v, b)
  BY DEF Columns, LiveBucket, OwnColumn
<1>1. CASE req'[s] = req[s]
  BY <1>1, <1>q
<1>2. ASSUME AddTaskToViews(s) \/ SyncDoneBucket(s)
      PROVE  \A v \in DOMAIN req'[s].plan : OwnColumn(v, req'[s].plan[v])
  <2>1. PICK p : /\ req'[s] = [req[s] EXCEPT !.pc = "place", !.plan = p]
                 /\ DOMAIN p = Views
                 /\ \A v \in Views : p[v] \in {view[v].default, view[v].done}
    <3>1. CASE AddTaskToViews(s)
      <4> DEFINE p == [v \in Views |-> view[v].default]
      <4>1. req'[s] = [req[s] EXCEPT !.pc = "place", !.plan = p]
        BY <3>1, <1>f DEF AddTaskToViews
      <4>2. /\ DOMAIN p = Views
            /\ \A v \in Views : p[v] \in {view[v].default, view[v].done}
        OBVIOUS
      <4> HIDE DEF p
      <4> QED
        BY <4>1, <4>2
    <3>2. CASE SyncDoneBucket(s)
      <4> DEFINE p == [v \in Views |-> IF req[s].done = "set" THEN view[v].done
                                       ELSE view[v].default]
      <4>1. req'[s] = [req[s] EXCEPT !.pc = "place", !.plan = p]
        BY <3>2, <1>f DEF SyncDoneBucket
      <4>2. /\ DOMAIN p = Views
            /\ \A v \in Views : p[v] \in {view[v].default, view[v].done}
        OBVIOUS
      <4> HIDE DEF p
      <4> QED
        BY <4>1, <4>2
    <3> QED
      BY <1>2, <3>1, <3>2
  <2>2. req'[s].plan = p
    BY <2>1, <1>q DEF RequestState
  <2> QED
    BY <2>1, <2>2 DEF SeparateInv, BoardsSeparate
<1>3. ASSUME PickFallback(s) \/ PlaceCard(s), req'[s].pc = "place"
      PROVE  \A v \in DOMAIN req'[s].plan : OwnColumn(v, req'[s].plan[v])
  <2>1. \A v \in DOMAIN req[s].plan : OwnColumn(v, req[s].plan[v])
    BY <1>3, <1>q DEF OwnRequest, PickFallback, PlaceCard, NextView, At
  <2>2. PICK v \in Views :
          /\ v \in DOMAIN req[s].plan
          /\ \/ \E b \in Columns(v) : req'[s] = [req[s] EXCEPT !.plan[v] = b]
             \/ req'[s] = Placed(req[s], v)
    BY <1>3, <1>f
       DEF PickFallback, PlaceCard, NextView, Leftmost, Rightmost
  <2>3. ASSUME NEW b \in Columns(v), req'[s] = [req[s] EXCEPT !.plan[v] = b]
        PROVE  \A w \in DOMAIN req'[s].plan : OwnColumn(w, req'[s].plan[w])
    <3>1. req'[s].plan = [req[s].plan EXCEPT ![v] = b]
      BY <2>3, <1>q DEF RequestState
    <3> QED
      BY <3>1, <2>1, <2>2, <1>c
  <2>4. ASSUME req'[s] = Placed(req[s], v)
        PROVE  \A w \in DOMAIN req'[s].plan : OwnColumn(w, req'[s].plan[w])
    <3> DEFINE rest == [w \in DOMAIN req[s].plan \ {v} |-> req[s].plan[w]]
    <3>1. \/ req'[s] = [req[s] EXCEPT !.plan = rest]
          \/ req'[s] = [req[s] EXCEPT !.plan = rest, !.pc = "roll_read"]
          \/ req'[s] = Idle
      BY <2>4 DEF Placed
    <3>2. \A w \in DOMAIN rest : OwnColumn(w, rest[w])
      BY <2>1
    <3> HIDE DEF rest
    <3>3. req'[s].plan = rest \/ req'[s] = Idle
      BY <3>1, <1>q DEF RequestState
    <3> QED
      BY <3>2, <3>3 DEF Idle
  <2> QED
    BY <2>2, <2>3, <2>4
<1>4. ASSUME MoveFindBucket(s) \/ MoveAllowed(s),
             req'[s].pc \in {"move_count", "move_place"}
      PROVE  OwnColumn(req'[s].view, req'[s].bucket)
  <2>1. CASE MoveAllowed(s)
    <3>1. req'[s] = [req[s] EXCEPT !.pc = "move_place"] /\ req[s].pc = "move_count"
      BY <2>1, <1>f DEF MoveAllowed, At
    <3>2. req'[s].view = req[s].view /\ req'[s].bucket = req[s].bucket
      BY <3>1, <1>q DEF RequestState
    <3> QED
      BY <3>1, <3>2, <1>q DEF OwnRequest
  <2>2. CASE MoveFindBucket(s)
    <3>1. \/ req'[s] = Idle
          \/ /\ req[s].bucket \in Columns(req[s].view)
             /\ \E k, pc : req'[s] = [req[s] EXCEPT !.num = k, !.pc = pc]
      BY <2>2, <1>f DEF MoveFindBucket, Finish
    <3>2. \/ req'[s] = Idle
          \/ /\ req[s].bucket \in Columns(req[s].view)
             /\ req'[s].view = req[s].view /\ req'[s].bucket = req[s].bucket
      BY <3>1, <1>q DEF RequestState
    <3> QED
      BY <3>2, <1>4 DEF Idle, Columns, LiveBucket, OwnColumn
  <2> QED
    BY <1>4, <2>1, <2>2
<1>5. ASSUME ReadRemaining(s), req'[s].pc = "bucket_cards"
      PROVE  OwnColumn(req'[s].view, req'[s].other)
  <2>1. PICK c \in Columns(req[s].view) :
          req'[s] = [req[s] EXCEPT !.pc = "bucket_cards", !.other = c]
    <3>1. \/ req'[s] = Idle
          \/ \E c \in Columns(req[s].view) :
               req'[s] = [req[s] EXCEPT !.pc = "bucket_cards", !.other = c]
      BY <1>5, <1>f DEF ReadRemaining, Finish, Leftmost
    <3>2. Idle.pc # "bucket_cards"
      BY DEF Idle
    <3> QED
      BY <3>1, <3>2, <1>5
  <2>2. req'[s].view = req[s].view /\ req'[s].other = c
    BY <2>1, <1>q DEF RequestState
  <2> QED
    BY <2>2 DEF Columns, LiveBucket, OwnColumn
<1>6. ASSUME BeginEditView(s)
      PROVE  OwnColumn(req'[s].view, req'[s].bucket)
  <2>1. PICK v \in Views, key \in ViewKeys, b \in BucketRef :
          /\ b # NoBucket => LiveBucket(b) /\ bucket[b].view = v
          /\ req'[s] = [Idle EXCEPT !.pc = "view_write", !.view = v, !.key = key,
                                    !.bucket = b]
    BY <1>6, <1>f DEF BeginEditView
  <2>2. req'[s].view = v /\ req'[s].bucket = b
    BY <2>1 DEF Idle
  <2> QED
    BY <2>1, <2>2 DEF LiveBucket, OwnColumn
<1> QED
  BY <1>1, <1>2, <1>3, <1>4, <1>5, <1>6, ArmedBy DEF OwnRequest

(* Every step keeps the invariant.                                         *)
LEMMA SeparateStep ==
  ASSUME TypeOK, SeparateInv, [Next]_vars
  PROVE  SeparateInv'
<1>1. TypeOK'
  BY StepType
<1>2. \A v \in Views : OwnColumn(v, view'[v].default) /\ OwnColumn(v, view'[v].done)
  <2>1. ASSUME NEW r \in Procs, WriteView(r)
        PROVE  \A v \in Views :
                 OwnColumn(v, view'[v].default) /\ OwnColumn(v, view'[v].done)
    <3>1. OwnColumn(req[r].view, req[r].bucket)
      BY <2>1 DEF SeparateInv, OwnRequest, WriteView, At
    <3> QED
      BY <3>1, <2>1 DEF SeparateInv, BoardsSeparate, WriteView, TypeOK
  <2> QED
    BY <2>1, CardWrittenBy DEF SeparateInv, BoardsSeparate
<1>3. \A v \in Views, t \in TaskIds : OwnColumn(v, card'[v][t])
  <2>1. ASSUME NEW r \in Procs, PlaceCard(r)
        PROVE  \A v \in Views, t \in TaskIds : OwnColumn(v, card'[v][t])
    <3>1. PICK v \in Views :
            /\ OwnColumn(v, req[r].plan[v])
            /\ card' = [card EXCEPT ![v][req[r].task] = req[r].plan[v]]
      BY <2>1 DEF SeparateInv, OwnRequest, PlaceCard, NextView, At
    <3> QED
      BY <3>1 DEF SeparateInv, BoardsSeparate, TypeOK
  <2>2. ASSUME NEW r \in Procs, MovePlace(r)
        PROVE  \A v \in Views, t \in TaskIds : OwnColumn(v, card'[v][t])
    <3>1. OwnColumn(req[r].view, req[r].bucket)
      BY <2>2 DEF SeparateInv, OwnRequest, MovePlace, At
    <3> QED
      BY <3>1, <2>2 DEF SeparateInv, BoardsSeparate, MovePlace, TypeOK
  <2>3. ASSUME NEW r \in Procs, MoveCards(r)
        PROVE  \A v \in Views, t \in TaskIds : OwnColumn(v, card'[v][t])
    <3>1. OwnColumn(req[r].view, req[r].other)
      BY <2>3 DEF SeparateInv, OwnRequest, MoveCards, At
    <3> QED
      BY <3>1, <2>3 DEF SeparateInv, BoardsSeparate, MoveCards, TypeOK
  <2> QED
    BY <2>1, <2>2, <2>3, CardWrittenBy DEF SeparateInv, BoardsSeparate
<1>4. \A r \in Procs : OwnRequest(req'[r])
  BY OwnRequestStep
<1>5. \A v : \A b \in BucketRef : OwnColumn(v, b) =>
        (b # NoBucket => bucket'[b].state # "none" /\ bucket'[b].view = v)
  BY OwnStays
<1>6. BoardsSeparate'
  <2>1. \A v \in Views : /\ view'[v].default \in BucketRef
                         /\ view'[v].done \in BucketRef
                         /\ \A t \in TaskIds : card'[v][t] \in BucketRef
    BY <1>1 DEF TypeOK
  <2>2. ASSUME NEW v \in Views
        PROVE  /\ OwnColumn(v, view[v].default)'
               /\ OwnColumn(v, view[v].done)'
    BY <2>1, <1>2, <1>5 DEF OwnColumn
  <2>3. ASSUME NEW v \in Views, NEW t \in TaskIds
        PROVE  OwnColumn(v, card[v][t])'
    BY <2>1, <1>3, <1>5 DEF OwnColumn
  <2> QED
    BY <2>2, <2>3 DEF BoardsSeparate
<1>7. ASSUME NEW r \in Procs
      PROVE  OwnRequest(req[r])'
  <2>1. req'[r] \in RequestState /\ OwnRequest(req'[r])
    BY <1>1, <1>4 DEF TypeOK
  <2>2. \A v \in DOMAIN req'[r].plan : req'[r].plan[v] \in BucketRef
    BY <2>1 DEF RequestState, Plans
  <2>3. req'[r].bucket \in BucketRef /\ req'[r].other \in BucketRef
    BY <2>1 DEF RequestState
  <2>4. req'[r].pc = "place" =>
          \A v \in DOMAIN req'[r].plan : OwnColumn(v, req[r].plan[v])'
    BY <2>1, <2>2, <1>5 DEF OwnRequest, OwnColumn
  <2>5. req'[r].pc \in {"move_count", "move_place", "view_write"} =>
          OwnColumn(req[r].view, req[r].bucket)'
    BY <2>1, <2>3, <1>5 DEF OwnRequest, OwnColumn
  <2>6. req'[r].pc = "bucket_cards" => OwnColumn(req[r].view, req[r].other)'
    BY <2>1, <2>3, <1>5 DEF OwnRequest, OwnColumn
  <2> QED
    BY <2>4, <2>5, <2>6 DEF OwnRequest
<1> QED
  BY <1>6, <1>7 DEF SeparateInv

LEMMA SeparateInit == Init => SeparateInv
<1> SUFFICES ASSUME Init PROVE SeparateInv
  OBVIOUS
<1>1. ASSUME NEW v \in Views
      PROVE  OwnColumn(v, view[v].default) /\ OwnColumn(v, view[v].done)
  <2>1. view[v] = [default |-> 3 * v - 2, done |-> 3 * v]
    BY DEF Init
  <2>2. ASSUME NEW b \in {3 * v - 2, 3 * v}
        PROVE  b \in BucketIds /\ b <= 3 * NumViews /\ ((b - 1) \div 3) + 1 = v
    BY BoardAssumption DEF Views, BucketIds
  <2>3. ASSUME NEW b \in {3 * v - 2, 3 * v}
        PROVE  bucket[b].state # "none" /\ bucket[b].view = v
    BY <2>2 DEF Init
  <2> QED
    BY <2>1, <2>3 DEF OwnColumn
<1>2. BoardsSeparate
  BY <1>1 DEF Init, BoardsSeparate, OwnColumn
<1>3. \A r \in Procs : OwnRequest(req[r])
  BY DEF Init, Idle, OwnRequest
<1> QED
  BY <1>2, <1>3 DEF SeparateInv

LEMMA Separate == Spec => []SeparateInv
<1>1. TypeOK /\ SeparateInv /\ [Next]_vars => SeparateInv'
  BY SeparateStep
<1> QED
  BY SeparateInit, <1>1, BoardTyped, PTL DEF Spec

(* No interleaving of card moves, done-syncs, column deletions and view    *)
(* edits lets a card or a view refer to a column of another view           *)
(* (misc.js:234, extras2.js:264).                                          *)
THEOREM BoardsStaySeparate == Spec => []BoardsSeparate
<1>1. SeparateInv => BoardsSeparate
  BY DEF SeparateInv
<1> QED
  BY Separate, <1>1, PTL

-----------------------------------------------------------------------------
(* A board keeps a column.                                                 *)

(* The columns of a view after a step: only a deletion takes one away.     *)
LEMMA ColumnsAfter ==
  ASSUME TypeOK, [Next]_vars
  PROVE  \/ \A v : Columns(v) \subseteq Columns(v)'
         \/ \E r \in Procs : /\ DropBucket(r)
                             /\ \A v : Columns(v) \ {req[r].bucket} \subseteq Columns(v)'
<1>1. ASSUME NEW r \in Procs, InsertBucket(r)
      PROVE  \A v : Columns(v) \subseteq Columns(v)'
  BY <1>1 DEF InsertBucket, FreshBucket, TypeOK, Columns, LiveBucket
<1>2. ASSUME NEW r \in Procs, WriteBucket(r)
      PROVE  \A v : Columns(v) \subseteq Columns(v)'
  BY <1>2 DEF WriteBucket, TypeOK, BucketRow, Columns, LiveBucket
<1>3. ASSUME NEW r \in Procs, DropBucket(r)
      PROVE  \A v : Columns(v) \ {req[r].bucket} \subseteq Columns(v)'
  BY <1>3 DEF DropBucket, TypeOK, BucketRow, Columns, LiveBucket
<1>4. CASE UNCHANGED bucket
  BY <1>4 DEF Columns, LiveBucket
<1> QED
  BY <1>1, <1>2, <1>3, <1>4, BucketWrittenBy

(* What the record of a column deletion holds at each of its statements.   *)
LEMMA DeletionRecord ==
  ASSUME TypeOK, NEW r \in Procs
  PROVE  /\ BeginDeleteBucket(r) => req'[r].bucket \in Columns(req'[r].view) /\ UNCHANGED bucket
         /\ ReadRemaining(r) =>
              /\ UNCHANGED bucket /\ req[r].pc = "bucket_remaining"
              /\ \/ req'[r] = Idle
                 \/ /\ req'[r].bucket = req[r].bucket /\ req'[r].view = req[r].view
                    /\ req'[r].other \in Columns(req[r].view) \ {req[r].bucket}
         /\ MoveCards(r) =>
              /\ UNCHANGED bucket /\ req[r].pc = "bucket_cards"
              /\ req'[r].bucket = req[r].bucket /\ req'[r].view = req[r].view
         /\ DropBucket(r) => req[r].pc = "bucket_delete" /\ req'[r] = Idle
<1>f. \A q : Goto(r, q) => req'[r] = q
  BY DEF TypeOK, Goto
<1>q. req[r] \in RequestState
  BY DEF TypeOK
<1>1. ASSUME BeginDeleteBucket(r)
      PROVE  req'[r].bucket \in Columns(req'[r].view) /\ UNCHANGED bucket
  <2>1. PICK v, b : /\ b \in Columns(v)
                    /\ req'[r] = [Idle EXCEPT !.pc = "bucket_remaining", !.bucket = b, !.view = v]
    BY <1>1, <1>f DEF BeginDeleteBucket
  <2>2. req'[r].bucket = b /\ req'[r].view = v
    BY <2>1 DEF Idle
  <2> QED
    BY <1>1, <2>1, <2>2 DEF BeginDeleteBucket
<1>2. ASSUME ReadRemaining(r), req'[r] # Idle
      PROVE  /\ req'[r].bucket = req[r].bucket /\ req'[r].view = req[r].view
             /\ req'[r].other \in Columns(req[r].view) \ {req[r].bucket}
  <2>1. PICK c : /\ c \in Columns(req[r].view) \ {req[r].bucket}
                 /\ req'[r] = [req[r] EXCEPT !.pc = "bucket_cards", !.other = c]
    BY <1>2, <1>f DEF ReadRemaining, Finish, Leftmost
  <2> QED
    BY <2>1, <1>q DEF RequestState
<1>3. ASSUME MoveCards(r)
      PROVE  req'[r].bucket = req[r].bucket /\ req'[r].view = req[r].view
  <2>1. req'[r] = [req[r] EXCEPT !.pc = "bucket_delete", !.other = NoBucket]
    BY <1>3, <1>f DEF MoveCards
  <2> QED
    BY <2>1, <1>q DEF RequestState
<1>4. DropBucket(r) => req[r].pc = "bucket_delete" /\ req'[r] = Idle
  BY <1>f DEF DropBucket, Finish, At
<1> QED
  BY <1>1, <1>2, <1>3, <1>4 DEF ReadRemaining, MoveCards, At

(* A deletion that has read which other columns remain.                    *)
HasRead(q) == q.pc \in {"bucket_cards", "bucket_delete"}

(* No two of them at once.                                                 *)
OneDeletion == \A r, s \in Procs : HasRead(req[r]) /\ HasRead(req[s]) => r = s

(* The invariant: while a column is deleted another one of its view is     *)
(* there.                                                                  *)
ColumnInv ==
  /\ BoardHasColumn
  /\ \A r \in Procs : LET q == req[r] IN
       /\ q.pc = "bucket_remaining" \/ HasRead(q) => q.bucket # NoBucket /\ OwnColumn(q.view, q.bucket)
       /\ HasRead(q) => Columns(q.view) \ {q.bucket} # {}

(* Every step keeps the invariant.                                         *)
LEMMA ColumnStepKeeps ==
  ASSUME TypeOK, ColumnInv, OneDeletion, [Next]_vars
  PROVE  ColumnInv'
<1>i. Idle.pc = "idle"
  BY DEF Idle
<1>q. \A r \in Procs : req[r].bucket \in BucketRef
  BY DEF TypeOK, RequestState
<1>1. ASSUME NEW r \in Procs, HasRead(req'[r])
      PROVE  (Columns(req[r].view) \ {req[r].bucket} # {})'
  <2>1. CASE req'[r] = req[r]
    <3>1. Columns(req[r].view) \ {req[r].bucket} # {}
      BY <1>1, <2>1 DEF ColumnInv
    <3>2. ASSUME NEW s \in Procs, DropBucket(s) PROVE FALSE
      <4>1. s = r
        BY <1>1, <2>1, <3>2 DEF OneDeletion, HasRead, DropBucket, At
      <4> QED
        BY <1>1, <1>i, <3>2, <4>1, DeletionRecord DEF HasRead
    <3>3. PICK c \in BucketIds : /\ c # req[r].bucket
                                 /\ bucket'[c].state = "live" /\ bucket'[c].view = req[r].view
      BY <3>1, <3>2, ColumnsAfter DEF Columns, LiveBucket
    <3> QED
      BY <2>1, <3>3 DEF Columns, LiveBucket
  <2>2. CASE req'[r] # req[r]
    <3>1. ReadRemaining(r) \/ MoveCards(r)
      BY <1>1, <2>2, ArmedBy DEF HasRead
    <3>2. /\ UNCHANGED bucket /\ req'[r].bucket = req[r].bucket /\ req'[r].view = req[r].view
          /\ Columns(req[r].view) \ {req[r].bucket} # {}
      BY <1>1, <1>i, <3>1, DeletionRecord DEF ColumnInv, HasRead
    <3> QED
      BY <3>2 DEF Columns, LiveBucket
  <2> QED
    BY <2>1, <2>2
<1>2. ASSUME NEW r \in Procs, req'[r].pc = "bucket_remaining" \/ HasRead(req'[r])
      PROVE  (req[r].bucket # NoBucket /\ OwnColumn(req[r].view, req[r].bucket))'
  <2>1. CASE req'[r] = req[r]
    <3>1. req[r].bucket # NoBucket /\ OwnColumn(req[r].view, req[r].bucket)
      BY <1>2, <2>1 DEF ColumnInv, HasRead
    <3>2. bucket'[req[r].bucket].state # "none" /\ bucket'[req[r].bucket].view = req[r].view
      BY <1>q, <3>1, OwnStays
    <3> QED
      BY <2>1, <3>1, <3>2 DEF OwnColumn, NoBucket
  <2>2. CASE req'[r] # req[r]
    <3>1. BeginDeleteBucket(r) \/ ReadRemaining(r) \/ MoveCards(r)
      BY <1>2, <2>2, ArmedBy DEF HasRead
    <3>2. CASE BeginDeleteBucket(r)
      BY <3>2, DeletionRecord DEF Columns, LiveBucket, OwnColumn, BucketIds, NoBucket
    <3>3. CASE ReadRemaining(r) \/ MoveCards(r)
      BY <1>2, <1>i, <3>3, DeletionRecord DEF ColumnInv, HasRead, OwnColumn
    <3> QED
      BY <3>1, <3>2, <3>3
  <2> QED
    BY <2>1, <2>2
<1>3. ASSUME NEW v \in Views
      PROVE  Columns(v)' # {}
  <2>1. Columns(v) # {}
    BY DEF ColumnInv, BoardHasColumn
  <2>2. ASSUME NEW r \in Procs, DropBucket(r)
        PROVE  Columns(v) \ {req[r].bucket} # {}
    <3>1. /\ OwnColumn(req[r].view, req[r].bucket) /\ req[r].bucket # NoBucket
          /\ Columns(req[r].view) \ {req[r].bucket} # {}
      BY <2>2, DeletionRecord DEF ColumnInv, HasRead
    <3>2. CASE v = req[r].view
      BY <3>1, <3>2
    <3>3. CASE v # req[r].view
      BY <2>1, <3>1, <3>3 DEF OwnColumn, Columns
    <3> QED
      BY <3>2, <3>3
  <2> QED
    BY <2>1, <2>2, ColumnsAfter
<1> QED
  BY <1>1, <1>2, <1>3 DEF ColumnInv, BoardHasColumn

LEMMA ColumnInit == Init => ColumnInv
<1> SUFFICES ASSUME Init PROVE ColumnInv
  OBVIOUS
<1>1. ASSUME NEW v \in Views PROVE 3 * v \in Columns(v)
  <2>1. 3 * v \in BucketIds /\ 3 * v <= 3 * NumViews /\ ((3 * v - 1) \div 3) + 1 = v
    BY BoardAssumption DEF Views, BucketIds
  <2> QED
    BY <2>1 DEF Init, Columns, LiveBucket
<1> QED
  BY <1>1 DEF Init, Idle, ColumnInv, BoardHasColumn, HasRead

(* As long as no two deletions of columns overlap (misc.js:192), a board   *)
(* keeps a column, whatever else runs and wherever the server dies.        *)
THEOREM ABoardKeepsAColumn == Spec /\ []OneDeletion => []BoardHasColumn
<1>1. TypeOK /\ ColumnInv /\ OneDeletion /\ [Next]_vars => ColumnInv'
  BY ColumnStepKeeps
<1>2. ColumnInv => BoardHasColumn
  BY DEF ColumnInv
<1> QED
  BY ColumnInit, <1>1, <1>2, BoardTyped, PTL DEF Spec

-----------------------------------------------------------------------------
(* No task is off a board.                                                 *)

(* While nothing crashes, a request under way goes on with the statement   *)
(* it is at.                                                               *)
LEMMA LeftBy ==
  ASSUME TypeOK, [Next]_vars, NEW s \in Procs, req'[s] # req[s], UNCHANGED crashes
  PROVE  /\ req[s].pc = "idle" => Begin(s) \/ CronStart(s)
         /\ req[s].pc # "idle" => Step(s)
         /\ req[s].pc = "add_views" => AddTaskToViews(s)
         /\ req[s].pc = "sync_views" => SyncDoneBucket(s)
         /\ req[s].pc = "place" => PickFallback(s) \/ PlaceCard(s)
         /\ req[s].pc = "move_place" => MovePlace(s)
         /\ req[s].pc = "move_view" => MoveReadView(s)
         /\ req[s].pc = "move_done" => MoveSetDone(s)
<1>1. ASSUME NEW r \in Procs, Begin(r) \/ Step(r) \/ CronStart(r), r # s
      PROVE  FALSE
  BY <1>1, OneRequestMoves DEF Goto, TypeOK
<1>2. ~Crash /\ ~UNCHANGED vars /\ ~\E t \in TaskIds : Age(t)
  BY DEF Crash, TypeOK, vars, Age
<1>3. Begin(s) \/ Step(s) \/ CronStart(s)
  BY <1>1, <1>2 DEF Next
<1>4. Begin(s) \/ CronStart(s) => req[s].pc = "idle"
  BY DEF Begin, ReadMaxIndex, BeginUpdate, BeginDeleteTask, BeginMove,
     BeginBulk, ReadMaxPosition, BeginUpdateBucket, BeginDeleteBucket,
     BeginEditView, CronStart, Serves, At
<1>5. ASSUME TaskStep(s)
      PROVE  \/ AddTaskToViews(s) \/ SyncDoneBucket(s) \/ PickFallback(s) \/ PlaceCard(s)
             \/ req[s].pc \in {"create_insert", "update_write", "delete_write",
                               "bulk_write", "roll_read", "roll_write", "cron_next"}
  BY <1>5 DEF TaskStep, InsertConflict, InsertTask, WriteUpdate,
     WriteDeleteTask, WriteBulk, RollRead, RollWrite, CronNext, At
<1>6. ASSUME MoveStep(s)
      PROVE  \/ MovePlace(s) \/ MoveReadView(s) \/ MoveSetDone(s)
             \/ req[s].pc \in {"move_bucket", "move_count"}
  BY <1>6 DEF MoveStep, MoveFindBucket, MoveRejected, MoveAllowed, At
<1>7. ASSUME ColumnStep(s)
      PROVE  req[s].pc \in {"bucket_insert", "bucket_write", "bucket_remaining",
                            "bucket_cards", "bucket_delete", "view_write"}
  BY <1>7 DEF ColumnStep, InsertBucket, WriteBucket, ReadRemaining, MoveCards,
     DropBucket, WriteView, At
<1>8. /\ AddTaskToViews(s) => req[s].pc = "add_views"
      /\ SyncDoneBucket(s) => req[s].pc = "sync_views"
      /\ PickFallback(s) \/ PlaceCard(s) => req[s].pc = "place"
      /\ MovePlace(s) => req[s].pc = "move_place"
      /\ MoveReadView(s) => req[s].pc = "move_view"
      /\ MoveSetDone(s) => req[s].pc = "move_done"
  BY DEF AddTaskToViews, SyncDoneBucket, PickFallback, PlaceCard, NextView,
     MovePlace, MoveReadView, MoveSetDone, At
<1>9. Step(s) => req[s].pc # "idle"
  BY <1>5, <1>6, <1>7, <1>8 DEF Step
<1> QED
  BY <1>3, <1>4, <1>5, <1>6, <1>7, <1>8, <1>9 DEF Step

(* Only a crash is counted.                                                *)
LEMMA CrashesCounted ==
  ASSUME [Next]_vars
  PROVE  Crash \/ UNCHANGED crashes
<1>1. ASSUME NEW r \in Procs, Begin(r) \/ CronStart(r)
      PROVE  UNCHANGED crashes
  BY <1>1 DEF Begin, ReadMaxIndex, BeginUpdate, BeginDeleteTask, BeginMove,
     BeginBulk, ReadMaxPosition, BeginUpdateBucket, BeginDeleteBucket,
     BeginEditView, CronStart
<1>2. ASSUME NEW r \in Procs, TaskStep(r)
      PROVE  UNCHANGED crashes
  BY <1>2 DEF TaskStep, InsertConflict, InsertTask, AddTaskToViews,
     SyncDoneBucket, PickFallback, PlaceCard, WriteUpdate, WriteDeleteTask,
     WriteBulk, RollRead, RollWrite, CronNext
<1>3. ASSUME NEW r \in Procs, MoveStep(r)
      PROVE  UNCHANGED crashes
  BY <1>3 DEF MoveStep, MoveFindBucket, MoveRejected, MoveAllowed, MovePlace,
     MoveReadView, MoveSetDone
<1>4. ASSUME NEW r \in Procs, ColumnStep(r)
      PROVE  UNCHANGED crashes
  BY <1>4 DEF ColumnStep, InsertBucket, WriteBucket, ReadRemaining, MoveCards,
     DropBucket, WriteView
<1>5. ASSUME UNCHANGED vars \/ \E t \in TaskIds : Age(t)
      PROVE  UNCHANGED crashes
  BY <1>5 DEF vars, Age
<1> QED
  BY <1>1, <1>2, <1>3, <1>4, <1>5 DEF Next, Step

(* Only the insert of a task stores a row that was not there.              *)
LEMMA StoredBy ==
  ASSUME TypeOK, NumberInv, [Next]_vars, NEW t \in TaskIds, ~Stored(t), Stored(t)'
  PROVE  \E r \in Procs : req'[r] = [req[r] EXCEPT !.pc = "add_views", !.task = t]
<1>1. PICK r \in Procs : InsertTask(r)
  BY NumbersKept
<1>2. PICK u \in TaskIds :
        /\ task' = [task EXCEPT ![u] =
             [NoTask EXCEPT !.state = "live", !.index = req[r].num]]
        /\ Goto(r, [req[r] EXCEPT !.pc = "add_views", !.task = u])
  BY <1>1 DEF InsertTask
<1>3. u = t
  BY <1>2 DEF Stored, TypeOK
<1> QED
  BY <1>2, <1>3 DEF Goto, TypeOK

(* What the loop over the views leaves to do: it settles the view at hand, *)
(* or picks a column for it and stays.                                     *)
LEMMA LoopRecord ==
  ASSUME TypeOK, NEW r \in Procs, PickFallback(r) \/ PlaceCard(r)
  PROVE  \E v \in Views :
           /\ v \in DOMAIN req[r].plan /\ req[r].pc = "place"
           /\ \/ /\ PickFallback(r) /\ UNCHANGED card /\ req[r].plan[v] = NoBucket
                 /\ \/ \E b \in Columns(v) : req'[r] = [req[r] EXCEPT !.plan[v] = b]
                    \/ Columns(v) = {} /\ req'[r] = Placed(req[r], v)
              \/ /\ PlaceCard(r) /\ req[r].plan[v] # NoBucket
                 /\ card' = [card EXCEPT ![v][req[r].task] = req[r].plan[v]]
                 /\ req'[r] = Placed(req[r], v)
<1>f. \A q : Goto(r, q) => req'[r] = q
  BY DEF TypeOK, Goto
<1>1. CASE PickFallback(r)
  BY <1>1, <1>f DEF PickFallback, NextView, At, Leftmost, Rightmost
<1>2. CASE PlaceCard(r)
  BY <1>2, <1>f DEF PlaceCard, NextView, At
<1> QED
  BY <1>1, <1>2

(* A view that was not the one at hand is still to do.                     *)
LEMMA PlacedRecord ==
  ASSUME NEW q \in RequestState, NEW v \in DOMAIN q.plan
  PROVE  \/ /\ DOMAIN q.plan = {v}
            /\ Placed(q, v).pc \in {"roll_read", "idle"}
         \/ /\ Placed(q, v).pc = q.pc /\ Placed(q, v).task = q.task
            /\ Placed(q, v).done = q.done
            /\ DOMAIN Placed(q, v).plan = DOMAIN q.plan \ {v}
            /\ \A w \in DOMAIN q.plan \ {v} : Placed(q, v).plan[w] = q.plan[w]
<1> DEFINE rest == [w \in DOMAIN q.plan \ {v} |-> q.plan[w]]
<1>1. CASE DOMAIN rest # {}
  <2>1. Placed(q, v) = [q EXCEPT !.plan = rest]
    BY <1>1 DEF Placed
  <2>2. DOMAIN rest = DOMAIN q.plan \ {v} /\ \A w \in DOMAIN rest : rest[w] = q.plan[w]
    OBVIOUS
  <2> HIDE DEF rest
  <2> QED
    BY <2>1, <2>2 DEF RequestState
<1>2. CASE DOMAIN rest = {}
  <2>1. DOMAIN q.plan = {v}
    BY <1>2
  <2>2. \/ Placed(q, v) = [[q EXCEPT !.plan = rest] EXCEPT !.pc = "roll_read"]
        \/ Placed(q, v) = Idle
    BY <1>2 DEF Placed
  <2> HIDE DEF rest
  <2>3. "pc" \in DOMAIN [q EXCEPT !.plan = rest] /\ Idle.pc = "idle"
    BY DEF RequestState, Idle
  <2>4. Placed(q, v).pc \in {"roll_read", "idle"}
    BY <2>2, <2>3
  <2> QED
    BY <2>1, <2>4
<1> QED
  BY <1>1, <1>2

(* A request that will still give task t a card in view v.                 *)
Awaited(q, v, t) ==
  q.task = t /\ (q.pc = "add_views" \/ (q.pc = "place" /\ v \in DOMAIN q.plan))

(* The invariant: a task without a card has a request about to place it,   *)
(* and no statement writes a card that is in no column.                    *)
OnBoardInv ==
  /\ \A r \in Procs : LET q == req[r] IN
       /\ q.pc = "bucket_cards" => q.other # NoBucket
       /\ q.pc \in {"move_count", "move_place"} => q.bucket # NoBucket
  /\ crashes = 0 => \A v \in Views, t \in TaskIds :
       Stored(t) /\ card[v][t] = NoBucket => \E r \in Procs : Awaited(req[r], v, t)

(* No step takes a card off the board.                                     *)
LEMMA CardStays ==
  ASSUME TypeOK, OnBoardInv, [Next]_vars, NEW v \in Views, NEW t \in TaskIds,
         card[v][t] # NoBucket
  PROVE  card'[v][t] # NoBucket
<1>1. ASSUME NEW r \in Procs, PlaceCard(r)
      PROVE  card'[v][t] # NoBucket
  <2>1. PICK w \in Views : /\ req[r].plan[w] # NoBucket
                           /\ card' = [card EXCEPT ![w][req[r].task] = req[r].plan[w]]
    BY <1>1 DEF PlaceCard
  <2> QED
    BY <2>1 DEF TypeOK
<1>2. ASSUME NEW r \in Procs, MovePlace(r)
      PROVE  card'[v][t] # NoBucket
  BY <1>2 DEF MovePlace, TypeOK, OnBoardInv, At
<1>3. ASSUME NEW r \in Procs, MoveCards(r)
      PROVE  card'[v][t] # NoBucket
  BY <1>3 DEF MoveCards, TypeOK, OnBoardInv, At
<1> QED
  BY <1>1, <1>2, <1>3, CardWrittenBy

(* The request that owes a card goes on owing it until it has written it.  *)
LEMMA CardOwed ==
  ASSUME TypeOK, OnBoardInv, BoardHasColumn, [Next]_vars, UNCHANGED crashes,
         NEW r \in Procs, NEW v \in Views, NEW t \in TaskIds,
         Awaited(req[r], v, t), card'[v][t] = NoBucket
  PROVE  Awaited(req'[r], v, t)
<1>q. req[r] \in RequestState
  BY DEF TypeOK
<1>f. \A q : Goto(r, q) => req'[r] = q
  BY DEF TypeOK, Goto
<1>1. CASE req'[r] = req[r]
  BY <1>1
<1>2. CASE req'[r] # req[r] /\ req[r].pc = "add_views"
  <2>1. AddTaskToViews(r)
    BY <1>2, LeftBy
  <2> DEFINE p == [w \in Views |-> view[w].default]
  <2>2. req'[r] = [req[r] EXCEPT !.pc = "place", !.plan = p] /\ v \in DOMAIN p
    BY <2>1, <1>f DEF AddTaskToViews
  <2> HIDE DEF p
  <2> QED
    BY <2>2, <1>q DEF Awaited, RequestState
<1>3. CASE req'[r] # req[r] /\ req[r].pc = "place"
  <2>1. PickFallback(r) \/ PlaceCard(r)
    BY <1>3, LeftBy
  <2>2. PICK w \in Views :
          /\ w \in DOMAIN req[r].plan
          /\ \/ \E b \in Columns(w) : req'[r] = [req[r] EXCEPT !.plan[w] = b]
             \/ Columns(w) = {} /\ req'[r] = Placed(req[r], w)
             \/ /\ req[r].plan[w] # NoBucket
                /\ card' = [card EXCEPT ![w][req[r].task] = req[r].plan[w]]
                /\ req'[r] = Placed(req[r], w)
    BY <2>1, LoopRecord
  <2>3. CASE \E b \in Columns(w) : req'[r] = [req[r] EXCEPT !.plan[w] = b]
    <3>1. PICK b : req'[r] = [req[r] EXCEPT !.plan[w] = b]
      BY <2>3
    <3>2. /\ req'[r].plan = [req[r].plan EXCEPT ![w] = b]
          /\ req'[r].pc = req[r].pc /\ req'[r].task = req[r].task
      BY <3>1, <1>q DEF RequestState
    <3> QED
      BY <3>2, <1>3 DEF Awaited
  <2>4. CASE /\ req[r].plan[w] # NoBucket
             /\ card' = [card EXCEPT ![w][req[r].task] = req[r].plan[w]]
             /\ req'[r] = Placed(req[r], w)
    <3>1. v # w
      BY <2>4 DEF Awaited, TypeOK
    <3>2. v \in DOMAIN req[r].plan
      BY <1>3 DEF Awaited
    <3> QED
      BY <2>2, <2>4, <3>1, <3>2, <1>q, <1>3, PlacedRecord DEF Awaited
  <2> QED
    BY <2>2, <2>3, <2>4 DEF BoardHasColumn
<1> QED
  BY <1>1, <1>2, <1>3 DEF Awaited

(* Every step keeps the invariant.                                         *)
LEMMA OnBoardStep ==
  ASSUME TypeOK, NumberInv, OnBoardInv, BoardHasColumn, [Next]_vars
  PROVE  OnBoardInv'
<1>f. ASSUME NEW r \in Procs PROVE \A q : Goto(r, q) => req'[r] = q
  BY DEF TypeOK, Goto
<1>1. ASSUME NEW r \in Procs, req'[r].pc = "bucket_cards"
      PROVE  req'[r].other # NoBucket
  <2>1. CASE req'[r] = req[r]
    BY <1>1, <2>1 DEF OnBoardInv
  <2>2. CASE req'[r] # req[r]
    BY <1>1, <2>2, ArmedBy, DeletionRecord DEF Columns, Idle, BucketIds, NoBucket
  <2> QED
    BY <2>1, <2>2
<1>2. ASSUME NEW r \in Procs, req'[r].pc \in {"move_count", "move_place"}
      PROVE  req'[r].bucket # NoBucket
  <2>q. req[r] \in RequestState
    BY DEF TypeOK
  <2>1. CASE req'[r] = req[r]
    BY <1>2, <2>1 DEF OnBoardInv
  <2>2. CASE req'[r] # req[r]
    <3>1. MoveFindBucket(r) \/ MoveAllowed(r)
      BY <1>2, <2>2, ArmedBy
    <3>2. CASE MoveAllowed(r)
      <4>1. req'[r] = [req[r] EXCEPT !.pc = "move_place"] /\ req[r].pc = "move_count"
        BY <3>2, <1>f DEF MoveAllowed, At
      <4> QED
        BY <4>1, <2>q DEF OnBoardInv, RequestState
    <3>3. CASE MoveFindBucket(r)
      <4>1. \/ req'[r] = Idle
            \/ /\ req[r].bucket \in Columns(req[r].view)
               /\ \E k, pc : req'[r] = [req[r] EXCEPT !.num = k, !.pc = pc]
        BY <3>3, <1>f DEF MoveFindBucket, Finish
      <4>2. Idle.pc = "idle"
        BY DEF Idle
      <4>3. req[r].bucket \in BucketIds /\ req'[r].bucket = req[r].bucket
        BY <4>1, <4>2, <2>q, <1>2 DEF RequestState, Columns
      <4> QED
        BY <4>3 DEF BucketIds, NoBucket
    <3> QED
      BY <3>1, <3>2, <3>3
  <2> QED
    BY <2>1, <2>2
<1>3. ASSUME crashes' = 0, NEW v \in Views, NEW t \in TaskIds,
             Stored(t)', card'[v][t] = NoBucket
      PROVE  \E r \in Procs : Awaited(req'[r], v, t)
  <2>1. crashes = 0 /\ UNCHANGED crashes
    <3>1. Crash \/ UNCHANGED crashes
      BY CrashesCounted
    <3> QED
      BY <3>1, <1>3 DEF Crash, TypeOK
  <2>2. card[v][t] = NoBucket
    BY <1>3, CardStays
  <2>3. CASE Stored(t)
    <3>1. PICK r \in Procs : Awaited(req[r], v, t)
      BY <2>1, <2>2, <2>3 DEF OnBoardInv
    <3>2. Awaited(req'[r], v, t)
      BY <2>1, <3>1, <1>3, CardOwed
    <3> QED
      BY <3>2
  <2>4. CASE ~Stored(t)
    <3>1. PICK r \in Procs : req'[r] = [req[r] EXCEPT !.pc = "add_views", !.task = t]
      BY <2>4, <1>3, StoredBy
    <3>2. req[r] \in RequestState
      BY DEF TypeOK
    <3> QED
      BY <3>1, <3>2 DEF Awaited, RequestState
  <2> QED
    BY <2>3, <2>4
<1> QED
  BY <1>1, <1>2, <1>3 DEF OnBoardInv, Stored

LEMMA NumberInit == Init => NumberInv
BY DEF Init, NumberInv, NoTask, Idle, Stored

LEMMA OnBoardInit == Init => OnBoardInv
BY DEF Init, Idle, OnBoardInv, Stored, NoTask

(* As long as no two deletions of columns overlap and the server has not   *)
(* died, every task whose create has answered has a card in every view     *)
(* (taskViews.js:9), whatever moves, done-syncs, column deletions and view *)
(* edits run in between.                                                   *)
THEOREM EveryTaskHasACard ==
  Spec /\ []OneDeletion => [](crashes = 0 => NoTaskOffBoard)
<1>1. TypeOK /\ ColumnInv /\ OneDeletion /\ [Next]_vars => ColumnInv'
  BY ColumnStepKeeps
<1>2. TypeOK /\ NumberInv /\ [Next]_vars => NumberInv'
  BY NumberStep
<1>3. TypeOK /\ NumberInv /\ OnBoardInv /\ ColumnInv /\ [Next]_vars => OnBoardInv'
  BY OnBoardStep DEF ColumnInv
<1>4. OnBoardInv => (crashes = 0 => NoTaskOffBoard)
  BY DEF OnBoardInv, NoTaskOffBoard, AllIdle, At, Awaited
<1> QED
  BY ColumnInit, NumberInit, OnBoardInit, <1>1, <1>2, <1>3, <1>4, BoardTyped,
     PTL DEF Spec

-----------------------------------------------------------------------------
(* One request at a time: what a handler promises of the statements it     *)
(* runs when no other handler's statements come between them.              *)

OneAtATime == \A r, s \in Procs : req[r].pc # "idle" /\ req[s].pc # "idle" => r = s

(* The column a done-sync wants in a view that names both.                 *)
Goal(q, v) == IF q.done = "set" THEN view[v].done ELSE view[v].default

(* The invariant, for the loop over the views: what it has read still is   *)
(* so, the views it is through with are settled, the others will be.       *)
LoopUndisturbed(q) ==
  /\ q.pc \in {"create_insert", "add_views"} => q.done = "keep"
  /\ q.pc \in {"update_write", "add_views", "sync_views", "place"} => q.task \in TaskIds
  /\ q.pc = "sync_views" => q.done # "keep"
  /\ q.pc = "place" => \A v \in DOMAIN q.plan :
       q.plan[v] \in {NoBucket, view[v].default, view[v].done} \cup Columns(v)
  /\ q.pc \in {"sync_views", "place"} /\ q.done # "keep" =>
       (task[q.task].done <=> q.done = "set")
  /\ q.pc = "place" /\ q.done # "keep" => \A v \in Views : Sided(v) =>
       IF v \in DOMAIN q.plan THEN q.plan[v] = Goal(q, v)
       ELSE card[v][q.task] = view[v].done <=> q.done = "set"

(* For a card that is dropped: the column is there, the count that was     *)
(* compared with the limit still is the count.                             *)
DropUndisturbed(q) ==
  /\ q.pc \in {"move_bucket", "move_count", "move_place"} \cup Settling =>
       q.view \in Views /\ q.task \in TaskIds
  /\ q.pc \in {"move_count", "move_place"} => q.bucket \in Columns(q.view)
  /\ q.pc = "move_count" => q.num = bucket[q.bucket].limit
  /\ q.pc = "move_place" /\ bucket[q.bucket].limit > 0 =>
       OthersIn(q.view, q.bucket, q.task) < bucket[q.bucket].limit
  /\ q.pc \in Settling => card[q.view][q.task] = q.bucket
  /\ q.pc = "move_done" =>
       q.done # "keep" /\ (q.done = "set" <=> view[q.view].done = q.bucket)

(* For a column that is deleted: the cards go to a column that is there,   *)
(* and none is left.                                                       *)
DeletionUndisturbed(q) ==
  /\ q.pc = "bucket_remaining" \/ HasRead(q) =>
       q.view \in Views /\ q.bucket \in BucketIds /\ bucket[q.bucket].view = q.view
  /\ q.pc = "bucket_cards" => q.other \in Columns(q.view) \ {q.bucket}
  /\ q.pc = "bucket_delete" => \A t \in TaskIds : card[q.view][t] # q.bucket

Undisturbed(q) == LoopUndisturbed(q) /\ DropUndisturbed(q) /\ DeletionUndisturbed(q)

QuietInv == \A r \in Procs : Undisturbed(req[r])

(* The statements the invariant speaks of.                                 *)
Watched == {"create_insert", "update_write", "add_views", "sync_views", "place",
            "move_bucket", "move_count", "move_place", "move_view", "move_done",
            "bucket_remaining", "bucket_cards", "bucket_delete"}

(* Wherever one of these statements is next and stays next, the board is   *)
(* as it was: only a task's done_at may have grown old.                    *)
LEMMA QuietFrame ==
  ASSUME TypeOK, QuietInv, OneAtATime, [Next]_vars, NEW r \in Procs,
         req[r].pc \in Watched, req'[r] = req[r]
  PROVE  /\ UNCHANGED <<bucket, view, card>>
         /\ \A t \in TaskIds : /\ task'[t].done = task[t].done
                               /\ task'[t].state = task[t].state
<1>o. \A s \in Procs : req[s].pc # "idle" => s = r
  BY DEF OneAtATime, Watched
<1>i. Idle.pc = "idle"
  BY DEF Idle
<1>f. \A q : Goto(r, q) => q = req[r]
  BY DEF Goto, TypeOK
<1>q. req[r] \in RequestState
  BY DEF TypeOK
<1>1. ASSUME NEW s \in Procs, InsertBucket(s) \/ WriteBucket(s) \/ DropBucket(s)
      PROVE  FALSE
  <2>1. s = r
    BY <1>1, <1>o DEF InsertBucket, WriteBucket, DropBucket, At
  <2> QED
    BY <1>1, <1>f, <1>i, <2>1 DEF InsertBucket, WriteBucket, DropBucket, At,
       Finish, Watched
<1>2. ASSUME NEW s \in Procs, WriteView(s)
      PROVE  FALSE
  BY <1>2, <1>o DEF WriteView, At, Watched
<1>3. ASSUME NEW s \in Procs, MovePlace(s) \/ MoveCards(s)
      PROVE  FALSE
  <2>1. s = r
    BY <1>3, <1>o DEF MovePlace, MoveCards, At
  <2>2. CASE MovePlace(r)
    <3>1. req[r].pc = "move_place" /\ req[r] = [req[r] EXCEPT !.pc = "move_view", !.num = 0]
      BY <2>2, <1>f DEF MovePlace, At
    <3> QED
      BY <3>1, <1>q DEF RequestState
  <2>3. CASE MoveCards(r)
    <3>1. req[r].pc = "bucket_cards" /\ req[r] = [req[r] EXCEPT !.pc = "bucket_delete", !.other = NoBucket]
      BY <2>3, <1>f DEF MoveCards, At
    <3> QED
      BY <3>1, <1>q DEF RequestState
  <2> QED
    BY <1>3, <2>1, <2>2, <2>3
<1>4. ASSUME NEW s \in Procs, PlaceCard(s)
      PROVE  FALSE
  <2>1. s = r
    BY <1>4, <1>o DEF PlaceCard, NextView, At
  <2>2. PICK v \in DOMAIN req[r].plan : req[r].pc = "place" /\ req[r] = Placed(req[r], v)
    BY <1>4, <1>f, <2>1 DEF PlaceCard, NextView, At
  <2> QED
    BY <2>2, <1>q, PlacedRecord
<1>5. ASSUME NEW s \in Procs, \/ InsertTask(s) \/ WriteUpdate(s) \/ WriteDeleteTask(s)
                              \/ WriteBulk(s) \/ RollWrite(s) \/ MoveSetDone(s)
      PROVE  FALSE
  <2>1. s = r
    BY <1>5, <1>o DEF InsertTask, WriteUpdate, WriteDeleteTask, WriteBulk,
       RollWrite, MoveSetDone, At
  <2>2. CASE WriteDeleteTask(r) \/ WriteBulk(r) \/ RollWrite(r)
    BY <2>2 DEF WriteDeleteTask, WriteBulk, RollWrite, At, Watched
  <2>3. CASE InsertTask(r)
    <3>1. PICK t : req[r].pc = "create_insert" /\ req[r] = [req[r] EXCEPT !.pc = "add_views", !.task = t]
      BY <2>3, <1>f DEF InsertTask, At
    <3> QED
      BY <3>1, <1>q DEF RequestState
  <2>4. CASE WriteUpdate(r)
    <3>1. /\ req[r].pc = "update_write"
          /\ \/ req[r] = Idle
             \/ req[r] = [req[r] EXCEPT !.pc = "sync_views", !.repeats = "keep"]
      BY <2>4, <1>f DEF WriteUpdate, At, Finish
    <3> QED
      BY <3>1, <1>q, <1>i DEF RequestState
  <2>5. CASE MoveSetDone(r)
    <3>1. /\ req[r].pc = "move_done"
          /\ req[r] = Idle \/ req[r] = [req[r] EXCEPT !.pc = "roll_read"]
      BY <2>5, <1>f DEF MoveSetDone, At, Finish
    <3> QED
      BY <3>1, <1>q, <1>i DEF RequestState
  <2> QED
    BY <1>5, <2>1, <2>2, <2>3, <2>4, <2>5
<1>6. ASSUME NEW u \in TaskIds, Age(u)
      PROVE  \A t \in TaskIds : /\ task'[t].done = task[t].done
                                /\ task'[t].state = task[t].state
  BY <1>6 DEF Age, TypeOK, TaskRow
<1>7. UNCHANGED <<bucket, view, card>>
  BY <1>1, <1>2, <1>3, <1>4, BucketWrittenBy, CardWrittenBy
<1>8. CASE task' = task
  BY <1>7, <1>8
<1>9. CASE task' # task
  BY <1>5, <1>6, <1>7, <1>9, TaskWrittenBy
<1> QED
  BY <1>8, <1>9

(* A count of cards is a number.                                           *)
LEMMA OthersType ==
  ASSUME NEW v, NEW b, NEW t
  PROVE  OthersIn(v, b, t) \in Nat
<1>1. IsFiniteSet(TaskIds)
  BY BoardAssumption, FS_Interval DEF TaskIds
<1>2. IsFiniteSet({u \in TaskIds \ {t} : card[v][u] = b /\ LiveTask(u)})
  BY <1>1, FS_Subset
<1> QED
  BY <1>2, FS_CardinalityType DEF OthersIn

(* Staying at a statement keeps what the invariant says there.             *)
LEMMA UndisturbedStays ==
  ASSUME TypeOK, QuietInv, OneAtATime, [Next]_vars, NEW r \in Procs, req'[r] = req[r]
  PROVE  Undisturbed(req[r])'
<1>u. Undisturbed(req[r])
  BY DEF QuietInv
<1>1. CASE req[r].pc \notin Watched
  BY <1>1 DEF Undisturbed, LoopUndisturbed, DropUndisturbed,
     DeletionUndisturbed, HasRead, Settling, Watched
<1>2. CASE req[r].pc \in Watched
  <2>1. /\ UNCHANGED <<bucket, view, card>>
        /\ \A t \in TaskIds : /\ task'[t].done = task[t].done
                              /\ task'[t].state = task[t].state
    BY <1>2, QuietFrame
  <2>2. LoopUndisturbed(req[r])'
    BY <1>u, <2>1 DEF Undisturbed, LoopUndisturbed, Sided, Goal, Columns, LiveBucket
  <2>3. DropUndisturbed(req[r])'
    BY <1>u, <2>1 DEF Undisturbed, DropUndisturbed, Columns, LiveBucket,
       OthersIn, LiveTask, Settling
  <2>4. DeletionUndisturbed(req[r])'
    BY <1>u, <2>1 DEF Undisturbed, DeletionUndisturbed, Columns, LiveBucket, HasRead
  <2> QED
    BY <2>2, <2>3, <2>4 DEF Undisturbed
<1> QED
  BY <1>1, <1>2

(* Every statement of a drop leaves for the next one what it relies on.    *)
LEMMA DropStep ==
  ASSUME TypeOK, QuietInv, [Next]_vars, NEW r \in Procs, req'[r] # req[r]
  PROVE  DropUndisturbed(req[r])'
<1>f. \A q : Goto(r, q) => req'[r] = q
  BY DEF TypeOK, Goto
<1>q. req[r] \in RequestState
  BY DEF TypeOK
<1>u. DropUndisturbed(req[r])
  BY DEF QuietInv, Undisturbed
<1>0. req'[r].pc \in {"move_bucket", "move_count", "move_place"} \cup Settling =>
        \/ BeginMove(r) \/ MoveFindBucket(r) \/ MoveAllowed(r) \/ MovePlace(r)
        \/ MoveReadView(r)
  BY ArmedBy DEF Settling
<1>1. CASE BeginMove(r)
  <2>1. PICK t \in TaskIds, v \in Views, b \in BucketIds :
          req'[r] = [Idle EXCEPT !.pc = "move_bucket", !.task = t, !.view = v, !.bucket = b]
    BY <1>1, <1>f DEF BeginMove
  <2>2. req'[r].pc = "move_bucket" /\ req'[r].task = t /\ req'[r].view = v
    BY <2>1 DEF Idle
  <2> QED
    BY <2>2 DEF DropUndisturbed, Settling
<1>2. CASE MoveFindBucket(r)
  <2> DEFINE b == req[r].bucket
  <2>1. UNCHANGED <<task, bucket, view, card>> /\ req[r].pc = "move_bucket"
    BY <1>2 DEF MoveFindBucket, At
  <2>2. CASE req'[r] = Idle
    BY <2>2 DEF DropUndisturbed, Idle, Settling
  <2>3. CASE req'[r] # Idle
    <3>1. /\ b \in Columns(req[r].view)
          /\ \/ bucket[b].limit > 0 /\ req'[r] = [req[r] EXCEPT !.num = bucket[b].limit, !.pc = "move_count"]
             \/ ~(bucket[b].limit > 0) /\ req'[r] = [req[r] EXCEPT !.num = bucket[b].limit, !.pc = "move_place"]
      BY <1>2, <1>f, <2>3 DEF MoveFindBucket, Finish
    <3>2. /\ req'[r].bucket = b /\ req'[r].view = req[r].view /\ req'[r].task = req[r].task
          /\ req'[r].num = bucket[b].limit
          /\ \/ req'[r].pc = "move_count"
             \/ ~(bucket[b].limit > 0) /\ req'[r].pc = "move_place"
      BY <3>1, <1>q DEF RequestState
    <3> QED
      BY <3>1, <3>2, <2>1, <1>u DEF DropUndisturbed, Columns, LiveBucket, Settling
  <2> QED
    BY <2>2, <2>3
<1>3. CASE MoveAllowed(r)
  <2>1. /\ UNCHANGED <<task, bucket, view, card>> /\ req[r].pc = "move_count"
        /\ req'[r] = [req[r] EXCEPT !.pc = "move_place"]
        /\ ~(OthersIn(req[r].view, req[r].bucket, req[r].task) >= req[r].num)
    BY <1>3, <1>f DEF MoveAllowed, At, AtLimit
  <2>2. OthersIn(req[r].view, req[r].bucket, req[r].task) < req[r].num
    BY <2>1, <1>q, OthersType DEF RequestState
  <2>3. /\ req'[r].bucket = req[r].bucket /\ req'[r].view = req[r].view
        /\ req'[r].task = req[r].task /\ req'[r].pc = "move_place"
    BY <2>1, <1>q DEF RequestState
  <2> QED
    BY <2>1, <2>2, <2>3, <1>u DEF DropUndisturbed, Columns, LiveBucket, Settling,
       OthersIn, LiveTask
<1>4. CASE MovePlace(r)
  <2>1. /\ req[r].pc = "move_place"
        /\ req'[r] = [req[r] EXCEPT !.pc = "move_view", !.num = 0]
        /\ card' = [card EXCEPT ![req[r].view][req[r].task] = req[r].bucket]
    BY <1>4, <1>f DEF MovePlace, At
  <2>2. /\ req'[r].bucket = req[r].bucket /\ req'[r].view = req[r].view
        /\ req'[r].task = req[r].task /\ req'[r].pc = "move_view"
    BY <2>1, <1>q DEF RequestState
  <2>3. req[r].view \in Views /\ req[r].task \in TaskIds
    BY <2>1, <1>u DEF DropUndisturbed
  <2>4. card'[req[r].view][req[r].task] = req[r].bucket
    BY <2>1, <2>3 DEF TypeOK
  <2> QED
    BY <2>2, <2>3, <2>4 DEF DropUndisturbed, Settling
<1>5. CASE MoveReadView(r)
  <2>1. UNCHANGED <<task, bucket, view, card>> /\ req[r].pc = "move_view"
    BY <1>5 DEF MoveReadView, At
  <2>2. CASE req'[r] = Idle
    BY <2>2 DEF DropUndisturbed, Idle, Settling
  <2>3. CASE req'[r] # Idle
    <3>1. PICK d : /\ req'[r] = [req[r] EXCEPT !.pc = "move_done", !.done = d]
                   /\ d = IF view[req[r].view].done = req[r].bucket THEN "set" ELSE "clear"
      BY <1>5, <1>f, <2>3 DEF MoveReadView, Finish
    <3>2. /\ req'[r].bucket = req[r].bucket /\ req'[r].view = req[r].view
          /\ req'[r].task = req[r].task /\ req'[r].pc = "move_done" /\ req'[r].done = d
      BY <3>1, <1>q DEF RequestState
    <3> QED
      BY <2>1, <3>1, <3>2, <1>u DEF DropUndisturbed, Settling
  <2> QED
    BY <2>2, <2>3
<1>6. CASE req'[r].pc \notin {"move_bucket", "move_count", "move_place"} \cup Settling
  BY <1>6 DEF DropUndisturbed, Settling
<1> QED
  BY <1>0, <1>1, <1>2, <1>3, <1>4, <1>5, <1>6

(* So does every statement of a column deletion.                           *)
LEMMA DeletionStep ==
  ASSUME TypeOK, QuietInv, [Next]_vars, NEW r \in Procs, req'[r] # req[r]
  PROVE  DeletionUndisturbed(req[r])'
<1>f. \A q : Goto(r, q) => req'[r] = q
  BY DEF TypeOK, Goto
<1>q. req[r] \in RequestState
  BY DEF TypeOK
<1>u. DeletionUndisturbed(req[r])
  BY DEF QuietInv, Undisturbed
<1>0. req'[r].pc = "bucket_remaining" \/ HasRead(req'[r]) =>
        BeginDeleteBucket(r) \/ ReadRemaining(r) \/ MoveCards(r)
  BY ArmedBy DEF HasRead
<1>1. CASE BeginDeleteBucket(r)
  <2>1. PICK v \in Views, b \in BucketIds :
          /\ b \in Columns(v)
          /\ req'[r] = [Idle EXCEPT !.pc = "bucket_remaining", !.bucket = b, !.view = v]
    BY <1>1, <1>f DEF BeginDeleteBucket, Columns
  <2>2. req'[r].pc = "bucket_remaining" /\ req'[r].bucket = b /\ req'[r].view = v
    BY <2>1 DEF Idle
  <2>3. UNCHANGED bucket
    BY <1>1 DEF BeginDeleteBucket
  <2> QED
    BY <2>1, <2>2, <2>3 DEF DeletionUndisturbed, HasRead, Columns
<1>2. CASE ReadRemaining(r)
  <2>1. UNCHANGED <<task, bucket, view, card>> /\ req[r].pc = "bucket_remaining"
    BY <1>2 DEF ReadRemaining, At
  <2>2. CASE req'[r] = Idle
    BY <2>2 DEF DeletionUndisturbed, Idle, HasRead
  <2>3. CASE req'[r] # Idle
    <3>1. PICK c : /\ c \in Columns(req[r].view) \ {req[r].bucket}
                   /\ req'[r] = [req[r] EXCEPT !.pc = "bucket_cards", !.other = c]
      BY <1>2, <1>f, <2>3 DEF ReadRemaining, Finish, Leftmost
    <3>2. /\ req'[r].bucket = req[r].bucket /\ req'[r].view = req[r].view
          /\ req'[r].pc = "bucket_cards" /\ req'[r].other = c
      BY <3>1, <1>q DEF RequestState
    <3> QED
      BY <2>1, <3>1, <3>2, <1>u DEF DeletionUndisturbed, HasRead, Columns, LiveBucket
  <2> QED
    BY <2>2, <2>3
<1>3. CASE MoveCards(r)
  <2>1. /\ UNCHANGED bucket /\ req[r].pc = "bucket_cards"
        /\ req'[r] = [req[r] EXCEPT !.pc = "bucket_delete", !.other = NoBucket]
        /\ card' = [card EXCEPT ![req[r].view] =
             [t \in TaskIds |-> IF @[t] = req[r].bucket THEN req[r].other ELSE @[t]]]
    BY <1>3, <1>f DEF MoveCards, At
  <2>2. /\ req'[r].bucket = req[r].bucket /\ req'[r].view = req[r].view
        /\ req'[r].pc = "bucket_delete"
    BY <2>1, <1>q DEF RequestState
  <2>3. /\ req[r].view \in Views /\ req[r].bucket \in BucketIds
        /\ bucket[req[r].bucket].view = req[r].view /\ req[r].other # req[r].bucket
    BY <2>1, <1>u DEF DeletionUndisturbed, HasRead
  <2>4. \A t \in TaskIds : card'[req[r].view][t] # req[r].bucket
    BY <2>1, <2>3 DEF TypeOK
  <2> QED
    BY <2>1, <2>2, <2>3, <2>4 DEF DeletionUndisturbed, HasRead
<1>4. CASE ~(req'[r].pc = "bucket_remaining" \/ HasRead(req'[r]))
  BY <1>4 DEF DeletionUndisturbed, HasRead
<1> QED
  BY <1>0, <1>1, <1>2, <1>3, <1>4

(* So does every statement that leads into the loop over the views.        *)
LEMMA LoopEntered ==
  ASSUME TypeOK, QuietInv, NEW r \in Procs,
         \/ ReadMaxIndex(r) \/ BeginUpdate(r) \/ InsertTask(r) \/ WriteUpdate(r)
         \/ AddTaskToViews(r) \/ SyncDoneBucket(r)
  PROVE  LoopUndisturbed(req[r])'
<1>f. \A q : Goto(r, q) => req'[r] = q
  BY DEF TypeOK, Goto
<1>q. req[r] \in RequestState
  BY DEF TypeOK
<1>u. LoopUndisturbed(req[r])
  BY DEF QuietInv, Undisturbed
<1>1. CASE ReadMaxIndex(r)
  <2>1. PICK k : req'[r] = [Idle EXCEPT !.pc = "create_insert", !.num = k]
    BY <1>1, <1>f DEF ReadMaxIndex
  <2>2. req'[r].pc = "create_insert" /\ req'[r].done = "keep"
    BY <2>1 DEF Idle
  <2> QED
    BY <2>2 DEF LoopUndisturbed
<1>2. CASE BeginUpdate(r)
  <2>1. PICK t \in TaskIds, d \in DoneBody, k \in RepeatKinds \cup {"keep"} :
          req'[r] = [Idle EXCEPT !.pc = "update_write", !.task = t, !.done = d, !.repeats = k]
    BY <1>2, <1>f DEF BeginUpdate
  <2>2. req'[r].pc = "update_write" /\ req'[r].task = t
    BY <2>1 DEF Idle
  <2> QED
    BY <2>2 DEF LoopUndisturbed
<1>3. CASE InsertTask(r)
  <2>1. PICK t \in TaskIds : /\ req[r].pc = "create_insert"
                             /\ req'[r] = [req[r] EXCEPT !.pc = "add_views", !.task = t]
    BY <1>3, <1>f DEF InsertTask, At
  <2>2. req'[r].pc = "add_views" /\ req'[r].task = t /\ req'[r].done = req[r].done
    BY <2>1, <1>q DEF RequestState
  <2> QED
    BY <2>1, <2>2, <1>u DEF LoopUndisturbed
<1>4. CASE WriteUpdate(r)
  <2>1. CASE req'[r] = Idle
    BY <2>1 DEF Idle, LoopUndisturbed
  <2>2. CASE req'[r] # Idle
    <3>1. /\ req[r].pc = "update_write" /\ req[r].done # "keep"
          /\ req'[r] = [req[r] EXCEPT !.pc = "sync_views", !.repeats = "keep"]
          /\ task' = [task EXCEPT ![req[r].task] =
               SetRepeats(SetDone(@, req[r].done), req[r].repeats)]
      BY <1>4, <1>f, <2>2 DEF WriteUpdate, At, Finish
    <3>2. /\ req'[r].pc = "sync_views" /\ req'[r].task = req[r].task
          /\ req'[r].done = req[r].done
      BY <3>1, <1>q DEF RequestState
    <3>3. req[r].task \in TaskIds /\ req[r].done \in {"set", "clear"}
      BY <3>1, <1>u, <1>q DEF LoopUndisturbed, RequestState, DoneBody
    <3>4. \A row \in TaskRow : \A k : \A d \in {"set", "clear"} :
            SetRepeats(SetDone(row, d), k).done <=> d = "set"
      BY DEF SetRepeats, SetDone, TaskRow
    <3>5. task'[req[r].task].done <=> req[r].done = "set"
      BY <3>1, <3>3, <3>4 DEF TypeOK
    <3> QED
      BY <3>1, <3>2, <3>3, <3>5 DEF LoopUndisturbed
  <2> QED
    BY <2>1, <2>2
<1>5. CASE AddTaskToViews(r)
  <2> DEFINE p == [v \in Views |-> view[v].default]
  <2>1. /\ req[r].pc = "add_views" /\ UNCHANGED <<task, bucket, view, card>>
        /\ req'[r] = [req[r] EXCEPT !.pc = "place", !.plan = p]
    BY <1>5, <1>f DEF AddTaskToViews, At
  <2>2. DOMAIN p = Views /\ \A v \in Views : p[v] = view[v].default
    OBVIOUS
  <2> HIDE DEF p
  <2>3. /\ req'[r].pc = "place" /\ req'[r].task = req[r].task
        /\ req'[r].done = req[r].done /\ req'[r].plan = p
    BY <2>1, <1>q DEF RequestState
  <2> QED
    BY <2>1, <2>2, <2>3, <1>u DEF LoopUndisturbed
<1>6. CASE SyncDoneBucket(r)
  <2> DEFINE p == [v \in Views |-> IF req[r].done = "set" THEN view[v].done
                                   ELSE view[v].default]
  <2>1. /\ req[r].pc = "sync_views" /\ UNCHANGED <<task, bucket, view, card>>
        /\ req'[r] = [req[r] EXCEPT !.pc = "place", !.plan = p]
    BY <1>6, <1>f DEF SyncDoneBucket, At
  <2>2. DOMAIN p = Views /\ \A v \in Views : p[v] = Goal(req[r], v)
    BY DEF Goal
  <2> HIDE DEF p
  <2>3. /\ req'[r].pc = "place" /\ req'[r].task = req[r].task
        /\ req'[r].done = req[r].done /\ req'[r].plan = p
    BY <2>1, <1>q DEF RequestState
  <2> QED
    BY <2>1, <2>2, <2>3, <1>u DEF LoopUndisturbed, Goal
<1> QED
  BY <1>1, <1>2, <1>3, <1>4, <1>5, <1>6

(* In the loop a view the request is through with is settled, whatever the *)
(* request does next.                                                      *)
LEMMA ViewSettled ==
  ASSUME TypeOK, QuietInv, NEW r \in Procs, PickFallback(r) \/ PlaceCard(r),
         req[r].done # "keep", NEW v \in Views, v \in DOMAIN req[r].plan,
         req'[r] = Placed(req[r], v),
         \/ UNCHANGED card /\ req[r].plan[v] = NoBucket
         \/ card' = [card EXCEPT ![v][req[r].task] = req[r].plan[v]]
  PROVE  \A w \in Views : w \notin DOMAIN req[r].plan \ {v} /\ Sided(w) =>
           (card'[w][req[r].task] = view[w].done <=> req[r].done = "set")
<1>u. LoopUndisturbed(req[r]) /\ req[r].pc = "place"
  BY DEF QuietInv, Undisturbed, PickFallback, PlaceCard, NextView, At
<1>q. req[r].task \in TaskIds /\ req[r].done \in {"set", "clear"}
  BY <1>u DEF LoopUndisturbed, TypeOK, RequestState, DoneBody
<1>1. ASSUME NEW w \in Views, w \notin DOMAIN req[r].plan, Sided(w)
      PROVE  card'[w][req[r].task] = view[w].done <=> req[r].done = "set"
  <2>1. card'[w] = card[w]
    BY <1>1 DEF TypeOK
  <2> QED
    BY <2>1, <1>1, <1>u DEF LoopUndisturbed
<1>2. ASSUME Sided(v)
      PROVE  card'[v][req[r].task] = view[v].done <=> req[r].done = "set"
  <2>1. req[r].plan[v] = Goal(req[r], v) /\ Goal(req[r], v) # NoBucket
    BY <1>2, <1>u DEF LoopUndisturbed, Goal, Sided
  <2>2. card'[v][req[r].task] = Goal(req[r], v)
    BY <2>1, <1>q DEF TypeOK
  <2> QED
    BY <2>2, <1>q, <1>2 DEF Goal, Sided
<1> QED
  BY <1>1, <1>2

(* Every round of the loop keeps the invariant.                            *)
LEMMA LoopRound ==
  ASSUME TypeOK, QuietInv, [Next]_vars, NEW r \in Procs, PickFallback(r) \/ PlaceCard(r)
  PROVE  LoopUndisturbed(req[r])'
<1>q. req[r] \in RequestState
  BY DEF TypeOK
<1>u. LoopUndisturbed(req[r])
  BY DEF QuietInv, Undisturbed
<1>b. UNCHANGED <<task, bucket, view>>
  BY DEF PickFallback, PlaceCard
<1>1. PICK v \in Views :
        /\ v \in DOMAIN req[r].plan /\ req[r].pc = "place"
        /\ \/ /\ UNCHANGED card /\ req[r].plan[v] = NoBucket
              /\ \/ \E b \in Columns(v) : req'[r] = [req[r] EXCEPT !.plan[v] = b]
                 \/ req'[r] = Placed(req[r], v)
           \/ /\ card' = [card EXCEPT ![v][req[r].task] = req[r].plan[v]]
              /\ req'[r] = Placed(req[r], v)
  BY LoopRecord
<1>2. ASSUME UNCHANGED card, req[r].plan[v] = NoBucket, NEW b \in Columns(v),
             req'[r] = [req[r] EXCEPT !.plan[v] = b]
      PROVE  LoopUndisturbed(req[r])'
  <2>1. /\ req'[r].pc = "place" /\ req'[r].task = req[r].task
        /\ req'[r].done = req[r].done
        /\ req'[r].plan = [req[r].plan EXCEPT ![v] = b]
    BY <1>1, <1>2, <1>q DEF RequestState
  <2>2. /\ DOMAIN req'[r].plan = DOMAIN req[r].plan
        /\ req'[r].plan[v] = b
        /\ \A w \in DOMAIN req[r].plan \ {v} : req'[r].plan[w] = req[r].plan[w]
    BY <2>1, <1>1
  <2>3. req[r].done # "keep" => ~Sided(v)
    BY <1>1, <1>2, <1>u DEF LoopUndisturbed, Sided, Goal
  <2> QED
    BY <2>1, <2>2, <2>3, <1>1, <1>2, <1>b, <1>u
       DEF LoopUndisturbed, Sided, Goal, Columns, LiveBucket
<1>3. CASE req'[r] = Placed(req[r], v)
  <2>1. CASE req'[r].pc \in {"roll_read", "idle"}
    BY <2>1 DEF LoopUndisturbed
  <2>2. CASE /\ req'[r].pc = "place" /\ req'[r].task = req[r].task
             /\ req'[r].done = req[r].done
             /\ DOMAIN req'[r].plan = DOMAIN req[r].plan \ {v}
             /\ \A w \in DOMAIN req[r].plan \ {v} : req'[r].plan[w] = req[r].plan[w]
    <3>1. req[r].done # "keep" =>
            \A w \in Views : w \notin DOMAIN req[r].plan \ {v} /\ Sided(w) =>
              (card'[w][req[r].task] = view[w].done <=> req[r].done = "set")
      BY <1>1, <1>3, ViewSettled
    <3> QED
      BY <2>2, <3>1, <1>1, <1>b, <1>u
         DEF LoopUndisturbed, Sided, Goal, Columns, LiveBucket
  <2> QED
    BY <2>1, <2>2, <1>1, <1>3, <1>q, PlacedRecord
<1> QED
  BY <1>1, <1>2, <1>3

(* Every step keeps the invariant.                                         *)
LEMMA QuietStep ==
  ASSUME TypeOK, QuietInv, OneAtATime, [Next]_vars
  PROVE  QuietInv'
<1>1. ASSUME NEW r \in Procs, req'[r] # req[r]
      PROVE  LoopUndisturbed(req[r])'
  <2>1. CASE req'[r].pc \in {"create_insert", "update_write", "add_views", "sync_views", "place"}
    BY <1>1, <2>1, ArmedBy, LoopEntered, LoopRound
  <2>2. CASE req'[r].pc \notin {"create_insert", "update_write", "add_views", "sync_views", "place"}
    BY <2>2 DEF LoopUndisturbed
  <2> QED
    BY <2>1, <2>2
<1>2. ASSUME NEW r \in Procs
      PROVE  Undisturbed(req[r])'
  BY <1>1, UndisturbedStays, DropStep, DeletionStep DEF Undisturbed
<1> QED
  BY <1>2 DEF QuietInv

LEMMA QuietInit == Init => QuietInv
BY DEF Init, Idle, QuietInv, Undisturbed, LoopUndisturbed, DropUndisturbed,
   DeletionUndisturbed, Settling, HasRead

LEMMA Quiet == Spec /\ []OneAtATime => []QuietInv
<1>1. TypeOK /\ QuietInv /\ OneAtATime /\ [Next]_vars => QuietInv'
  BY QuietStep
<1> QED
  BY QuietInit, <1>1, BoardTyped, PTL DEF Spec

(* A step that takes a card from the columns of a view is the loop writing *)
(* a column the view names.                                                *)
LEMMA CardLeaves ==
  ASSUME TypeOK, SeparateInv, QuietInv, [Next]_vars, NEW v \in Views, NEW t \in TaskIds,
         Shown(v, t), ~Shown(v, t)'
  PROVE  card'[v][t] # card[v][t] /\ card'[v][t] \in {view[v].default, view[v].done}
<1>c. card'[v][t] \in BucketRef
  BY StepType DEF TypeOK
<1>1. ASSUME NEW r \in Procs, DropBucket(r)
      PROVE  FALSE
  <2>1. /\ req[r].pc = "bucket_delete" /\ UNCHANGED card
        /\ \A b \in BucketIds \ {req[r].bucket} : bucket'[b] = bucket[b]
    BY <1>1 DEF DropBucket, At, TypeOK
  <2>2. DeletionUndisturbed(req[r])
    BY DEF QuietInv, Undisturbed
  <2>3. /\ bucket[req[r].bucket].view = req[r].view
        /\ \A u \in TaskIds : card[req[r].view][u] # req[r].bucket
    BY <2>1, <2>2 DEF DeletionUndisturbed, HasRead
  <2>4. card[v][t] # req[r].bucket
    BY <2>3 DEF Shown, Columns
  <2> QED
    BY <2>1, <2>4 DEF Shown, Columns, LiveBucket
<1>2. card[v][t] \in BucketIds /\ \A u : Columns(u) \subseteq Columns(u)'
  BY <1>1, ColumnsAfter DEF Shown, Columns
<1>3. card'[v][t] \notin Columns(v)
  BY <1>2 DEF Shown, Columns, LiveBucket
<1>4. card'[v][t] # card[v][t]
  BY <1>3 DEF Shown
<1>5. ASSUME NEW r \in Procs, MovePlace(r)
      PROVE  FALSE
  <2>1. /\ req[r].bucket \in Columns(req[r].view) /\ req[r].view \in Views
        /\ card' = [card EXCEPT ![req[r].view][req[r].task] = req[r].bucket]
    BY <1>5 DEF MovePlace, At, QuietInv, Undisturbed, DropUndisturbed
  <2> QED
    BY <2>1, <1>3, <1>4 DEF TypeOK
<1>6. ASSUME NEW r \in Procs, MoveCards(r)
      PROVE  FALSE
  <2>1. /\ req[r].other \in Columns(req[r].view) /\ req[r].view \in Views
        /\ card' = [card EXCEPT ![req[r].view] =
             [u \in TaskIds |-> IF @[u] = req[r].bucket THEN req[r].other ELSE @[u]]]
    BY <1>6 DEF MoveCards, At, QuietInv, Undisturbed, DeletionUndisturbed, HasRead
  <2> QED
    BY <2>1, <1>3, <1>4 DEF TypeOK
<1>7. ASSUME NEW r \in Procs, PlaceCard(r)
      PROVE  card'[v][t] \in {view[v].default, view[v].done}
  <2>1. PICK w \in Views :
          /\ w \in DOMAIN req[r].plan /\ req[r].pc = "place"
          /\ req[r].plan[w] # NoBucket
          /\ card' = [card EXCEPT ![w][req[r].task] = req[r].plan[w]]
    BY <1>7 DEF PlaceCard, NextView, At
  <2>2. req[r].plan[w] \in {view[w].default, view[w].done} \cup Columns(w)
    BY <2>1 DEF QuietInv, Undisturbed, LoopUndisturbed
  <2> QED
    BY <2>1, <2>2, <1>3, <1>4 DEF TypeOK
<1> QED
  BY <1>4, <1>5, <1>6, <1>7, CardWrittenBy

(* While requests do not overlap, a card that is in a column of the board  *)
(* leaves for a deleted column only when its view still names that column  *)
(* (misc.js:200): deleting a column loses no card, in any number of views  *)
(* and tasks, wherever the server dies.                                    *)
THEOREM OnlyStaleColumnsTakeCards ==
  Spec /\ []OneAtATime => CardsLeaveOnlyByStaleColumn
<1> DEFINE Leave == \A v \in Views, t \in TaskIds :
             Shown(v, t) /\ ~Shown(v, t)' =>
               /\ card'[v][t] # card[v][t]
               /\ card'[v][t] \in {view[v].default, view[v].done}
<1>1. TypeOK /\ SeparateInv /\ QuietInv /\ [Next]_vars => [Leave]_vars
  BY CardLeaves
<1> QED
  BY Quiet, Separate, <1>1, BoardTyped, PTL DEF Spec, CardsLeaveOnlyByStaleColumn

(* The step that takes card t of view v to column b leaves no more cards   *)
(* there than were counted, and one.                                       *)
LEMMA OneMoreCard ==
  ASSUME TypeOK, NEW v \in Views, NEW b, NEW t \in TaskIds, NEW limit \in Nat,
         OthersIn(v, b, t) < limit,
         \A u \in TaskIds \ {t} : card'[v][u] = card[v][u]
  PROVE  Cardinality({u \in TaskIds : card'[v][u] = b /\ LiveTask(u)}) <= limit
<1> DEFINE Before == {u \in TaskIds \ {t} : card[v][u] = b /\ LiveTask(u)}
           After == {u \in TaskIds : card'[v][u] = b /\ LiveTask(u)}
<1>1. IsFiniteSet(Before)
  <2>1. IsFiniteSet(TaskIds)
    BY BoardAssumption, FS_Interval DEF TaskIds
  <2> QED
    BY <2>1, FS_Subset
<1>2. After \subseteq Before \cup {t}
  OBVIOUS
<1>3. Cardinality(Before) \in Nat /\ Cardinality(Before) < limit
  BY <1>1, FS_CardinalityType DEF OthersIn
<1> HIDE DEF Before, After
<1>4. /\ IsFiniteSet(Before \cup {t})
      /\ Cardinality(Before \cup {t}) \in {Cardinality(Before), Cardinality(Before) + 1}
  BY <1>1, FS_AddElement
<1>5. Cardinality(After) <= Cardinality(Before \cup {t}) /\ Cardinality(After) \in Nat
  <2>1. IsFiniteSet(After)
    BY <1>2, <1>4, FS_Subset
  <2> QED
    BY <2>1, <1>2, <1>4, FS_Subset, FS_CardinalityType
<1>6. Cardinality(After) <= limit
  BY <1>3, <1>4, <1>5
<1> QED
  BY <1>6 DEF After

(* While requests do not overlap, no card move takes a column over its WIP *)
(* limit (misc.js:248): the count that was compared with the limit still   *)
(* is the count when the card is written.                                  *)
THEOREM NoMoveOverTheLimit ==
  Spec /\ []OneAtATime => MovesKeepLimit
<1> DEFINE Keep == \A r \in Procs :
             req[r].pc = "move_place" /\ req'[r].pc # "move_place"
               /\ bucket[req[r].bucket].limit > 0 =>
             Cardinality({t \in TaskIds : card'[req[r].view][t] = req[r].bucket
                                          /\ LiveTask(t)}) <= bucket[req[r].bucket].limit
<1>1. ASSUME TypeOK, QuietInv, [Next]_vars, NEW r \in Procs,
             req[r].pc = "move_place", req'[r].pc # "move_place",
             bucket[req[r].bucket].limit > 0
      PROVE  Cardinality({t \in TaskIds : card'[req[r].view][t] = req[r].bucket
                                          /\ LiveTask(t)}) <= bucket[req[r].bucket].limit
  <2>1. /\ req[r].view \in Views /\ req[r].task \in TaskIds
        /\ OthersIn(req[r].view, req[r].bucket, req[r].task) < bucket[req[r].bucket].limit
        /\ bucket[req[r].bucket].limit \in Nat
    BY <1>1 DEF QuietInv, Undisturbed, DropUndisturbed, Columns, TypeOK, BucketRow
  <2>2. MovePlace(r) \/ UNCHANGED card
    <3>1. UNCHANGED crashes => MovePlace(r)
      BY <1>1, LeftBy
    <3> QED
      BY <1>1, <3>1, CrashesCounted DEF Crash
  <2>3. \A u \in TaskIds \ {req[r].task} : card'[req[r].view][u] = card[req[r].view][u]
    BY <1>1, <2>1, <2>2 DEF MovePlace, TypeOK
  <2> QED
    BY <1>1, <2>1, <2>3, OneMoreCard
<1>2. TypeOK /\ QuietInv /\ [Next]_vars => [Keep]_vars
  BY <1>1
<1> QED
  BY Quiet, <1>2, BoardTyped, PTL DEF Spec, MovesKeepLimit

(* While requests do not overlap and the server has not died, ticking a    *)
(* task off, or back on, leaves its card on the matching side of every     *)
(* board that names two distinct columns (taskViews.js:53).                *)
THEOREM EveryBoardIsSettled ==
  Spec /\ []OneAtATime /\ [](crashes = 0) => UpdateSettlesEveryBoard
<1> DEFINE Settle == \A r \in Procs :
             req[r].pc = "place" /\ req[r].done # "keep" /\ req'[r].pc # "place" =>
             \A v \in Views : Sided(v) =>
               (card'[v][req[r].task] = view[v].done <=> task[req[r].task].done)
<1>1. ASSUME TypeOK, QuietInv, UNCHANGED crashes, [Next]_vars, NEW r \in Procs,
             req[r].pc = "place", req[r].done # "keep", req'[r].pc # "place",
             NEW w \in Views, Sided(w)
      PROVE  card'[w][req[r].task] = view[w].done <=> task[req[r].task].done
  <2>q. req[r] \in RequestState
    BY <1>1 DEF TypeOK
  <2>1. PickFallback(r) \/ PlaceCard(r)
    BY <1>1, LeftBy
  <2>2. PICK v \in Views :
          /\ v \in DOMAIN req[r].plan
          /\ \/ UNCHANGED card /\ req[r].plan[v] = NoBucket
             \/ card' = [card EXCEPT ![v][req[r].task] = req[r].plan[v]]
          /\ \/ \E b : req'[r] = [req[r] EXCEPT !.plan[v] = b]
             \/ req'[r] = Placed(req[r], v)
    BY <1>1, <2>1, LoopRecord
  <2>3. req'[r] = Placed(req[r], v)
    BY <2>2, <2>q, <1>1 DEF RequestState
  <2>4. DOMAIN req[r].plan = {v}
    BY <2>2, <2>3, <2>q, <1>1, PlacedRecord
  <2>5. card'[w][req[r].task] = view[w].done <=> req[r].done = "set"
    BY <1>1, <2>1, <2>2, <2>3, <2>4, ViewSettled
  <2>6. task[req[r].task].done <=> req[r].done = "set"
    BY <1>1 DEF QuietInv, Undisturbed, LoopUndisturbed
  <2> QED
    BY <2>5, <2>6
<1>2. TypeOK /\ QuietInv /\ crashes = 0 /\ (crashes = 0)' /\ [Next]_vars => [Settle]_vars
  BY <1>1
<1> QED
  BY Quiet, <1>2, BoardTyped, PTL DEF Spec, UpdateSettlesEveryBoard

(* While requests do not overlap and the server has not died, dropping a   *)
(* card makes its task done exactly when the column it ends in is the done *)
(* column of the view (misc.js:265).                                       *)
THEOREM DropsSettleDone ==
  Spec /\ []OneAtATime /\ [](crashes = 0) => MoveSettlesDone
<1> DEFINE Settle == \A r \in Procs :
             req[r].pc \in Settling /\ req'[r].pc \notin Settling
               /\ view[req[r].view].done # NoBucket =>
             (task'[req[r].task].done <=>
                card[req[r].view][req[r].task] = view[req[r].view].done)
<1>1. ASSUME TypeOK, QuietInv, UNCHANGED crashes, [Next]_vars, NEW r \in Procs,
             req[r].pc \in Settling, req'[r].pc \notin Settling,
             view[req[r].view].done # NoBucket
      PROVE  task'[req[r].task].done <=>
               card[req[r].view][req[r].task] = view[req[r].view].done
  <2>f. \A q : Goto(r, q) => req'[r] = q
    BY <1>1 DEF TypeOK, Goto
  <2>q. req[r] \in RequestState
    BY <1>1 DEF TypeOK
  <2>1. MoveReadView(r) \/ MoveSetDone(r)
    BY <1>1, LeftBy DEF Settling
  <2>2. ~MoveReadView(r)
    <3>1. ASSUME MoveReadView(r)
          PROVE  \E d : req'[r] = [req[r] EXCEPT !.pc = "move_done", !.done = d]
      BY <1>1, <2>f, <3>1 DEF MoveReadView
    <3> QED
      BY <3>1, <2>q, <1>1 DEF RequestState, Settling
  <2>3. /\ req[r].pc = "move_done"
        /\ task' = IF task[req[r].task].done # (req[r].done = "set")
                   THEN [task EXCEPT ![req[r].task] = SetDone(@, req[r].done)] ELSE task
    BY <2>1, <2>2 DEF MoveSetDone, At
  <2>4. /\ req[r].task \in TaskIds /\ req[r].done \in {"set", "clear"}
        /\ card[req[r].view][req[r].task] = req[r].bucket
        /\ req[r].done = "set" <=> view[req[r].view].done = req[r].bucket
    BY <1>1, <2>3, <2>q DEF QuietInv, Undisturbed, DropUndisturbed, Settling,
       RequestState, DoneBody
  <2>5. task'[req[r].task].done <=> req[r].done = "set"
    <3>1. \A row \in TaskRow : \A d \in {"set", "clear"} :
            SetDone(row, d).done <=> d = "set"
      BY DEF SetDone, TaskRow
    <3>2. task[req[r].task] \in TaskRow
      BY <1>1, <2>4 DEF TypeOK
    <3>3. task[req[r].task].done \in BOOLEAN
      BY <3>2 DEF TaskRow
    <3>4. CASE task[req[r].task].done <=> req[r].done = "set"
      BY <2>3, <3>3, <3>4
    <3>5. CASE ~(task[req[r].task].done <=> req[r].done = "set")
      <4>1. task'[req[r].task] = SetDone(task[req[r].task], req[r].done)
        BY <1>1, <2>3, <2>4, <3>3, <3>5 DEF TypeOK
      <4> QED
        BY <4>1, <3>1, <3>2, <2>4
    <3> QED
      BY <3>4, <3>5
  <2> QED
    BY <2>4, <2>5
<1>2. TypeOK /\ QuietInv /\ crashes = 0 /\ (crashes = 0)' /\ [Next]_vars => [Settle]_vars
  BY <1>1
<1> QED
  BY Quiet, <1>2, BoardTyped, PTL DEF Spec, MoveSettlesDone

=============================================================================
