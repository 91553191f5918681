------------------------------- MODULE Board -------------------------------
(***************************************************************************)
(* The kanban board of one project: its tasks, the columns ("buckets") of  *)
(* its kanban views, the card each task has in each view, and the handlers *)
(* and background job that change them (routes/tasks.js, routes/misc.js,   *)
(* routes/extras.js, routes/extras2.js, lib/taskViews.js, lib/repeat.js,   *)
(* lib/cron.js of server/src).                                             *)
(*                                                                         *)
(* Every awaited query of a handler is one autocommitted SQL statement and *)
(* one action here; between two of them any other handler or job may run.  *)
(* What a handler remembers from one statement to the next is its record   *)
(* in req.  Row ids are auto-increment numbers and are never handed out    *)
(* twice.  Callers hold write access; titles, dates, positions of cards    *)
(* within a column and reminders are left out.                             *)
(***************************************************************************)
EXTENDS Naturals, FiniteSets

CONSTANTS
  Requests,    (* slots for HTTP handlers in flight                        *)
  Jobs,        (* slots for ticks of the repeating-task job                *)
  NumViews,    (* kanban views of the project                              *)
  MaxTask,     (* bound on task rows ever inserted                         *)
  MaxBucket,   (* bound on bucket rows ever inserted                       *)
  Ops,         (* the operations clients use in this instance              *)
  Limits,      (* WIP limits clients set                                   *)
  Positions,   (* column positions clients set                             *)
  RepeatKinds, (* repeat settings clients choose                           *)
  MaxCrashes   (* bound on server restarts                                 *)

AllOps == {"create", "update", "move", "bulk", "deleteTask", "createBucket",
           "updateBucket", "deleteBucket", "editView"}

(* "undated" repeats but has no date to shift, so it is never rolled.      *)
AllRepeatKinds == {"never", "undated", "dated"}

ASSUME BoardAssumption ==
  /\ NumViews \in Nat \ {0}
  /\ MaxTask \in Nat
  /\ MaxBucket \in Nat
  /\ MaxBucket >= 3 * NumViews
  /\ Ops \subseteq AllOps
  /\ Limits \subseteq Nat
  /\ Positions \subseteq Nat
  /\ RepeatKinds \subseteq AllRepeatKinds
  /\ MaxCrashes \in Nat
  /\ Requests \cap Jobs = {}

VARIABLES
  task,    (* rows of tasks                                                *)
  bucket,  (* rows of buckets                                              *)
  view,    (* default_bucket_id and done_bucket_id of project_views        *)
  card,    (* task_buckets: per view and task the bucket id, 0 for no row  *)
  req,     (* the handlers and job ticks in flight                         *)
  crashes  (* restarts so far                                              *)

vars == <<task, bucket, view, card, req, crashes>>

Procs == Requests \cup Jobs
Views == 1 .. NumViews
TaskIds == 1 .. MaxTask
BucketIds == 1 .. MaxBucket
NoBucket == 0
BucketRef == BucketIds \cup {NoBucket}

Rows == {"none", "live", "gone"}

TaskRow == [state: Rows, index: Nat, done: BOOLEAN,
            doneAt: {"null", "recent", "old"}, repeats: AllRepeatKinds]
BucketRow == [state: Rows, view: Views \cup {0}, limit: Nat, position: Nat]

NoTask == [state |-> "none", index |-> 0, done |-> FALSE,
           doneAt |-> "null", repeats |-> "never"]
NoBucketRow == [state |-> "none", view |-> 0, limit |-> 0, position |-> 0]

Steps == {"idle", "create_insert", "add_views", "sync_views", "place",
          "update_write", "move_bucket", "move_count", "move_place",
          "move_view", "move_done", "bulk_write", "delete_write",
          "bucket_insert", "bucket_write", "bucket_remaining",
          "bucket_cards", "bucket_delete", "view_write", "roll_read",
          "roll_write", "cron_next"}

(* A missing key of a request body reads "keep".                           *)
DoneBody == {"set", "clear", "keep"}
RepeatBody == AllRepeatKinds \cup {"keep"}
(* The column of project_views or buckets an edit sets.                    *)
ViewKeys == {"default", "done"}
EditKeys == ViewKeys \cup {"limit", "position", "none"}

Plans == UNION {[V -> BucketRef] : V \in SUBSET Views}

RequestState ==
  [pc: Steps, task: TaskIds \cup {0}, done: DoneBody, repeats: RepeatBody,
   bucket: BucketRef, view: Views \cup {0}, other: BucketRef, num: Nat,
   key: EditKeys, plan: Plans, ids: SUBSET TaskIds]

Idle == [pc |-> "idle", task |-> 0, done |-> "keep", repeats |-> "keep",
         bucket |-> NoBucket, view |-> 0, other |-> NoBucket, num |-> 0,
         key |-> "none", plan |-> [v \in {} |-> NoBucket], ids |-> {}]

Stored(t) == task[t].state # "none"
LiveTask(t) == task[t].state = "live"
LiveBucket(b) == bucket[b].state = "live"
Columns(v) == {b \in BucketIds : LiveBucket(b) /\ bucket[b].view = v}

(* ORDER BY position ASC, id and ORDER BY position DESC, id, first row.    *)
Leftmost(B) ==
  {b \in B : \A c \in B : \/ bucket[b].position < bucket[c].position
                          \/ bucket[b].position = bucket[c].position /\ b <= c}
Rightmost(B) ==
  {b \in B : \A c \in B : \/ bucket[b].position > bucket[c].position
                          \/ bucket[b].position = bucket[c].position /\ b <= c}

(* The next auto-increment id of a table.                                  *)
FreshTask(t) == ~Stored(t) /\ \A u \in 1 .. (t - 1) : Stored(u)
FreshBucket(b) ==
  /\ bucket[b].state = "none"
  /\ \A c \in 1 .. (b - 1) : bucket[c].state # "none"

Goto(r, q) == req' = [req EXCEPT ![r] = q]
Finish(r) == Goto(r, Idle)
At(r, pc) == req[r].pc = pc
Serves(r, op) == r \in Requests /\ At(r, "idle") /\ op \in Ops

(***************************************************************************)
(* A fresh project: every kanban view has To-Do, Doing and Done, the first *)
(* is its default and the last its done column.                            *)
(***************************************************************************)
Init ==
  /\ task = [t \in TaskIds |-> NoTask]
  /\ bucket = [b \in BucketIds |->
       IF b <= 3 * NumViews
       THEN [state |-> "live", view |-> ((b - 1) \div 3) + 1, limit |-> 0,
             position |-> ((b - 1) % 3) + 1]
       ELSE NoBucketRow]
  /\ view = [v \in Views |-> [default |-> 3 * v - 2, done |-> 3 * v]]
  /\ card = [v \in Views |-> [t \in TaskIds |-> NoBucket]]
  /\ req = [r \in Procs |-> Idle]
  /\ crashes = 0

-----------------------------------------------------------------------------
(* PUT /projects/:project/tasks.  MAX(index) counts deleted rows too.      *)

Numbers == {task[t].index : t \in {u \in TaskIds : Stored(u)}} \cup {0}

ReadMaxIndex(r) ==
  /\ Serves(r, "create")
  /\ \E t \in TaskIds : FreshTask(t)
  /\ \E m \in Numbers :
       /\ \A n \in Numbers : n <= m
       /\ Goto(r, [Idle EXCEPT !.pc = "create_insert", !.num = m + 1])
  /\ UNCHANGED <<task, bucket, view, card, crashes>>

(* The unique key tasks(project_id, index) refuses the row: the handler    *)
(* fails.                                                                  *)
InsertConflict(r) ==
  /\ At(r, "create_insert")
  /\ \E t \in TaskIds : Stored(t) /\ task[t].index = req[r].num
  /\ Finish(r)
  /\ UNCHANGED <<task, bucket, view, card, crashes>>

(* Mutant: the table has no unique key on the number.                      *)
InsertTaskWithoutKey(r) ==
  /\ At(r, "create_insert")
  /\ \E t \in TaskIds :
       /\ FreshTask(t)
       /\ task' = [task EXCEPT ![t] =
            [NoTask EXCEPT !.state = "live", !.index = req[r].num]]
       /\ Goto(r, [req[r] EXCEPT !.pc = "add_views", !.task = t])
  /\ UNCHANGED <<bucket, view, card, crashes>>

InsertTask(r) ==
  /\ At(r, "create_insert")
  /\ \A t \in TaskIds : Stored(t) => task[t].index # req[r].num
  /\ \E t \in TaskIds :
       /\ FreshTask(t)
       /\ task' = [task EXCEPT ![t] =
            [NoTask EXCEPT !.state = "live", !.index = req[r].num]]
       /\ Goto(r, [req[r] EXCEPT !.pc = "add_views", !.task = t])
  /\ UNCHANGED <<bucket, view, card, crashes>>

-----------------------------------------------------------------------------
(* lib/taskViews.js.  A new task is never done, so addTaskToViews wants    *)
(* the default column; syncDoneBucket wants the done or the default one.   *)

AddTaskToViews(r) ==
  /\ At(r, "add_views")
  /\ Goto(r, [req[r] EXCEPT !.pc = "place",
                            !.plan = [v \in Views |-> view[v].default]])
  /\ UNCHANGED <<task, bucket, view, card, crashes>>

SyncDoneBucket(r) ==
  /\ At(r, "sync_views")
  /\ Goto(r, [req[r] EXCEPT !.pc = "place",
                            !.plan = [v \in Views |->
                               IF req[r].done = "set" THEN view[v].done
                               ELSE view[v].default]])
  /\ UNCHANGED <<task, bucket, view, card, crashes>>

(* The loop goes through the views it read, in id order.                   *)
NextView(r, v) ==
  /\ At(r, "place")
  /\ v \in DOMAIN req[r].plan
  /\ \A w \in DOMAIN req[r].plan : v <= w

(* Mutant: only the first view is brought up to date.                      *)
PlacedOnce(q, v) ==
  IF q.done = "set" THEN [q EXCEPT !.plan = Idle.plan, !.pc = "roll_read"]
  ELSE Idle

(* The request once view v is dealt with: the next view, then the roll of  *)
(* a task that was set done, then the reply.                               *)
Placed(q, v) ==
  LET rest == [w \in DOMAIN q.plan \ {v} |-> q.plan[w]]
  IN  IF DOMAIN rest # {} THEN [q EXCEPT !.plan = rest]
      ELSE IF q.done = "set" THEN [q EXCEPT !.plan = rest, !.pc = "roll_read"]
      ELSE Idle

(* Mutant: a view without a default column is skipped.                     *)
SkipView(r) ==
  \E v \in Views :
    /\ NextView(r, v)
    /\ req[r].plan[v] = NoBucket
    /\ Goto(r, Placed(req[r], v))
    /\ UNCHANGED <<task, bucket, view, card, crashes>>

(* The view names no column: fall back to the first, or for done the last. *)
PickFallback(r) ==
  \E v \in Views :
    /\ NextView(r, v)
    /\ req[r].plan[v] = NoBucket
    /\ \/ \E b \in IF req[r].done = "set" THEN Rightmost(Columns(v))
                                          ELSE Leftmost(Columns(v)) :
            Goto(r, [req[r] EXCEPT !.plan[v] = b])
       \/ Columns(v) = {} /\ Goto(r, Placed(req[r], v))
    /\ UNCHANGED <<task, bucket, view, card, crashes>>

PlaceCard(r) ==
  \E v \in Views :
    /\ NextView(r, v)
    /\ req[r].plan[v] # NoBucket
    /\ card' = [card EXCEPT ![v][req[r].task] = req[r].plan[v]]
    /\ Goto(r, Placed(req[r], v))
    /\ UNCHANGED <<task, bucket, view, crashes>>

-----------------------------------------------------------------------------
(* POST /tasks/:task.                                                      *)

BeginUpdate(r) ==
  /\ Serves(r, "update")
  /\ \E t \in TaskIds, d \in DoneBody, k \in RepeatKinds \cup {"keep"} :
       /\ LiveTask(t)
       /\ d # "keep" \/ k # "keep"
       /\ Goto(r, [Idle EXCEPT !.pc = "update_write", !.task = t,
                               !.done = d, !.repeats = k])
  /\ UNCHANGED <<task, bucket, view, card, crashes>>

(* Mutant: done_at is not written.                                         *)
SetDoneOnly(row, d) ==
  IF d = "keep" THEN row ELSE [row EXCEPT !.done = (d = "set")]

SetDone(row, d) ==
  IF d = "set" THEN [row EXCEPT !.done = TRUE, !.doneAt = "recent"]
  ELSE IF d = "clear" THEN [row EXCEPT !.done = FALSE, !.doneAt = "null"]
  ELSE row

SetRepeats(row, k) == IF k = "keep" THEN row ELSE [row EXCEPT !.repeats = k]

WriteUpdate(r) ==
  /\ At(r, "update_write")
  /\ task' = [task EXCEPT ![req[r].task] =
                SetRepeats(SetDone(@, req[r].done), req[r].repeats)]
  /\ IF req[r].done = "keep" THEN Finish(r)
     ELSE Goto(r, [req[r] EXCEPT !.pc = "sync_views", !.repeats = "keep"])
  /\ UNCHANGED <<bucket, view, card, crashes>>

(* DELETE /tasks/:task: the row stays, marked deleted.                     *)
BeginDeleteTask(r) ==
  /\ Serves(r, "deleteTask")
  /\ \E t \in TaskIds :
       /\ LiveTask(t)
       /\ Goto(r, [Idle EXCEPT !.pc = "delete_write", !.task = t])
  /\ UNCHANGED <<task, bucket, view, card, crashes>>

WriteDeleteTask(r) ==
  /\ At(r, "delete_write")
  /\ task' = [task EXCEPT ![req[r].task].state = "gone"]
  /\ Finish(r)
  /\ UNCHANGED <<bucket, view, card, crashes>>

-----------------------------------------------------------------------------
(* POST .../buckets/:bucket/tasks: a card is dropped into a column.        *)

BeginMove(r) ==
  /\ Serves(r, "move")
  /\ \E t \in TaskIds, v \in Views, b \in BucketIds :
       /\ LiveTask(t)
       /\ Goto(r, [Idle EXCEPT !.pc = "move_bucket", !.task = t,
                               !.view = v, !.bucket = b])
  /\ UNCHANGED <<task, bucket, view, card, crashes>>

(* Mutant: the column is looked up by its id alone.                        *)
MoveFindAnyBucket(r) ==
  /\ At(r, "move_bucket")
  /\ Goto(r, IF LiveBucket(req[r].bucket)
             THEN [req[r] EXCEPT !.pc = "move_place"] ELSE Idle)
  /\ UNCHANGED <<task, bucket, view, card, crashes>>

MoveFindBucket(r) ==
  /\ At(r, "move_bucket")
  /\ LET b == req[r].bucket
     IN  IF b \notin Columns(req[r].view) THEN Finish(r)
         ELSE Goto(r, [req[r] EXCEPT !.num = bucket[b].limit,
                !.pc = IF bucket[b].limit > 0 THEN "move_count" ELSE "move_place"])
  /\ UNCHANGED <<task, bucket, view, card, crashes>>

(* Live cards in the column, not counting the card that is moved.          *)
OthersIn(v, b, t) ==
  Cardinality({u \in TaskIds \ {t} : card[v][u] = b /\ LiveTask(u)})

(* Mutant: off by one.                                                     *)
OverLimit(r) == OthersIn(req[r].view, req[r].bucket, req[r].task) > req[r].num

AtLimit(r) == OthersIn(req[r].view, req[r].bucket, req[r].task) >= req[r].num

MoveRejected(r) ==
  /\ At(r, "move_count")
  /\ AtLimit(r)
  /\ Finish(r)
  /\ UNCHANGED <<task, bucket, view, card, crashes>>

MoveAllowed(r) ==
  /\ At(r, "move_count")
  /\ ~AtLimit(r)
  /\ Goto(r, [req[r] EXCEPT !.pc = "move_place"])
  /\ UNCHANGED <<task, bucket, view, card, crashes>>

MovePlace(r) ==
  /\ At(r, "move_place")
  /\ card' = [card EXCEPT ![req[r].view][req[r].task] = req[r].bucket]
  /\ Goto(r, [req[r] EXCEPT !.pc = "move_view", !.num = 0])
  /\ UNCHANGED <<task, bucket, view, crashes>>

(* Mutant: dragging a card back out does not clear done.                   *)
MoveReadViewInOnly(r) ==
  /\ At(r, "move_view")
  /\ Goto(r, IF view[req[r].view].done = req[r].bucket
             THEN [req[r] EXCEPT !.pc = "move_done", !.done = "set"] ELSE Idle)
  /\ UNCHANGED <<task, bucket, view, card, crashes>>

MoveReadView(r) ==
  /\ At(r, "move_view")
  /\ LET d == view[req[r].view].done
     IN  IF d = NoBucket THEN Finish(r)
         ELSE Goto(r, [req[r] EXCEPT !.pc = "move_done",
                !.done = IF d = req[r].bucket THEN "set" ELSE "clear"])
  /\ UNCHANGED <<task, bucket, view, card, crashes>>

(* WHERE done <> ?: a task already there keeps its done_at.  The roll      *)
(* follows a drop into the done column either way.                         *)
MoveSetDone(r) ==
  /\ At(r, "move_done")
  /\ LET q == req[r]
         differs == task[q.task].done # (q.done = "set")
     IN  /\ task' = IF differs
                    THEN [task EXCEPT ![q.task] = SetDone(@, q.done)] ELSE task
         /\ IF q.done = "set"
            THEN Goto(r, [q EXCEPT !.pc = "roll_read"]) ELSE Finish(r)
  /\ UNCHANGED <<bucket, view, card, crashes>>

-----------------------------------------------------------------------------
(* POST /tasks/bulk with a done value.  Deleting is final, so the checks   *)
(* one by one admit nothing that one check of all at the start does not.   *)

BeginBulk(r) ==
  /\ Serves(r, "bulk")
  /\ \E ids \in SUBSET TaskIds \ {{}}, d \in {"set", "clear"} :
       /\ \A t \in ids : LiveTask(t)
       /\ Goto(r, [Idle EXCEPT !.pc = "bulk_write", !.ids = ids, !.done = d])
  /\ UNCHANGED <<task, bucket, view, card, crashes>>

(* Only the done column is written: done_at, the cards and the repeat      *)
(* settings are left as they are.                                          *)
WriteBulk(r) ==
  /\ At(r, "bulk_write")
  /\ task' = [t \in TaskIds |->
       IF t \in req[r].ids THEN [task[t] EXCEPT !.done = (req[r].done = "set")]
       ELSE task[t]]
  /\ Finish(r)
  /\ UNCHANGED <<bucket, view, card, crashes>>

-----------------------------------------------------------------------------
(* Columns.                                                                *)

(* The second guard keeps an id free for every insert under way: a bound   *)
(* of the model, not a check of the code.                                  *)
ReadMaxPosition(r) ==
  /\ Serves(r, "createBucket")
  /\ Cardinality({b \in BucketIds : bucket[b].state = "none"}) >
       Cardinality({s \in Requests : At(s, "bucket_insert")})
  /\ \E v \in Views :
       \E m \in {bucket[b].position : b \in Columns(v)} \cup {0} :
         /\ \A b \in Columns(v) : bucket[b].position <= m
         /\ Goto(r, [Idle EXCEPT !.pc = "bucket_insert", !.view = v,
                                 !.num = m + 1])
  /\ UNCHANGED <<task, bucket, view, card, crashes>>

InsertBucket(r) ==
  /\ At(r, "bucket_insert")
  /\ \E b \in BucketIds :
       /\ FreshBucket(b)
       /\ bucket' = [bucket EXCEPT ![b] =
            [state |-> "live", view |-> req[r].view, limit |-> 0,
             position |-> req[r].num]]
  /\ Finish(r)
  /\ UNCHANGED <<task, view, card, crashes>>

BeginUpdateBucket(r) ==
  /\ Serves(r, "updateBucket")
  /\ \E b \in BucketIds :
       /\ LiveBucket(b)
       /\ \E key \in {"limit", "position"} :
            \E n \in IF key = "limit" THEN Limits ELSE Positions :
              Goto(r, [Idle EXCEPT !.pc = "bucket_write", !.bucket = b,
                                   !.key = key, !.num = n])
  /\ UNCHANGED <<task, bucket, view, card, crashes>>

(* The UPDATE matches no row when the column has gone meanwhile.           *)
WriteBucket(r) ==
  /\ At(r, "bucket_write")
  /\ LET b == req[r].bucket
     IN  bucket' = IF ~LiveBucket(b) THEN bucket
                   ELSE IF req[r].key = "limit"
                   THEN [bucket EXCEPT ![b].limit = req[r].num]
                   ELSE [bucket EXCEPT ![b].position = req[r].num]
  /\ Finish(r)
  /\ UNCHANGED <<task, view, card, crashes>>

BeginDeleteBucket(r) ==
  /\ Serves(r, "deleteBucket")
  /\ \E v \in Views : \E b \in Columns(v) :
       Goto(r, [Idle EXCEPT !.pc = "bucket_remaining", !.bucket = b, !.view = v])
  /\ UNCHANGED <<task, bucket, view, card, crashes>>

(* Mutant: the column itself counts as remaining.                          *)
ReadColumns(r) ==
  /\ At(r, "bucket_remaining")
  /\ \E c \in Leftmost(Columns(req[r].view)) :
       Goto(r, [req[r] EXCEPT !.pc = "bucket_cards", !.other = c])
  /\ UNCHANGED <<task, bucket, view, card, crashes>>

(* The cards will go to the leftmost other column; without one the reply   *)
(* is 400.                                                                 *)
ReadRemaining(r) ==
  /\ At(r, "bucket_remaining")
  /\ LET others == Columns(req[r].view) \ {req[r].bucket}
     IN  \/ \E c \in Leftmost(others) :
              Goto(r, [req[r] EXCEPT !.pc = "bucket_cards", !.other = c])
         \/ others = {} /\ Finish(r)
  /\ UNCHANGED <<task, bucket, view, card, crashes>>

(* Mutant: the cards stay in the column that goes.                         *)
LeaveCards(r) ==
  /\ At(r, "bucket_cards")
  /\ Goto(r, [req[r] EXCEPT !.pc = "bucket_delete", !.other = NoBucket])
  /\ UNCHANGED <<task, bucket, view, card, crashes>>

MoveCards(r) ==
  /\ At(r, "bucket_cards")
  /\ LET q == req[r]
     IN  card' = [card EXCEPT ![q.view] =
           [t \in TaskIds |-> IF @[t] = q.bucket THEN q.other ELSE @[t]]]
  /\ Goto(r, [req[r] EXCEPT !.pc = "bucket_delete", !.other = NoBucket])
  /\ UNCHANGED <<task, bucket, view, crashes>>

(* The view's default and done columns are not touched.                    *)
DropBucket(r) ==
  /\ At(r, "bucket_delete")
  /\ bucket' = [bucket EXCEPT ![req[r].bucket].state = "gone"]
  /\ Finish(r)
  /\ UNCHANGED <<task, view, card, crashes>>

(* Mutant: the id sent for a column key is not looked up.                  *)
BeginEditViewUnchecked(r) ==
  /\ Serves(r, "editView")
  /\ \E v \in Views, key \in ViewKeys, b \in 0 .. (MaxBucket + 1) :
       Goto(r, [Idle EXCEPT !.pc = "view_write", !.view = v, !.key = key,
                            !.bucket = b])
  /\ UNCHANGED <<task, bucket, view, card, crashes>>

(* POST /projects/:project/views/:view with one of the two column keys.    *)
BeginEditView(r) ==
  /\ Serves(r, "editView")
  /\ \E v \in Views, key \in ViewKeys, b \in BucketRef :
       /\ b # NoBucket => LiveBucket(b) /\ bucket[b].view = v
       /\ Goto(r, [Idle EXCEPT !.pc = "view_write", !.view = v, !.key = key,
                               !.bucket = b])
  /\ UNCHANGED <<task, bucket, view, card, crashes>>

WriteView(r) ==
  /\ At(r, "view_write")
  /\ LET q == req[r]
     IN  view' = IF q.key = "done" THEN [view EXCEPT ![q.view].done = q.bucket]
                 ELSE [view EXCEPT ![q.view].default = q.bucket]
  /\ Finish(r)
  /\ UNCHANGED <<task, bucket, card, crashes>>

-----------------------------------------------------------------------------
(* lib/repeat.js: rolling a repeating task forward, with no check that it  *)
(* is done or not deleted.                                                 *)

Rolled(q) == IF q.ids = {} THEN Idle
             ELSE [Idle EXCEPT !.pc = "cron_next", !.ids = q.ids]

RollRead(r) ==
  /\ At(r, "roll_read")
  /\ Goto(r, IF task[req[r].task].repeats = "dated"
             THEN [req[r] EXCEPT !.pc = "roll_write"] ELSE Rolled(req[r]))
  /\ UNCHANGED <<task, bucket, view, card, crashes>>

RollWrite(r) ==
  /\ At(r, "roll_write")
  /\ task' = [task EXCEPT ![req[r].task] = SetDone(@, "clear")]
  /\ Goto(r, Rolled(req[r]))
  /\ UNCHANGED <<bucket, view, card, crashes>>

(* lib/cron.js: the safety net for repeating tasks left done.              *)
Overlooked ==
  {t \in TaskIds : /\ LiveTask(t)
                   /\ task[t].done
                   /\ task[t].repeats # "never"
                   /\ task[t].doneAt = "old"}

CronStart(j) ==
  /\ j \in Jobs
  /\ At(j, "idle")
  /\ Overlooked # {}
  /\ Goto(j, [Idle EXCEPT !.pc = "cron_next", !.ids = Overlooked])
  /\ UNCHANGED <<task, bucket, view, card, crashes>>

CronNext(j) ==
  /\ At(j, "cron_next")
  /\ \E t \in req[j].ids :
       /\ \A u \in req[j].ids : t <= u
       /\ Goto(j, [req[j] EXCEPT !.pc = "roll_read", !.task = t, !.ids = @ \ {t}])
  /\ UNCHANGED <<task, bucket, view, card, crashes>>

-----------------------------------------------------------------------------
(* Ten minutes pass since a done_at stamp; only the job looks at its age.  *)
Age(t) ==
  /\ Jobs # {}
  /\ task[t].doneAt = "recent"
  /\ task' = [task EXCEPT ![t].doneAt = "old"]
  /\ UNCHANGED <<bucket, view, card, req, crashes>>

(* The process dies: what was in flight is gone, what was written stays.   *)
Crash ==
  /\ crashes < MaxCrashes
  /\ \E r \in Procs : ~At(r, "idle")
  /\ req' = [r \in Procs |-> Idle]
  /\ crashes' = crashes + 1
  /\ UNCHANGED <<task, bucket, view, card>>

TaskStep(r) ==
  \/ InsertConflict(r) \/ InsertTask(r) \/ AddTaskToViews(r)
  \/ SyncDoneBucket(r) \/ PickFallback(r) \/ PlaceCard(r)
  \/ WriteUpdate(r) \/ WriteDeleteTask(r) \/ WriteBulk(r)
  \/ RollRead(r) \/ RollWrite(r) \/ CronNext(r)

MoveStep(r) ==
  \/ MoveFindBucket(r) \/ MoveRejected(r) \/ MoveAllowed(r) \/ MovePlace(r)
  \/ MoveReadView(r) \/ MoveSetDone(r)

ColumnStep(r) ==
  \/ InsertBucket(r) \/ WriteBucket(r) \/ ReadRemaining(r) \/ MoveCards(r)
  \/ DropBucket(r) \/ WriteView(r)

(* A step of a handler or job already under way.                           *)
Step(r) == TaskStep(r) \/ MoveStep(r) \/ ColumnStep(r)

(* A client sends a request.                                               *)
Begin(r) ==
  \/ ReadMaxIndex(r) \/ BeginUpdate(r) \/ BeginDeleteTask(r) \/ BeginMove(r)
  \/ BeginBulk(r) \/ ReadMaxPosition(r) \/ BeginUpdateBucket(r)
  \/ BeginDeleteBucket(r) \/ BeginEditView(r)

Next ==
  \/ \E r \in Procs : Begin(r) \/ Step(r) \/ CronStart(r)
  \/ \E t \in TaskIds : Age(t)
  \/ Crash

Spec == Init /\ [][Next]_vars

(* Node runs every handler to its end, the interval timer keeps firing and *)
(* time passes; clients need not send anything.                            *)
Fairness ==
  /\ \A r \in Procs : WF_vars(Step(r))
  /\ \A j \in Jobs : WF_vars(CronStart(j))
  /\ \A t \in TaskIds : WF_vars(Age(t))

FairSpec == Spec /\ Fairness
=============================================================================
