----------------------------- MODULE BoardProps -----------------------------
(***************************************************************************)
(* What the board promises.  Properties marked "one request at a time"     *)
(* hold when no two handlers overlap and the server does not die inside    *)
(* one; the others hold under every interleaving.                          *)
(***************************************************************************)
EXTENDS Board

(* Rows have their column types and a request remembers only ids, columns  *)
(* and views that exist.                                                   *)
TypeOK ==
  /\ task \in [TaskIds -> TaskRow]
  /\ bucket \in [BucketIds -> BucketRow]
  /\ view \in [Views -> [default: BucketRef, done: BucketRef]]
  /\ card \in [Views -> [TaskIds -> BucketRef]]
  /\ req \in [Procs -> RequestState]
  /\ crashes \in Nat

(* A reference from view v is to a column of v, present or deleted.        *)
OwnColumn(v, b) ==
  b # NoBucket => bucket[b].state # "none" /\ bucket[b].view = v

(* No interleaving of moves, done-syncs, column deletions and view edits   *)
(* puts a card into, or points a view at, a column of another board, which *)
(* extras2.js:264 says would silently break done-syncing.                  *)
BoardsSeparate ==
  \A v \in Views :
    /\ OwnColumn(v, view[v].default)
    /\ OwnColumn(v, view[v].done)
    /\ \A t \in TaskIds : OwnColumn(v, card[v][t])

(* Tasks of a project are numbered #1, #2, ... without a hole and without  *)
(* two tasks sharing a number, however many creates race for the next one; *)
(* a deleted task keeps its number.                                        *)
NumbersUnbroken ==
  /\ \A t \in TaskIds : Stored(t) =>
       /\ task[t].index \in 1 .. MaxTask
       /\ \A u \in TaskIds \ {t} : task[u].index # task[t].index
  /\ \A t \in TaskIds : Stored(t) /\ task[t].index > 1 =>
       \E u \in TaskIds : Stored(u) /\ task[u].index = task[t].index - 1

(* Without bulk edits, done and done_at always change together, whichever  *)
(* of the checkbox, the card move and the roll ran last: the repeating-    *)
(* task job finds a task left done by its done_at alone.                   *)
DoneStamped ==
  \A t \in TaskIds : task[t].done <=> task[t].doneAt # "null"

(* A repeating task that is done does not stay done: the handler rolls it, *)
(* and if the server died first the job does (cron.js:121).                *)
LeftDone(t) == LiveTask(t) /\ task[t].done /\ task[t].repeats = "dated"
RepeatingTasksRoll == \A t \in TaskIds : LeftDone(t) ~> ~LeftDone(t)

-----------------------------------------------------------------------------
(* One request at a time.                                                  *)

AllIdle == \A r \in Procs : At(r, "idle")

(* A board keeps at least one column.                                      *)
BoardHasColumn == \A v \in Views : Columns(v) # {}

(* Once its create has answered, a task has a card in every view, also in  *)
(* a view that names no default column.                                    *)
NoTaskOffBoard ==
  AllIdle => \A t \in TaskIds, v \in Views :
               Stored(t) => card[v][t] # NoBucket

(* A card that is in a column of the board leaves for a deleted column     *)
(* only when the view still names that column as its default or done one:  *)
(* deleting a column by itself loses no card.                              *)
Shown(v, t) == card[v][t] \in Columns(v)
CardsLeaveOnlyByStaleColumn ==
  [][\A v \in Views, t \in TaskIds :
       Shown(v, t) /\ ~Shown(v, t)' =>
         /\ card'[v][t] # card[v][t]
         /\ card'[v][t] \in {view[v].default, view[v].done}]_vars

(* Ticking a task off, or back on, leaves its card on the matching side of *)
(* every board whose default and done columns are set and distinct.        *)
Sided(v) ==
  /\ view[v].default # NoBucket
  /\ view[v].done # NoBucket
  /\ view[v].default # view[v].done
UpdateSettlesEveryBoard ==
  [][\A r \in Procs :
       LET q == req[r] IN
       q.pc = "place" /\ q.done # "keep" /\ req'[r].pc # "place" =>
         \A v \in Views : Sided(v) =>
           (card'[v][q.task] = view[v].done <=> task[q.task].done)]_vars

(* Dropping a card makes its task done exactly when the column it ends in  *)
(* is the done column, if the view has one; a repeating task is rolled     *)
(* only after that.                                                        *)
Settling == {"move_view", "move_done"}
MoveSettlesDone ==
  [][\A r \in Procs :
       LET q == req[r] IN
       q.pc \in Settling /\ req'[r].pc \notin Settling
         /\ view[q.view].done # NoBucket =>
         (task'[q.task].done <=> card[q.view][q.task] = view[q.view].done)]_vars

(* A card move never takes a column over its WIP limit.                    *)
MovesKeepLimit ==
  [][\A r \in Procs :
       LET q == req[r] IN
       q.pc = "move_place" /\ req'[r].pc # "move_place" /\ bucket[q.bucket].limit > 0 =>
         Cardinality({t \in TaskIds : card'[q.view][t] = q.bucket /\ LiveTask(t)}) <= bucket[q.bucket].limit]_vars

-----------------------------------------------------------------------------
(* Stated by comments of the code and not kept by it.                      *)

(* misc.js:200: "Cards move to the leftmost remaining column rather than   *)
(* vanishing with the bucket".  A live task whose card is in a deleted     *)
(* column is on no column of the board.                                    *)
CardsNeverVanish ==
  AllIdle => \A v \in Views, t \in TaskIds :
               LiveTask(t) => card[v][t] \in Columns(v)

(* taskViews.js:53: "the board is wrong if only one of them updates".      *)
BoardAgrees ==
  AllIdle => \A v \in Views, t \in TaskIds :
               LiveTask(t) => (task[t].done <=> card[v][t] = view[v].done)
=============================================================================
