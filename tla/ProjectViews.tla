---------------------------- MODULE ProjectViews ----------------------------
(***************************************************************************)
(* The views of one project and the place every task has in each: creating *)
(* and deleting a view (routes/extras2.js) beside creating a task          *)
(* (routes/tasks.js), both through addTaskToViews (lib/taskViews.js).      *)
(*                                                                         *)
(* One action per awaited statement; the loops of addTaskToViews go over   *)
(* the rows they read in some order.  What happens on a board once it has  *)
(* its columns is Board's; here a card is in the default column or was     *)
(* moved elsewhere.  Tasks are not deleted.                                *)
(***************************************************************************)
EXTENDS Naturals, FiniteSets

CONSTANTS
  ViewClerks, (* slots for HTTP handlers in flight                         *)
  MaxView,    (* bound on rows ever inserted into project_views            *)
  MaxTask     (* bound on rows ever inserted into tasks                    *)

ASSUME ViewAssumption == MaxView \in Nat /\ MaxView >= 2 /\ MaxTask \in Nat

VARIABLES
  views,     (* ids in project_views                                       *)
  boards,    (* of the ids handed out, those of kind kanban                *)
  columns,   (* per board: no buckets yet, buckets, and the default set    *)
  task,      (* ids in tasks                                               *)
  position,  (* task_positions: view and task                              *)
  card,      (* task_buckets: none, in the default column, or moved        *)
  next_view, next_task,  (* ids to hand out                                *)
  view_desk, (* the handlers in flight                                     *)
  drop_met   (* history: a view's deletion has overlapped another handler  *)

viewVars == <<views, boards, columns, task, position, card, next_view, next_task, view_desk, drop_met>>
places == <<position, card>>
viewRows == <<views, boards, columns, next_view>>
taskRows == <<task, next_task>>

ViewIds == 1 .. MaxView
TaskIds == 1 .. MaxTask
Cells == ViewIds \X TaskIds

(* view, task: the row the handler makes or drops; todo: tasks still to    *)
(* give a place; plan: views still to give the task a place in; bare: of   *)
(* them, those read without a default column.                              *)
ViewFree == [op |-> "none", pc |-> "free", view |-> 0, task |-> 0, todo |-> {}, plan |-> {}, bare |-> {}]

(* A list and a board with its columns.                                    *)
ViewInit ==
  /\ views = {1, 2}
  /\ boards = {2}
  /\ columns = [v \in ViewIds |-> IF v = 2 THEN "default" ELSE "none"]
  /\ task = {}
  /\ position = {}
  /\ card = [c \in Cells |-> "none"]
  /\ next_view = 3
  /\ next_task = 1
  /\ view_desk = [c \in ViewClerks |-> ViewFree]
  /\ drop_met = FALSE

ViewAt(c, pc) == view_desk[c].pc = pc
ViewBecome(c, w) == view_desk' = [view_desk EXCEPT ![c] = w]
ViewGoto(c, pc) == ViewBecome(c, [view_desk[c] EXCEPT !.pc = pc])
ViewOthers(c) == {view_desk[o].op : o \in {x \in ViewClerks \ {c} : view_desk[x].pc # "free"}}

(* Bound: nothing more is asked for once a deletion has met another.       *)
ViewStart(c, w) ==
  /\ ViewAt(c, "free") /\ ~drop_met
  /\ ViewBecome(c, w)
  /\ drop_met' = (drop_met \/ (ViewOthers(c) # {} /\ "drop" \in ViewOthers(c) \cup {w.op}))

-----------------------------------------------------------------------------
(* addTaskToViews, for the task of the desk, then for the tasks of todo.   *)

ReadViews(c) ==
  /\ ViewAt(c, "read_views")
  /\ ViewBecome(c, [view_desk[c] EXCEPT !.pc = "position", !.plan = views,
                               !.bare = {v \in views \cap boards : columns[v] # "default"}])
  /\ UNCHANGED <<viewRows, taskRows, places, drop_met>>

NextTask(c) ==
  LET w == view_desk[c] IN
  /\ ViewAt(c, "position")
  /\ w.plan = {}
  /\ \/ w.todo = {} /\ ViewBecome(c, ViewFree)
     \/ \E t \in w.todo :
          ViewBecome(c, [w EXCEPT !.pc = "read_views", !.task = t, !.todo = @ \ {t}])
  /\ UNCHANGED <<viewRows, taskRows, places, drop_met>>

Position(c) ==
  LET w == view_desk[c] IN
  \E v \in w.plan :
    /\ ViewAt(c, "position")
    /\ position' = position \cup {<<v, w.task>>}
    /\ ViewBecome(c, [w EXCEPT !.pc = IF v \in boards THEN "card" ELSE "position",
                           !.plan = @ \ {v},
                           !.view = IF v \in boards THEN v ELSE @])
    /\ UNCHANGED <<viewRows, taskRows, card, drop_met>>

(* The default column, or for a board read without one the first bucket,   *)
(* if there is a bucket by now (two statements, of which only the second   *)
(* writes).                                                                *)
Card(c) ==
  LET w == view_desk[c] IN
  /\ ViewAt(c, "card")
  /\ card' = IF w.view \in w.bare /\ columns[w.view] = "none" THEN card
             ELSE [card EXCEPT ![<<w.view, w.task>>] = "default"]
  /\ ViewBecome(c, [w EXCEPT !.pc = "position", !.view = 0])
  /\ UNCHANGED <<viewRows, taskRows, position, drop_met>>

-----------------------------------------------------------------------------
(* PUT /projects/:project/tasks, and a card moved on a board.              *)

StartTask(c) ==
  /\ ViewStart(c, [ViewFree EXCEPT !.op = "task", !.pc = "insert_task"])
  /\ UNCHANGED <<viewRows, taskRows, places>>

InsertTask(c) ==
  /\ ViewAt(c, "insert_task")
  /\ next_task <= MaxTask
  /\ task' = task \cup {next_task}
  /\ next_task' = next_task + 1
  /\ ViewBecome(c, [view_desk[c] EXCEPT !.pc = "read_views", !.task = next_task])
  /\ UNCHANGED <<viewRows, places, drop_met>>

MoveCard ==
  \E v \in views \cap boards, t \in task :
    /\ columns[v] = "default"
    /\ card' = [card EXCEPT ![<<v, t>>] = "moved"]
    /\ drop_met' = (drop_met \/ \E c \in ViewClerks : view_desk[c].op = "drop")
    /\ UNCHANGED <<viewRows, taskRows, position, view_desk>>

-----------------------------------------------------------------------------
(* PUT /projects/:project/views                                            *)

StartView(c) ==
  /\ ViewStart(c, [ViewFree EXCEPT !.op = "view", !.pc = "insert_view"])
  /\ UNCHANGED <<viewRows, taskRows, places>>

InsertView(c) ==
  /\ ViewAt(c, "insert_view")
  /\ next_view <= MaxView
  /\ views' = views \cup {next_view}
  /\ next_view' = next_view + 1
  /\ \/ /\ boards' = boards \cup {next_view}
        /\ ViewBecome(c, [view_desk[c] EXCEPT !.pc = "buckets", !.view = next_view])
     \/ /\ ViewBecome(c, [view_desk[c] EXCEPT !.pc = "read_tasks", !.view = next_view])
        /\ UNCHANGED boards
  /\ UNCHANGED <<columns, taskRows, places, drop_met>>

(* The three buckets; whether there is one is all that matters here.       *)
InsertBuckets(c) ==
  /\ ViewAt(c, "buckets")
  /\ columns' = [columns EXCEPT ![view_desk[c].view] = "buckets"]
  /\ ViewGoto(c, "default")
  /\ UNCHANGED <<views, boards, next_view, taskRows, places, drop_met>>

SetDefault(c) ==
  /\ ViewAt(c, "default")
  /\ columns' = [columns EXCEPT ![view_desk[c].view] = IF view_desk[c].view \in views THEN "default" ELSE @]
  /\ ViewGoto(c, "read_tasks")
  /\ UNCHANGED <<views, boards, next_view, taskRows, places, drop_met>>

(* Mutant: a new view is left empty.                                       *)
ReadNoTasks(c) ==
  /\ ViewAt(c, "read_tasks")
  /\ ViewBecome(c, ViewFree)
  /\ UNCHANGED <<viewRows, taskRows, places, drop_met>>

ReadTasks(c) ==
  /\ ViewAt(c, "read_tasks")
  /\ ViewBecome(c, [view_desk[c] EXCEPT !.pc = "position", !.view = 0, !.todo = task])
  /\ UNCHANGED <<viewRows, taskRows, places, drop_met>>

-----------------------------------------------------------------------------
(* DELETE /projects/:project/views/:view                                   *)

StartDrop(c) ==
  /\ \E v \in views : ViewStart(c, [ViewFree EXCEPT !.op = "drop", !.pc = "remaining", !.view = v])
  /\ UNCHANGED <<viewRows, taskRows, places>>

(* Mutant: the view itself is counted too.                                 *)
AnyRemaining(c) ==
  /\ ViewAt(c, "remaining")
  /\ IF views = {} THEN ViewBecome(c, ViewFree) ELSE ViewGoto(c, "drop_positions")
  /\ UNCHANGED <<viewRows, taskRows, places, drop_met>>

Remaining(c) ==
  /\ ViewAt(c, "remaining")
  /\ IF views \ {view_desk[c].view} = {} THEN ViewBecome(c, ViewFree) ELSE ViewGoto(c, "drop_positions")
  /\ UNCHANGED <<viewRows, taskRows, places, drop_met>>

DropPositions(c) ==
  /\ ViewAt(c, "drop_positions")
  /\ position' = {x \in position : x[1] # view_desk[c].view}
  /\ ViewGoto(c, "drop_cards")
  /\ UNCHANGED <<viewRows, taskRows, card, drop_met>>

(* Mutant: the cards stay.                                                 *)
DropNoCards(c) ==
  /\ ViewAt(c, "drop_cards")
  /\ ViewGoto(c, "drop_buckets")
  /\ UNCHANGED <<viewRows, taskRows, places, drop_met>>

DropCards(c) ==
  /\ ViewAt(c, "drop_cards")
  /\ card' = [x \in Cells |-> IF x[1] = view_desk[c].view THEN "none" ELSE card[x]]
  /\ ViewGoto(c, "drop_buckets")
  /\ UNCHANGED <<viewRows, taskRows, position, drop_met>>

DropBuckets(c) ==
  /\ ViewAt(c, "drop_buckets")
  /\ columns' = [columns EXCEPT ![view_desk[c].view] = "none"]
  /\ ViewGoto(c, "drop_view")
  /\ UNCHANGED <<views, boards, next_view, taskRows, places, drop_met>>

DropView(c) ==
  /\ ViewAt(c, "drop_view")
  /\ views' = views \ {view_desk[c].view}
  /\ ViewBecome(c, ViewFree)
  /\ UNCHANGED <<boards, columns, next_view, taskRows, places, drop_met>>

-----------------------------------------------------------------------------
ViewNext ==
  \/ \E c \in ViewClerks :
       \/ ReadViews(c) \/ NextTask(c) \/ Position(c) \/ Card(c)
       \/ StartTask(c) \/ InsertTask(c)
       \/ StartView(c) \/ InsertView(c) \/ InsertBuckets(c) \/ SetDefault(c) \/ ReadTasks(c)
       \/ StartDrop(c) \/ Remaining(c) \/ DropPositions(c) \/ DropCards(c)
       \/ DropBuckets(c) \/ DropView(c)
  \/ MoveCard

ViewSpec == ViewInit /\ [][ViewNext]_viewVars

-----------------------------------------------------------------------------
ViewQuiet == \A c \in ViewClerks : ViewAt(c, "free")

(* Once the handlers have answered, every task has a position in every     *)
(* view and a card on every board, however its creation and that of a view *)
(* overlapped: each inserts its row before it reads the other's            *)
(* (taskViews.js:6).                                                       *)
EveryTaskHasItsPlace ==
  ViewQuiet /\ ~drop_met =>
    \A v \in views, t \in task :
      /\ <<v, t>> \in position
      /\ v \in boards => card[<<v, t>>] # "none"

(* "a project needs at least one view" (extras2.js:308), unless a view's   *)
(* deletion overlapped another handler.                                    *)
AViewRemains == ~drop_met => views # {}

(* No position and no card is of a view that is gone, unless its deletion  *)
(* overlapped another handler (extras2.js:311).                            *)
NoPlaceOutlivesItsView ==
  ViewQuiet /\ ~drop_met =>
    /\ \A x \in position : x[1] \in views
    /\ \A x \in Cells : card[x] # "none" => x[1] \in views

(* Creating a view gives tasks a card in it and moves no card of an older  *)
(* board ("every existing task needs a card in it", extras2.js:197).       *)
NewViewMovesNoCard ==
  [][\A c \in ViewClerks, x \in Cells :
       /\ view_desk[c].op = "view" /\ ViewAt(c, "card") /\ view_desk'[c] # view_desk[c]
       /\ card[x] = "moved" /\ \E v \in views : v > x[1]
       => card'[x] = "moved"]_viewVars
=============================================================================
