------------------------- MODULE ProjectViewsProofs -------------------------
(***************************************************************************)
(* Proofs about the views of a project, for any number of views, tasks and *)
(* handlers: while no deletion of a view overlaps anything else, a view    *)
(* remains, every task gets its place in every view however creations of   *)
(* tasks and views overlap, and no place outlives its view.                *)
(***************************************************************************)
EXTENDS ProjectViews, TLAPS

NewViewSteps == {"buckets", "default", "read_tasks"}
DropSteps == {"remaining", "drop_positions", "drop_cards", "drop_buckets", "drop_view"}
PlaceSteps == {"read_views", "position", "card"}
ViewWork == [op : {"none", "task", "view", "drop"},
             pc : {"free", "insert_task", "insert_view"} \cup NewViewSteps \cup DropSteps \cup PlaceSteps,
             view : ViewIds \cup {0}, task : TaskIds \cup {0}, todo : SUBSET TaskIds,
             plan : SUBSET ViewIds, bare : SUBSET ViewIds]

(* A step belongs to its operation, and what it uses has been set.         *)
Named(w) ==
  /\ w.pc \in DropSteps <=> w.op = "drop"
  /\ w.pc \in NewViewSteps \cup DropSteps \cup {"card"} => w.view \in ViewIds
  /\ w.pc \in {"read_views", "card"} \/ w.plan # {} => w.task \in TaskIds
  /\ w.plan # {} => w.pc \in {"position", "card"}
  /\ w.todo # {} => w.pc \in PlaceSteps

ViewsTyped ==
  /\ views \in SUBSET ViewIds
  /\ boards \in SUBSET ViewIds
  /\ columns \in [ViewIds -> {"none", "buckets", "default"}]
  /\ task \in SUBSET TaskIds
  /\ position \in SUBSET Cells
  /\ card \in [Cells -> {"none", "default", "moved"}]
  /\ next_view \in Nat /\ next_view > 0 /\ \A v \in views \cup boards : v < next_view
  /\ next_task \in Nat /\ next_task > 0
  /\ view_desk \in [ViewClerks -> ViewWork]
  /\ drop_met \in BOOLEAN
  /\ \A c \in ViewClerks : Named(view_desk[c])

(* A deletion in flight is alone.                                          *)
DropAlone ==
  ~drop_met => \A c, o \in ViewClerks :
                 view_desk[c].op = "drop" /\ view_desk[o].pc # "free" => c = o

(* What a handler holds is there, and what a deletion has dropped is gone. *)
Standing(w) ==
  /\ w.plan \subseteq views
  /\ w.pc \in NewViewSteps \cup {"card"} => w.view \in views
  /\ w.pc \in DropSteps \ {"remaining"} => views \ {w.view} # {}
  /\ w.pc \in {"drop_cards", "drop_buckets", "drop_view"} => \A x \in position : x[1] # w.view
  /\ w.pc \in {"drop_buckets", "drop_view"} => \A x \in Cells : x[1] = w.view => card[x] = "none"

Sound ==
  /\ views # {}
  /\ \A x \in position : x[1] \in views
  /\ \A x \in Cells : card[x] # "none" => x[1] \in views
  /\ \A c \in ViewClerks : Standing(view_desk[c])

(* A handler that will yet give task t a place in view v: it is about to   *)
(* read the views, or has v in its plan, or made v and has not yet read    *)
(* the tasks.                                                              *)
From(w, v, t) ==
  \/ w.pc = "read_views" /\ w.task = t
  \/ t \in w.todo
  \/ v \in w.plan /\ w.task = t
  \/ w.pc \in NewViewSteps /\ w.view = v
CardFrom(w, v, t) == w.pc = "card" /\ w.view = v /\ w.task = t
Leaves(w, v) == w.pc \in DropSteps \ {"remaining"} /\ w.view = v
Filling(w, v) == w.pc = "buckets" /\ w.view = v

Placed ==
  /\ \A v \in views, t \in task :
       \/ <<v, t>> \in position
       \/ \E c \in ViewClerks : From(view_desk[c], v, t) \/ Leaves(view_desk[c], v)
  /\ \A v \in views \cap boards, t \in task :
       \/ card[<<v, t>>] # "none"
       \/ \E c \in ViewClerks : \/ From(view_desk[c], v, t) \/ CardFrom(view_desk[c], v, t)
                                \/ Leaves(view_desk[c], v)
  /\ \A v \in views \cap boards :
       columns[v] = "none" => \E c \in ViewClerks : Filling(view_desk[c], v) \/ Leaves(view_desk[c], v)

ViewInv == ViewsTyped /\ DropAlone /\ (~drop_met => Sound /\ Placed)

-----------------------------------------------------------------------------
(* The idle record holds nothing.                                          *)
LEMMA FreeIsIdle ==
  /\ ViewFree \in ViewWork /\ Named(ViewFree) /\ Standing(ViewFree)
  /\ ViewFree.pc = "free" /\ ViewFree.op = "none"
BY DEF ViewFree, ViewWork, Named, Standing, NewViewSteps, DropSteps, PlaceSteps

(* A list and a board with its columns, and no tasks.                      *)
LEMMA ViewInitInv == ViewInit => ViewInv
<1> SUFFICES ASSUME ViewInit PROVE ViewInv
  OBVIOUS
<1>1. \A c \in ViewClerks : view_desk[c] = ViewFree
  BY DEF ViewInit
<1>2. ViewsTyped
  <2>1. 1 \in ViewIds /\ 2 \in ViewIds
    BY ViewAssumption DEF ViewIds
  <2>2. /\ views \in SUBSET ViewIds /\ boards \in SUBSET ViewIds /\ task \in SUBSET TaskIds
        /\ position \in SUBSET Cells /\ drop_met \in BOOLEAN
    BY <2>1 DEF ViewInit
  <2>3. /\ columns \in [ViewIds -> {"none", "buckets", "default"}]
        /\ card \in [Cells -> {"none", "default", "moved"}]
    BY DEF ViewInit
  <2>4. /\ next_view \in Nat /\ next_view > 0 /\ \A v \in views \cup boards : v < next_view
        /\ next_task \in Nat /\ next_task > 0
    BY DEF ViewInit
  <2>5. view_desk \in [ViewClerks -> ViewWork] /\ \A c \in ViewClerks : Named(view_desk[c])
    BY <1>1, FreeIsIdle DEF ViewInit
  <2> QED
    BY <2>2, <2>3, <2>4, <2>5 DEF ViewsTyped
<1>3. DropAlone
  BY <1>1, FreeIsIdle DEF DropAlone
<1>4. Sound
  BY <1>1, FreeIsIdle, ViewAssumption DEF ViewInit, Sound, ViewIds
<1>5. Placed
  BY ViewAssumption DEF ViewInit, Placed, ViewIds
<1> QED
  BY <1>2, <1>3, <1>4, <1>5 DEF ViewInv

(* Rewriting the record of one handler.                                    *)
LEMMA OneDesk ==
  ASSUME ViewsTyped, NEW c \in ViewClerks, NEW w \in ViewWork, Named(w), ViewBecome(c, w)
  PROVE  /\ view_desk' \in [ViewClerks -> ViewWork]
         /\ \A o \in ViewClerks : view_desk'[o] = IF o = c THEN w ELSE view_desk[o]
         /\ \A o \in ViewClerks : Named(view_desk'[o])
BY DEF ViewsTyped, ViewBecome

(* A handler at work goes on with the same operation or is done.           *)
LEMMA AloneKeeps ==
  ASSUME ViewsTyped, DropAlone, NEW c \in ViewClerks, NEW w \in ViewWork, Named(w), ViewBecome(c, w),
         view_desk[c].pc # "free", w.op = view_desk[c].op \/ w = ViewFree, UNCHANGED drop_met
  PROVE  DropAlone'
<1>1. \A o \in ViewClerks : view_desk'[o] = IF o = c THEN w ELSE view_desk[o]
  BY OneDesk
<1> QED
  BY <1>1, FreeIsIdle DEF DropAlone

(* A step of a handler at work keeps what the others hold: a deletion is   *)
(* alone, and nothing else takes a view away.                              *)
LEMMA SoundKeeps ==
  ASSUME ViewInv, ~drop_met, NEW c \in ViewClerks, NEW w \in ViewWork, Named(w), ViewBecome(c, w),
         view_desk[c].pc # "free", Standing(w)',
         view_desk[c].op # "drop" => views \subseteq views',
         views' # {},
         \A x \in position' : x[1] \in views',
         \A x \in Cells : card'[x] # "none" => x[1] \in views'
  PROVE  Sound'
<1>1. \A o \in ViewClerks : view_desk'[o] = IF o = c THEN w ELSE view_desk[o]
  BY OneDesk DEF ViewInv
<1>2. ASSUME NEW o \in ViewClerks, o # c PROVE Standing(view_desk[o])'
  <2>1. view_desk'[o] = view_desk[o] /\ Named(view_desk[o]) /\ Standing(view_desk[o])
    BY <1>1, <1>2 DEF ViewInv, ViewsTyped, Sound
  <2>2. view_desk[o].op # "drop" /\ (view_desk[c].op = "drop" => view_desk[o].pc = "free")
    BY <1>2 DEF ViewInv, DropAlone
  <2>3. view_desk[o].pc \notin DropSteps
    BY <2>1, <2>2 DEF Named
  <2>4. CASE view_desk[c].op = "drop"
    <3>1. view_desk[o].pc = "free" /\ view_desk[o].plan = {}
      BY <2>1, <2>2, <2>4 DEF Named
    <3> QED
      BY <2>1, <3>1 DEF Standing, NewViewSteps, DropSteps
  <2>5. CASE view_desk[c].op # "drop"
    BY <2>1, <2>3, <2>5 DEF Standing, DropSteps
  <2> QED
    BY <2>4, <2>5
<1> QED
  BY <1>1, <1>2 DEF Sound

(* A step of one handler keeps every task placed or on its way: what was   *)
(* to come from the handler has come, or still comes from it.              *)
LEMMA PlacedKeeps ==
  ASSUME ViewInv, ~drop_met, NEW c \in ViewClerks, NEW w \in ViewWork, Named(w), ViewBecome(c, w),
         \A v \in views', t \in task' : (v \in views /\ t \in task) \/ From(w, v, t),
         boards' \cap views \subseteq boards,
         \A v \in views', t \in task' :
           /\ From(view_desk[c], v, t) => From(w, v, t) \/ <<v, t>> \in position'
           /\ <<v, t>> \in position => <<v, t>> \in position' \/ Leaves(w, v),
         \A v \in views' \cap boards', t \in task' :
           /\ From(view_desk[c], v, t) \/ CardFrom(view_desk[c], v, t) =>
                \/ From(w, v, t) \/ CardFrom(w, v, t) \/ card'[<<v, t>>] # "none"
                \/ \E o \in ViewClerks \ {c} : From(view_desk[o], v, t)
           /\ card[<<v, t>>] # "none" => card'[<<v, t>>] # "none" \/ Leaves(w, v),
         \A v \in views' : Leaves(view_desk[c], v) => Leaves(w, v),
         \A v \in views' \cap boards' : columns'[v] = "none" =>
           \/ Filling(w, v) \/ Leaves(w, v)
           \/ v \in views \cap boards /\ columns[v] = "none" /\ ~Filling(view_desk[c], v)
  PROVE  Placed'
<1>1. \A o \in ViewClerks : view_desk'[o] = IF o = c THEN w ELSE view_desk[o]
  BY OneDesk DEF ViewInv
<1>2. ASSUME NEW v \in views', NEW t \in task'
      PROVE  \/ <<v, t>> \in position'
             \/ \E o \in ViewClerks : From(view_desk'[o], v, t) \/ Leaves(view_desk'[o], v)
  <2>1. CASE From(w, v, t) \/ Leaves(w, v)
    BY <1>1, <2>1
  <2>2. CASE ~From(w, v, t) /\ ~Leaves(w, v)
    <3>1. v \in views /\ t \in task
      BY <2>2
    <3>2. CASE <<v, t>> \in position
      BY <2>2, <3>2
    <3>3. CASE <<v, t>> \notin position
      <4>1. PICK o \in ViewClerks : From(view_desk[o], v, t) \/ Leaves(view_desk[o], v)
        BY <3>1, <3>3 DEF ViewInv, Placed
      <4>2. CASE o = c
        BY <2>2, <4>1, <4>2
      <4>3. CASE o # c
        BY <1>1, <4>1, <4>3
      <4> QED
        BY <4>2, <4>3
    <3> QED
      BY <3>2, <3>3
  <2> QED
    BY <2>1, <2>2
<1>3. ASSUME NEW v \in views' \cap boards', NEW t \in task'
      PROVE  \/ card'[<<v, t>>] # "none"
             \/ \E o \in ViewClerks : \/ From(view_desk'[o], v, t) \/ CardFrom(view_desk'[o], v, t)
                                      \/ Leaves(view_desk'[o], v)
  <2>1. CASE From(w, v, t) \/ CardFrom(w, v, t) \/ Leaves(w, v)
    BY <1>1, <2>1
  <2>2. CASE ~From(w, v, t) /\ ~CardFrom(w, v, t) /\ ~Leaves(w, v)
    <3>1. v \in views \cap boards /\ t \in task
      BY <2>2
    <3>2. CASE card[<<v, t>>] # "none"
      BY <2>2, <3>2
    <3>3. CASE card[<<v, t>>] = "none"
      <4>1. PICK o \in ViewClerks : \/ From(view_desk[o], v, t) \/ CardFrom(view_desk[o], v, t)
                                    \/ Leaves(view_desk[o], v)
        BY <3>1, <3>3 DEF ViewInv, Placed
      <4>2. CASE o = c
        <5>1. \/ card'[<<v, t>>] # "none"
              \/ \E p \in ViewClerks \ {c} : From(view_desk[p], v, t)
          BY <2>2, <4>1, <4>2
        <5> QED
          BY <1>1, <5>1
      <4>3. CASE o # c
        BY <1>1, <4>1, <4>3
      <4> QED
        BY <4>2, <4>3
    <3> QED
      BY <3>2, <3>3
  <2> QED
    BY <2>1, <2>2
<1>4. ASSUME NEW v \in views' \cap boards', columns'[v] = "none"
      PROVE  \E o \in ViewClerks : Filling(view_desk'[o], v) \/ Leaves(view_desk'[o], v)
  <2>1. CASE Filling(w, v) \/ Leaves(w, v)
    BY <1>1, <2>1
  <2>2. CASE ~Filling(w, v) /\ ~Leaves(w, v)
    <3>1. v \in views \cap boards /\ columns[v] = "none" /\ ~Filling(view_desk[c], v)
      BY <1>4, <2>2
    <3>2. PICK o \in ViewClerks : Filling(view_desk[o], v) \/ Leaves(view_desk[o], v)
      BY <3>1 DEF ViewInv, Placed
    <3>3. o # c
      BY <2>2, <3>1, <3>2
    <3> QED
      BY <1>1, <3>2, <3>3
  <2> QED
    BY <2>1, <2>2
<1>5. /\ \A o \in ViewClerks, v \in views', t \in task' : From(view_desk'[o], v, t) <=> From(view_desk[o], v, t)'
      /\ \A o \in ViewClerks, v \in views' : Leaves(view_desk'[o], v) <=> Leaves(view_desk[o], v)'
  BY DEF From, Leaves
<1> QED
  BY <1>2, <1>3, <1>4 DEF Placed, From, CardFrom, Leaves, Filling

(* The types, after a step of one handler.                                 *)
LEMMA TypedKeeps ==
  ASSUME ViewsTyped, NEW c \in ViewClerks, NEW w \in ViewWork, Named(w), ViewBecome(c, w),
         views' \in SUBSET ViewIds, boards' \in SUBSET ViewIds,
         columns' \in [ViewIds -> {"none", "buckets", "default"}],
         task' \in SUBSET TaskIds, position' \in SUBSET Cells,
         card' \in [Cells -> {"none", "default", "moved"}],
         next_view' \in Nat, next_view' > 0, \A v \in views' \cup boards' : v < next_view',
         next_task' \in Nat, next_task' > 0, drop_met' \in BOOLEAN
  PROVE  ViewsTyped'
BY OneDesk DEF ViewsTyped

(* A handler starts: what it holds is there, and unless the meeting is     *)
(* noted no deletion is beside it.                                         *)
LEMMA StartKeeps ==
  ASSUME ViewInv, NEW c \in ViewClerks, NEW w \in ViewWork, Named(w), ViewStart(c, w),
         w.pc \in {"insert_task", "insert_view", "remaining"}, w.plan = {}, w.todo = {},
         UNCHANGED <<viewRows, taskRows, places>>
  PROVE  ViewInv'
<1>1. /\ ViewBecome(c, w) /\ view_desk[c].pc = "free" /\ ~drop_met
      /\ drop_met' = (ViewOthers(c) # {} /\ "drop" \in ViewOthers(c) \cup {w.op})
  BY DEF ViewStart, ViewAt
<1>2. \A o \in ViewClerks : view_desk'[o] = IF o = c THEN w ELSE view_desk[o]
  BY <1>1, OneDesk DEF ViewInv
<1>3. UNCHANGED <<views, boards, columns, next_view, task, next_task, position, card>>
  BY DEF viewRows, taskRows, places
<1>4. ViewsTyped'
  BY <1>1, <1>3, TypedKeeps DEF ViewInv, ViewsTyped
<1>5. DropAlone'
  <2> SUFFICES ASSUME ~drop_met', NEW a \in ViewClerks, NEW o \in ViewClerks,
                      view_desk'[a].op = "drop", view_desk'[o].pc # "free"
               PROVE  a = o
    BY DEF DropAlone
  <2>1. \A x \in ViewClerks \ {c} : view_desk[x].pc # "free" => view_desk[x].op \in ViewOthers(c)
    BY DEF ViewOthers
  <2>2. CASE a = c
    BY <1>1, <1>2, <2>1, <2>2
  <2>3. CASE a # c
    <3>1. view_desk[a].op = "drop" /\ view_desk[a].pc \in DropSteps
      BY <1>2, <2>3 DEF ViewInv, ViewsTyped, Named
    <3>2. view_desk[a].pc # "free"
      BY <3>1 DEF DropSteps
    <3> QED
      BY <1>1, <2>1, <2>3, <3>1, <3>2
  <2> QED
    BY <2>2, <2>3
<1>6. ASSUME ~drop_met' PROVE Sound' /\ Placed'
  <2>1. Sound /\ Placed
    BY <1>1 DEF ViewInv
  <2>2. Standing(w)
    BY DEF Standing, NewViewSteps, DropSteps
  <2>3. \A o \in ViewClerks : Standing(view_desk'[o])
    BY <1>2, <2>1, <2>2 DEF Sound
  <2>4. Sound'
    BY <1>3, <2>1, <2>3 DEF Sound, Standing
  <2>5. \A v \in views, t \in task : /\ ~From(view_desk[c], v, t) /\ ~CardFrom(view_desk[c], v, t)
                                    /\ ~Leaves(view_desk[c], v) /\ ~Filling(view_desk[c], v)
    BY <1>1 DEF ViewInv, ViewsTyped, Named, From, CardFrom, Leaves, Filling, NewViewSteps, DropSteps,
                PlaceSteps
  <2>6. \A v \in views : ~Leaves(view_desk[c], v) /\ ~Filling(view_desk[c], v)
    BY <1>1 DEF Leaves, Filling, DropSteps
  <2>7. Placed'
    BY <1>1, <1>3, <2>5, <2>6, PlacedKeeps
  <2> QED
    BY <2>4, <2>7
<1> QED
  BY <1>4, <1>5, <1>6 DEF ViewInv

-----------------------------------------------------------------------------
(* addTaskToViews, of a handler at work.                                   *)
LEMMA PlacingKeeps ==
  ASSUME ViewInv, NEW c \in ViewClerks, ReadViews(c) \/ NextTask(c) \/ Position(c) \/ Card(c)
  PROVE  ViewInv'
<1>1. PICK w : w = view_desk[c]
  OBVIOUS
<1>2. w \in ViewWork /\ Named(w) /\ ViewsTyped /\ DropAlone
  BY <1>1 DEF ViewInv, ViewsTyped
<1>3. UNCHANGED <<views, boards, columns, next_view, task, next_task, drop_met>>
  BY DEF ReadViews, NextTask, Position, Card, viewRows, taskRows
<1>4. ~drop_met => Sound /\ Placed /\ Standing(w)
  BY <1>1 DEF ViewInv, Sound
<1>5. ASSUME NEW v \in ViewWork, Named(v), ViewBecome(c, v), v.op = w.op \/ v = ViewFree,
             w.pc # "free",
             position' \in SUBSET Cells, card' \in [Cells -> {"none", "default", "moved"}],
             ~drop_met => Sound' /\ Placed'
      PROVE  ViewInv'
  <2>1. ViewsTyped'
    BY <1>2, <1>3, <1>5, TypedKeeps DEF ViewsTyped
  <2>2. DropAlone'
    BY <1>1, <1>2, <1>3, <1>5, AloneKeeps
  <2> QED
    BY <1>3, <1>5, <2>1, <2>2 DEF ViewInv
<1>6. CASE ReadViews(c)
  <2>1. PICK v : v = [w EXCEPT !.pc = "position", !.plan = views,
                               !.bare = {x \in views \cap boards : columns[x] # "default"}]
    OBVIOUS
  <2>2. /\ v.pc = "position" /\ v.plan = views /\ v.op = w.op /\ v.todo = w.todo /\ v.task = w.task
        /\ v \in ViewWork /\ w.pc = "read_views" /\ w.plan = {}
    BY <1>1, <1>2, <1>6, <2>1 DEF ViewWork, ReadViews, ViewAt, PlaceSteps, Named, ViewsTyped
  <2>3. Named(v) /\ ViewBecome(c, v) /\ UNCHANGED <<position, card>>
    BY <1>1, <1>2, <1>6, <2>1, <2>2 DEF Named, ReadViews, NewViewSteps, DropSteps, PlaceSteps, places
  <2>4. ASSUME ~drop_met PROVE Sound'
    <3>1. Standing(v)'
      BY <1>3, <2>2 DEF Standing, NewViewSteps, DropSteps
    <3> QED
      BY <1>1, <1>3, <1>4, <2>2, <2>3, <2>4, <3>1, SoundKeeps DEF Sound
  <2>5. ASSUME ~drop_met PROVE Placed'
    <3>1. \A x \in views, t \in task : /\ From(w, x, t) => From(v, x, t)
                                      /\ ~CardFrom(w, x, t)
      BY <1>3, <2>2 DEF From, CardFrom, NewViewSteps
    <3>2. \A x : ~Leaves(w, x) /\ ~Filling(w, x)
      BY <2>2 DEF Leaves, Filling, DropSteps
    <3> QED
      BY <1>1, <1>3, <2>2, <2>3, <2>5, <3>1, <3>2, PlacedKeeps
  <2>6. position' \in SUBSET Cells /\ card' \in [Cells -> {"none", "default", "moved"}]
    BY <1>2, <2>3 DEF ViewsTyped
  <2> QED
    BY <1>5, <2>2, <2>3, <2>4, <2>5, <2>6
<1>7. CASE NextTask(c)
  <2>1. /\ w.pc = "position" /\ w.plan = {} /\ UNCHANGED <<position, card>>
    BY <1>1, <1>7 DEF NextTask, ViewAt, places
  <2>2. PICK v : /\ ViewBecome(c, v)
                 /\ \/ w.todo = {} /\ v = ViewFree
                    \/ \E t \in w.todo : v = [w EXCEPT !.pc = "read_views", !.task = t, !.todo = @ \ {t}]
    BY <1>1, <1>7 DEF NextTask
  <2>3. /\ v \in ViewWork /\ Named(v) /\ v.plan = {} /\ v.pc \in {"free", "read_views"}
        /\ v.op = w.op \/ v = ViewFree
        /\ \A t \in w.todo : v.pc = "read_views" /\ (v.task = t \/ t \in v.todo)
    <3>1. CASE v = ViewFree /\ w.todo = {}
      BY <3>1, FreeIsIdle DEF ViewFree
    <3>2. CASE \E t \in w.todo : v = [w EXCEPT !.pc = "read_views", !.task = t, !.todo = @ \ {t}]
      <4>1. PICK t \in w.todo : v = [w EXCEPT !.pc = "read_views", !.task = t, !.todo = @ \ {t}]
        BY <3>2
      <4>2. /\ v.pc = "read_views" /\ v.task = t /\ v.todo = w.todo \ {t} /\ v.plan = {} /\ v.op = w.op
            /\ v \in ViewWork /\ t \in TaskIds
        BY <1>2, <2>1, <4>1 DEF ViewWork, PlaceSteps
      <4>3. Named(v)
        BY <1>2, <2>1, <4>2 DEF Named, DropSteps, NewViewSteps, PlaceSteps
      <4> QED
        BY <4>2, <4>3
    <3> QED
      BY <2>2, <3>1, <3>2
  <2>4. ASSUME ~drop_met PROVE Sound'
    <3>1. Standing(v)'
      BY <2>3 DEF Standing, NewViewSteps, DropSteps
    <3> QED
      BY <1>1, <1>3, <1>4, <2>1, <2>2, <2>3, <2>4, <3>1, SoundKeeps DEF Sound
  <2>5. ASSUME ~drop_met PROVE Placed'
    <3>1. \A x \in views, t \in task : /\ From(w, x, t) => From(v, x, t)
                                      /\ ~CardFrom(w, x, t)
      BY <2>1, <2>3 DEF From, CardFrom, NewViewSteps
    <3>2. \A x : ~Leaves(w, x) /\ ~Filling(w, x)
      BY <2>1 DEF Leaves, Filling, DropSteps
    <3> QED
      BY <1>1, <1>3, <2>1, <2>2, <2>3, <2>5, <3>1, <3>2, PlacedKeeps
  <2>6. position' \in SUBSET Cells /\ card' \in [Cells -> {"none", "default", "moved"}]
    BY <1>2, <2>1 DEF ViewsTyped
  <2> QED
    BY <1>5, <2>1, <2>2, <2>3, <2>4, <2>5, <2>6
<1>8. CASE Position(c)
  <2>1. PICK x \in w.plan :
          /\ position' = position \cup {<<x, w.task>>}
          /\ ViewBecome(c, [w EXCEPT !.pc = IF x \in boards THEN "card" ELSE "position",
                                      !.plan = @ \ {x}, !.view = IF x \in boards THEN x ELSE @])
    BY <1>1, <1>8 DEF Position
  <2>2. w.pc = "position" /\ card' = card
    BY <1>1, <1>8 DEF Position, ViewAt
  <2>3. PICK v : v = [w EXCEPT !.pc = IF x \in boards THEN "card" ELSE "position",
                               !.plan = @ \ {x}, !.view = IF x \in boards THEN x ELSE @]
    OBVIOUS
  <2>4. /\ v.pc = IF x \in boards THEN "card" ELSE "position"
        /\ v.plan = w.plan \ {x} /\ v.view = IF x \in boards THEN x ELSE w.view
        /\ v.op = w.op /\ v.todo = w.todo /\ v.task = w.task /\ v \in ViewWork
        /\ x \in ViewIds /\ w.task \in TaskIds
    BY <1>2, <2>1, <2>3 DEF ViewWork, PlaceSteps, Named
  <2>5. Named(v) /\ ViewBecome(c, v)
    BY <1>2, <2>1, <2>2, <2>3, <2>4 DEF Named, NewViewSteps, DropSteps, PlaceSteps
  <2>6. ASSUME ~drop_met PROVE Sound'
    <3>1. w.plan \subseteq views /\ x \in views
      BY <1>4, <2>6 DEF Standing
    <3>2. Standing(v)'
      BY <1>3, <2>4, <3>1 DEF Standing, NewViewSteps, DropSteps
    <3>3. \A y \in position' : y[1] \in views'
      BY <1>3, <1>4, <2>1, <2>6, <3>1 DEF Sound
    <3> QED
      BY <1>1, <1>3, <1>4, <2>2, <2>4, <2>5, <2>6, <3>2, <3>3, SoundKeeps DEF Sound
  <2>7. ASSUME ~drop_met PROVE Placed'
    <3>1. \A y \in views, t \in task : From(w, y, t) => From(v, y, t) \/ <<y, t>> \in position'
      BY <2>1, <2>2, <2>4 DEF From, NewViewSteps
    <3>2. \A y \in views \cap boards, t \in task :
            From(w, y, t) \/ CardFrom(w, y, t) => From(v, y, t) \/ CardFrom(v, y, t)
      BY <2>2, <2>4 DEF From, CardFrom, NewViewSteps
    <3>3. \A y : ~Leaves(w, y) /\ ~Filling(w, y)
      BY <2>2 DEF Leaves, Filling, DropSteps
    <3>4. position \subseteq position'
      BY <2>1
    <3> QED
      BY <1>1, <1>3, <2>2, <2>4, <2>5, <2>7, <3>1, <3>2, <3>3, <3>4, PlacedKeeps
  <2>8. position' \in SUBSET Cells /\ card' \in [Cells -> {"none", "default", "moved"}]
    BY <1>2, <2>1, <2>2, <2>4 DEF ViewsTyped, Cells
  <2> QED
    BY <1>5, <2>2, <2>4, <2>5, <2>6, <2>7, <2>8
<1>9. CASE Card(c)
  <2>1. /\ w.pc = "card" /\ position' = position
        /\ card' = IF w.view \in w.bare /\ columns[w.view] = "none" THEN card
                   ELSE [card EXCEPT ![<<w.view, w.task>>] = "default"]
    BY <1>1, <1>9 DEF Card, ViewAt
  <2>2. PICK v : v = [w EXCEPT !.pc = "position", !.view = 0]
    OBVIOUS
  <2>3. /\ v.pc = "position" /\ v.plan = w.plan /\ v.view = 0
        /\ v.op = w.op /\ v.todo = w.todo /\ v.task = w.task /\ v \in ViewWork
    BY <1>2, <2>2 DEF ViewWork, PlaceSteps
  <2>4. Named(v) /\ ViewBecome(c, v)
    BY <1>1, <1>2, <1>9, <2>1, <2>2, <2>3 DEF Named, NewViewSteps, DropSteps, PlaceSteps, Card
  <2>5. w.view \in ViewIds /\ w.task \in TaskIds /\ <<w.view, w.task>> \in Cells
    BY <1>2, <2>1 DEF Named, Cells
  <2>6. card' \in [Cells -> {"none", "default", "moved"}]
        /\ \A y \in Cells : card'[y] = card[y] \/ y = <<w.view, w.task>>
    BY <1>2, <2>1, <2>5 DEF ViewsTyped
  <2>7. ASSUME ~drop_met PROVE Sound'
    <3>1. w.view \in views /\ w.plan \subseteq views
      BY <1>4, <2>1, <2>7 DEF Standing
    <3>2. Standing(v)'
      BY <1>3, <2>3, <3>1 DEF Standing, NewViewSteps, DropSteps
    <3>3. \A y \in Cells : card'[y] # "none" => y[1] \in views'
      BY <1>3, <1>4, <2>6, <2>7, <3>1 DEF Sound
    <3> QED
      BY <1>1, <1>3, <1>4, <2>1, <2>3, <2>4, <2>7, <3>2, <3>3, SoundKeeps DEF Sound
  <2>8. ASSUME ~drop_met PROVE Placed'
    <3>1. \A y \in views, t \in task : From(w, y, t) => From(v, y, t)
      BY <2>1, <2>3 DEF From, NewViewSteps
    <3>2. ASSUME NEW y \in views \cap boards, NEW t \in task, CardFrom(w, y, t),
                 card'[<<y, t>>] = "none"
          PROVE  \E o \in ViewClerks \ {c} : From(view_desk[o], y, t)
      <4>1. w.view = y /\ w.task = t
        BY <3>2 DEF CardFrom
      <4>2. columns[y] = "none"
        BY <1>2, <2>1, <2>5, <3>2, <4>1 DEF ViewsTyped
      <4>3. PICK o \in ViewClerks : Filling(view_desk[o], y) \/ Leaves(view_desk[o], y)
        BY <1>4, <2>8, <4>2 DEF Placed
      <4>4. ~Leaves(view_desk[o], y)
        <5>1. SUFFICES ASSUME Leaves(view_desk[o], y) PROVE FALSE
          OBVIOUS
        <5>2. view_desk[o].op = "drop"
          BY <1>2, <5>1 DEF Leaves, ViewsTyped, Named
        <5>3. o = c
          BY <1>1, <1>2, <2>1, <2>8, <5>2 DEF DropAlone
        <5> QED
          BY <1>1, <2>1, <5>1, <5>3 DEF Leaves, DropSteps
      <4>5. From(view_desk[o], y, t) /\ o # c
        BY <1>1, <2>1, <4>3, <4>4 DEF Filling, From, NewViewSteps
      <4> QED
        BY <4>5
    <3>3. \A y : ~Leaves(w, y) /\ ~Filling(w, y)
      BY <2>1 DEF Leaves, Filling, DropSteps
    <3>4. \A y \in views, t \in task : card[<<y, t>>] # "none" => card'[<<y, t>>] # "none"
      BY <1>2, <2>1, <2>5 DEF ViewsTyped, Cells
    <3> QED
      BY <1>1, <1>3, <2>1, <2>3, <2>4, <2>8, <3>1, <3>2, <3>3, <3>4, PlacedKeeps
  <2>9. position' \in SUBSET Cells
    BY <1>2, <2>1 DEF ViewsTyped
  <2> QED
    BY <1>5, <2>1, <2>3, <2>4, <2>6, <2>7, <2>8, <2>9
<1> QED
  BY <1>6, <1>7, <1>8, <1>9

(* Goto keeps what a handler holds.                                        *)
LEMMA GotoRecord ==
  ASSUME NEW w \in ViewWork, NEW pc \in NewViewSteps \cup DropSteps, Named(w),
         w.pc \in NewViewSteps \cup DropSteps, w.pc \in DropSteps <=> pc \in DropSteps,
         NEW v, v = [w EXCEPT !.pc = pc]
  PROVE  /\ v \in ViewWork /\ Named(v) /\ v.pc = pc /\ v.op = w.op /\ v.view = w.view
         /\ v.plan = {} /\ v.todo = {} /\ w.plan = {} /\ w.todo = {}
<1>1. /\ v \in ViewWork /\ v.pc = pc /\ v.op = w.op /\ v.view = w.view
      /\ v.plan = w.plan /\ v.todo = w.todo
  BY DEF ViewWork
<1>2. w.plan = {} /\ w.todo = {}
  BY DEF Named, NewViewSteps, DropSteps, PlaceSteps
<1> QED
  BY <1>1, <1>2 DEF Named, NewViewSteps, DropSteps, PlaceSteps

(* A task is inserted: its handler goes on to read the views.              *)
LEMMA InsertTaskKeeps ==
  ASSUME ViewInv, NEW c \in ViewClerks, InsertTask(c)
  PROVE  ViewInv'
<1>1. PICK w : w = view_desk[c]
  OBVIOUS
<1>2. w \in ViewWork /\ Named(w) /\ ViewsTyped /\ DropAlone /\ w.pc = "insert_task"
  BY <1>1 DEF ViewInv, ViewsTyped, InsertTask, ViewAt
<1>3. /\ UNCHANGED <<views, boards, columns, next_view, position, card, drop_met>>
      /\ task' = task \cup {next_task} /\ next_task' = next_task + 1
  BY DEF InsertTask, viewRows, places
<1>4. next_task \in TaskIds
  BY <1>2, ViewAssumption DEF InsertTask, ViewsTyped, TaskIds
<1>5. w.plan = {} /\ w.todo = {}
  BY <1>2 DEF Named, PlaceSteps
<1>6. PICK v : v = [w EXCEPT !.pc = "read_views", !.task = next_task]
  OBVIOUS
<1>7. /\ v \in ViewWork /\ v.pc = "read_views" /\ v.task = next_task /\ v.op = w.op
      /\ v.plan = {} /\ v.todo = {} /\ v.view = w.view
  BY <1>2, <1>4, <1>5, <1>6 DEF ViewWork, PlaceSteps
<1>8. Named(v) /\ ViewBecome(c, v)
  BY <1>1, <1>2, <1>4, <1>6, <1>7 DEF Named, NewViewSteps, DropSteps, PlaceSteps, InsertTask
<1>9. ViewsTyped'
  BY <1>2, <1>3, <1>4, <1>7, <1>8, TypedKeeps DEF ViewsTyped
<1>10. DropAlone'
  BY <1>1, <1>2, <1>3, <1>7, <1>8, AloneKeeps
<1>11. ASSUME ~drop_met PROVE Sound'
  <2>1. Standing(v)'
    BY <1>7 DEF Standing, NewViewSteps, DropSteps
  <2> QED
    BY <1>1, <1>2, <1>3, <1>7, <1>8, <1>11, <2>1, SoundKeeps DEF ViewInv, Sound
<1>12. ASSUME ~drop_met PROVE Placed'
  <2>1. \A x, t : ~From(w, x, t) /\ ~CardFrom(w, x, t) /\ ~Leaves(w, x) /\ ~Filling(w, x)
    BY <1>2, <1>5 DEF From, CardFrom, Leaves, Filling, NewViewSteps, DropSteps
  <2>2. \A x : From(v, x, next_task)
    BY <1>7 DEF From
  <2> QED
    BY <1>1, <1>3, <1>7, <1>8, <1>12, <2>1, <2>2, PlacedKeeps
<1> QED
  BY <1>3, <1>9, <1>10, <1>11, <1>12 DEF ViewInv

(* A view is inserted: its handler goes on to read the tasks.              *)
LEMMA InsertViewKeeps ==
  ASSUME ViewInv, NEW c \in ViewClerks, InsertView(c)
  PROVE  ViewInv'
<1>1. PICK w : w = view_desk[c]
  OBVIOUS
<1>2. w \in ViewWork /\ Named(w) /\ ViewsTyped /\ DropAlone /\ w.pc = "insert_view"
  BY <1>1 DEF ViewInv, ViewsTyped, InsertView, ViewAt
<1>3. /\ UNCHANGED <<columns, task, next_task, position, card, drop_met>>
      /\ views' = views \cup {next_view} /\ next_view' = next_view + 1
  BY DEF InsertView, taskRows, places
<1>4. next_view \in ViewIds /\ next_view \notin views
  BY <1>2, ViewAssumption DEF InsertView, ViewsTyped, ViewIds
<1>5. w.plan = {} /\ w.todo = {}
  BY <1>2 DEF Named, PlaceSteps
<1>6. PICK pc \in {"buckets", "read_tasks"} :
        /\ ViewBecome(c, [w EXCEPT !.pc = pc, !.view = next_view])
        /\ boards' = IF pc = "buckets" THEN boards \cup {next_view} ELSE boards
  BY <1>1 DEF InsertView
<1>7. PICK v : v = [w EXCEPT !.pc = pc, !.view = next_view]
  OBVIOUS
<1>8. /\ v \in ViewWork /\ v.pc = pc /\ v.view = next_view /\ v.op = w.op
      /\ v.plan = {} /\ v.todo = {}
  BY <1>2, <1>4, <1>5, <1>7 DEF ViewWork, NewViewSteps
<1>9. Named(v) /\ ViewBecome(c, v)
  BY <1>2, <1>4, <1>6, <1>7, <1>8 DEF Named, NewViewSteps, DropSteps, PlaceSteps
<1>10. ViewsTyped'
  <2>1. next_view' \in Nat /\ next_view' > 0 /\ \A x \in views' \cup boards' : x < next_view'
    BY <1>2, <1>3, <1>6, <1>4 DEF ViewsTyped, ViewIds
  <2>2. views' \in SUBSET ViewIds /\ boards' \in SUBSET ViewIds
    BY <1>2, <1>3, <1>4, <1>6 DEF ViewsTyped
  <2> QED
    BY <1>2, <1>3, <1>8, <1>9, <2>1, <2>2, TypedKeeps DEF ViewsTyped
<1>11. DropAlone'
  BY <1>1, <1>2, <1>3, <1>8, <1>9, AloneKeeps
<1>12. ASSUME ~drop_met PROVE Sound'
  <2>1. Standing(v)'
    BY <1>3, <1>8 DEF Standing, NewViewSteps, DropSteps
  <2> QED
    BY <1>1, <1>2, <1>3, <1>8, <1>9, <1>12, <2>1, SoundKeeps DEF ViewInv, Sound
<1>13. ASSUME ~drop_met PROVE Placed'
  <2>1. \A x, t : ~From(w, x, t) /\ ~CardFrom(w, x, t) /\ ~Leaves(w, x) /\ ~Filling(w, x)
    BY <1>2, <1>5 DEF From, CardFrom, Leaves, Filling, NewViewSteps, DropSteps
  <2>2. \A t : From(v, next_view, t)
    BY <1>8 DEF From, NewViewSteps
  <2>3. \A x \in views' \cap boards' : x \in views \cap boards \/ Filling(v, x)
    BY <1>3, <1>4, <1>6, <1>8 , <1>2 DEF Filling, ViewsTyped
  <2>4. boards' \cap views \subseteq boards
    BY <1>4, <1>6
  <2> QED
    BY <1>1, <1>3, <1>8, <1>9, <1>13, <2>1, <2>2, <2>3, <2>4, PlacedKeeps
<1> QED
  BY <1>3, <1>10, <1>11, <1>12, <1>13 DEF ViewInv

(* A view just made gets its columns, and its tasks are read.              *)
LEMMA NewViewKeeps ==
  ASSUME ViewInv, NEW c \in ViewClerks, InsertBuckets(c) \/ SetDefault(c) \/ ReadTasks(c)
  PROVE  ViewInv'
<1>1. PICK w : w = view_desk[c]
  OBVIOUS
<1>2. w \in ViewWork /\ Named(w) /\ ViewsTyped /\ DropAlone /\ w.pc \in NewViewSteps
  BY <1>1 DEF ViewInv, ViewsTyped, InsertBuckets, SetDefault, ReadTasks, ViewAt, NewViewSteps
<1>3. UNCHANGED <<views, boards, next_view, task, next_task, position, card, drop_met>>
  BY DEF InsertBuckets, SetDefault, ReadTasks, viewRows, taskRows, places
<1>4. ~drop_met => Sound /\ Placed /\ Standing(w)
  BY <1>1 DEF ViewInv, Sound
<1>5. w.view \in ViewIds /\ w.plan = {} /\ w.todo = {}
  BY <1>2 DEF Named, NewViewSteps, PlaceSteps
<1>6. ASSUME NEW v \in ViewWork, Named(v), ViewBecome(c, v), v.op = w.op, v.plan = {},
             columns' \in [ViewIds -> {"none", "buckets", "default"}],
             \/ v.pc \in {"default", "read_tasks"} /\ v.view = w.view
             \/ v.pc = "position" /\ v.todo = task,
             ~drop_met => \A x \in views : columns'[x] = "none" => columns[x] = "none" /\ ~Filling(w, x)
      PROVE  ViewInv'
  <2>1. ViewsTyped'
    BY <1>2, <1>3, <1>6, TypedKeeps DEF ViewsTyped
  <2>2. DropAlone'
    BY <1>1, <1>2, <1>3, <1>6, AloneKeeps DEF NewViewSteps
  <2>3. ASSUME ~drop_met PROVE Sound'
    <3>1. Standing(v)'
      BY <1>2, <1>3, <1>4, <1>6, <2>3 DEF Standing, NewViewSteps, DropSteps
    <3> QED
      BY <1>1, <1>2, <1>3, <1>4, <1>6, <2>3, <3>1, SoundKeeps DEF Sound, NewViewSteps
  <2>4. ASSUME ~drop_met PROVE Placed'
    <3>1. \A x, t : ~CardFrom(w, x, t) /\ ~Leaves(w, x)
      BY <1>2 DEF CardFrom, Leaves, NewViewSteps, DropSteps
    <3>2. \A x \in views, t \in task : From(w, x, t) => From(v, x, t)
      BY <1>2, <1>5, <1>6 DEF From, NewViewSteps
    <3> QED
      BY <1>1, <1>3, <1>6, <2>4, <3>1, <3>2, PlacedKeeps
  <2> QED
    BY <1>3, <2>1, <2>2, <2>3, <2>4 DEF ViewInv
<1>7. CASE InsertBuckets(c)
  <2>1. PICK v : v = [w EXCEPT !.pc = "default"]
    OBVIOUS
  <2>2. ViewBecome(c, v) /\ w.pc = "buckets" /\ columns' = [columns EXCEPT ![w.view] = "buckets"]
    BY <1>1, <1>7, <2>1 DEF InsertBuckets, ViewAt, ViewGoto
  <2>3. v \in ViewWork /\ Named(v) /\ v.pc = "default" /\ v.op = w.op /\ v.view = w.view /\ v.plan = {}
    BY <1>2, <2>1, GotoRecord DEF NewViewSteps, DropSteps
  <2>4. columns' \in [ViewIds -> {"none", "buckets", "default"}]
        /\ \A x \in views : columns'[x] = "none" => columns[x] = "none" /\ ~Filling(w, x)
    BY <1>2, <1>5, <2>2 DEF ViewsTyped, Filling
  <2> QED
    BY <1>6, <2>2, <2>3, <2>4
<1>8. CASE SetDefault(c)
  <2>1. PICK v : v = [w EXCEPT !.pc = "read_tasks"]
    OBVIOUS
  <2>2. ViewBecome(c, v) /\ w.pc = "default"
        /\ columns' = [columns EXCEPT ![w.view] = IF w.view \in views THEN "default" ELSE @]
    BY <1>1, <1>8, <2>1 DEF SetDefault, ViewAt, ViewGoto
  <2>3. v \in ViewWork /\ Named(v) /\ v.pc = "read_tasks" /\ v.op = w.op /\ v.view = w.view /\ v.plan = {}
    BY <1>2, <2>1, GotoRecord DEF NewViewSteps, DropSteps
  <2>4. columns' \in [ViewIds -> {"none", "buckets", "default"}]
        /\ \A x \in views : columns'[x] = "none" => columns[x] = "none" /\ ~Filling(w, x)
    BY <1>2, <1>5, <2>2 DEF ViewsTyped, Filling
  <2> QED
    BY <1>6, <2>2, <2>3, <2>4
<1>9. CASE ReadTasks(c)
  <2>1. PICK v : v = [w EXCEPT !.pc = "position", !.view = 0, !.todo = task]
    OBVIOUS
  <2>2. ViewBecome(c, v) /\ w.pc = "read_tasks" /\ columns' = columns
    BY <1>1, <1>9, <2>1 DEF ReadTasks, ViewAt, viewRows
  <2>3. v \in ViewWork /\ v.pc = "position" /\ v.todo = task /\ v.op = w.op /\ v.plan = {} /\ v.view = 0
    BY <1>2, <1>5, <2>1 DEF ViewWork, PlaceSteps, ViewsTyped
  <2>4. Named(v)
    BY <1>2, <2>2, <2>3 DEF Named, NewViewSteps, DropSteps, PlaceSteps
  <2>5. \A x : ~Filling(w, x)
    BY <2>2 DEF Filling
  <2> QED
    BY <1>2, <1>6, <2>2, <2>3, <2>4, <2>5 DEF ViewsTyped
<1> QED
  BY <1>7, <1>8, <1>9

-----------------------------------------------------------------------------
(* A deletion, alone while no meeting is noted.                            *)
LEMMA DroppingKeeps ==
  ASSUME ViewInv, NEW c \in ViewClerks,
         \/ Remaining(c) \/ DropPositions(c) \/ DropCards(c) \/ DropBuckets(c) \/ DropView(c)
  PROVE  ViewInv'
<1>1. PICK w : w = view_desk[c]
  OBVIOUS
<1>2. w \in ViewWork /\ Named(w) /\ ViewsTyped /\ DropAlone /\ w.pc \in DropSteps /\ w.op = "drop"
  <2>1. w \in ViewWork /\ Named(w) /\ ViewsTyped /\ DropAlone
    BY <1>1 DEF ViewInv, ViewsTyped
  <2>2. w.pc \in DropSteps
    BY <1>1 DEF Remaining, DropPositions, DropCards, DropBuckets, DropView, ViewAt, DropSteps
  <2> QED
    BY <2>1, <2>2 DEF Named
<1>3. UNCHANGED <<boards, next_view, task, next_task, drop_met>>
  BY DEF Remaining, DropPositions, DropCards, DropBuckets, DropView, viewRows, taskRows
<1>4. ~drop_met => Sound /\ Placed /\ Standing(w)
  BY <1>1 DEF ViewInv, Sound
<1>5. w.view \in ViewIds /\ w.plan = {} /\ w.todo = {}
  BY <1>2 DEF Named, DropSteps, PlaceSteps
<1>6. \A x, t : ~From(w, x, t) /\ ~CardFrom(w, x, t) /\ ~Filling(w, x)
  BY <1>2, <1>5 DEF From, CardFrom, Filling, NewViewSteps, DropSteps
<1>7. ASSUME NEW v \in ViewWork, Named(v), ViewBecome(c, v), v.op = w.op \/ v = ViewFree,
             views' \subseteq views, columns' \in [ViewIds -> {"none", "buckets", "default"}],
             position' \subseteq position, card' \in [Cells -> {"none", "default", "moved"}],
             ~drop_met =>
               /\ views' # {} /\ Standing(v)'
               /\ \A x \in position' : x[1] \in views'
               /\ \A x \in Cells : card'[x] # "none" => x[1] \in views'
               /\ \A x \in views' : Leaves(w, x) => Leaves(v, x)
               /\ \A x \in views', t \in task : <<x, t>> \in position => <<x, t>> \in position' \/ Leaves(v, x)
               /\ \A x \in views', t \in task :
                    card[<<x, t>>] # "none" => card'[<<x, t>>] # "none" \/ Leaves(v, x)
               /\ \A x \in views' : columns'[x] = "none" => columns[x] = "none" \/ Leaves(v, x)
      PROVE  ViewInv'
  <2>1. ViewsTyped'
    BY <1>2, <1>3, <1>7, TypedKeeps DEF ViewsTyped
  <2>2. DropAlone'
    BY <1>1, <1>2, <1>3, <1>7, AloneKeeps DEF DropSteps
  <2>3. ASSUME ~drop_met PROVE Sound'
    BY <1>1, <1>2, <1>7, <2>3, SoundKeeps DEF DropSteps
  <2>4. ASSUME ~drop_met PROVE Placed'
    BY <1>1, <1>3, <1>6, <1>7, <2>4, PlacedKeeps
  <2> QED
    BY <1>3, <2>1, <2>2, <2>3, <2>4 DEF ViewInv
<1>8. CASE Remaining(c)
  <2>1. w.pc = "remaining" /\ UNCHANGED <<views, columns, position, card>>
    BY <1>1, <1>8 DEF Remaining, ViewAt, viewRows, places
  <2>2. \A x : ~Leaves(w, x)
    BY <2>1 DEF Leaves
  <2>3. CASE views \ {w.view} = {}
    <3>1. ViewBecome(c, ViewFree)
      BY <1>1, <1>8, <2>3 DEF Remaining
    <3>2. Standing(ViewFree)'
      BY FreeIsIdle DEF Standing, NewViewSteps, DropSteps, ViewFree
    <3> QED
      BY <1>2, <1>4, <1>7, <2>1, <2>2, <3>1, <3>2, FreeIsIdle DEF ViewsTyped, Sound
  <2>4. CASE views \ {w.view} # {}
    <3>1. PICK v : v = [w EXCEPT !.pc = "drop_positions"]
      OBVIOUS
    <3>2. ViewBecome(c, v)
      BY <1>1, <1>8, <2>4, <3>1 DEF Remaining, ViewGoto
    <3>3. /\ v \in ViewWork /\ Named(v) /\ v.pc = "drop_positions" /\ v.op = w.op /\ v.view = w.view
          /\ v.plan = {}
      BY <1>2, <3>1, GotoRecord DEF NewViewSteps, DropSteps
    <3>4. Standing(v)'
      BY <2>1, <2>4, <3>3 DEF Standing, NewViewSteps, DropSteps
    <3> QED
      BY <1>2, <1>4, <1>7, <2>1, <2>2, <3>2, <3>3, <3>4 DEF ViewsTyped, Sound
  <2> QED
    BY <2>3, <2>4
<1>9. CASE DropPositions(c)
  <2>1. /\ w.pc = "drop_positions" /\ UNCHANGED <<views, columns, card>>
        /\ position' = {x \in position : x[1] # w.view}
    BY <1>1, <1>9 DEF DropPositions, ViewAt, viewRows
  <2>2. PICK v : v = [w EXCEPT !.pc = "drop_cards"]
    OBVIOUS
  <2>3. ViewBecome(c, v)
    BY <1>1, <1>9, <2>2 DEF DropPositions, ViewGoto
  <2>4. v \in ViewWork /\ Named(v) /\ v.pc = "drop_cards" /\ v.op = w.op /\ v.view = w.view /\ v.plan = {}
    BY <1>2, <2>2, GotoRecord DEF NewViewSteps, DropSteps
  <2>5. ~drop_met => Standing(v)'
    BY <1>4, <2>1, <2>4 DEF Standing, NewViewSteps, DropSteps
  <2>6. \A x : Leaves(v, x) <=> x = w.view
    BY <2>4 DEF Leaves, DropSteps
  <2>7. \A x, t : <<x, t>> \in position => <<x, t>> \in position' \/ Leaves(v, x)
    BY <2>1, <2>6
  <2>8. \A x : Leaves(w, x) => Leaves(v, x)
    BY <2>6 DEF Leaves
  <2> QED
    BY <1>2, <1>4, <1>7, <2>1, <2>3, <2>4, <2>5, <2>7, <2>8 DEF ViewsTyped, Sound
<1>10. CASE DropCards(c)
  <2>1. /\ w.pc = "drop_cards" /\ UNCHANGED <<views, columns, position>>
        /\ card' = [x \in Cells |-> IF x[1] = w.view THEN "none" ELSE card[x]]
    BY <1>1, <1>10 DEF DropCards, ViewAt, viewRows
  <2>2. PICK v : v = [w EXCEPT !.pc = "drop_buckets"]
    OBVIOUS
  <2>3. ViewBecome(c, v)
    BY <1>1, <1>10, <2>2 DEF DropCards, ViewGoto
  <2>4. v \in ViewWork /\ Named(v) /\ v.pc = "drop_buckets" /\ v.op = w.op /\ v.view = w.view /\ v.plan = {}
    BY <1>2, <2>2, GotoRecord DEF NewViewSteps, DropSteps
  <2>5. ~drop_met => Standing(v)'
    BY <1>4, <2>1, <2>4 DEF Standing, NewViewSteps, DropSteps
  <2>6. \A x : Leaves(v, x) <=> x = w.view
    BY <2>4 DEF Leaves, DropSteps
  <2>7. card' \in [Cells -> {"none", "default", "moved"}]
    BY <1>2, <2>1 DEF ViewsTyped
  <2>8. \A x \in views, t \in task : card[<<x, t>>] # "none" => card'[<<x, t>>] # "none" \/ Leaves(v, x)
    <3>1. \A x \in views, t \in task : <<x, t>> \in Cells
      BY <1>2 DEF ViewsTyped, Cells
    <3> QED
      BY <2>1, <2>6, <3>1
  <2>9. \A x \in Cells : card'[x] # "none" => card[x] # "none"
    BY <2>1
  <2>10. \A x : Leaves(w, x) => Leaves(v, x)
    BY <2>6 DEF Leaves
  <2> QED
    BY <1>2, <1>4, <1>7, <2>1, <2>3, <2>4, <2>5, <2>7, <2>8, <2>9, <2>10 DEF ViewsTyped, Sound
<1>11. CASE DropBuckets(c)
  <2>1. /\ w.pc = "drop_buckets" /\ UNCHANGED <<views, card, position>>
        /\ columns' = [columns EXCEPT ![w.view] = "none"]
    BY <1>1, <1>11 DEF DropBuckets, ViewAt, places
  <2>2. PICK v : v = [w EXCEPT !.pc = "drop_view"]
    OBVIOUS
  <2>3. ViewBecome(c, v)
    BY <1>1, <1>11, <2>2 DEF DropBuckets, ViewGoto
  <2>4. v \in ViewWork /\ Named(v) /\ v.pc = "drop_view" /\ v.op = w.op /\ v.view = w.view /\ v.plan = {}
    BY <1>2, <2>2, GotoRecord DEF NewViewSteps, DropSteps
  <2>5. ~drop_met => Standing(v)'
    BY <1>4, <2>1, <2>4 DEF Standing, NewViewSteps, DropSteps
  <2>6. \A x : Leaves(v, x) <=> x = w.view
    BY <2>4 DEF Leaves, DropSteps
  <2>7. columns' \in [ViewIds -> {"none", "buckets", "default"}]
        /\ \A x \in views : columns'[x] = "none" => columns[x] = "none" \/ Leaves(v, x)
    BY <1>2, <2>1, <2>6 DEF ViewsTyped
  <2>8. \A x : Leaves(w, x) => Leaves(v, x)
    BY <2>6 DEF Leaves
  <2> QED
    BY <1>2, <1>4, <1>7, <2>1, <2>3, <2>4, <2>5, <2>7, <2>8 DEF ViewsTyped, Sound
<1>12. CASE DropView(c)
  <2>1. /\ w.pc = "drop_view" /\ UNCHANGED <<columns, card, position>>
        /\ views' = views \ {w.view} /\ ViewBecome(c, ViewFree)
    BY <1>1, <1>12 DEF DropView, ViewAt, places
  <2>2. Standing(ViewFree)'
    BY FreeIsIdle DEF Standing, NewViewSteps, DropSteps, ViewFree
  <2>3. \A x \in views' : ~Leaves(w, x)
    BY <2>1 DEF Leaves
  <2>4. ~drop_met => /\ views' # {}
                     /\ \A x \in position' : x[1] \in views'
                     /\ \A x \in Cells : card'[x] # "none" => x[1] \in views'
    BY <1>4, <2>1 DEF Standing, Sound, DropSteps
  <2> QED
    BY <1>2, <1>7, <2>1, <2>2, <2>3, <2>4, FreeIsIdle DEF ViewsTyped
<1> QED
  BY <1>8, <1>9, <1>10, <1>11, <1>12

(* A card is moved on a board.                                             *)
LEMMA MoveKeeps ==
  ASSUME ViewInv, MoveCard
  PROVE  ViewInv'
<1>1. PICK b \in views \cap boards, m \in task : card' = [card EXCEPT ![<<b, m>>] = "moved"]
  BY DEF MoveCard
<1>2. /\ UNCHANGED <<views, boards, columns, next_view, task, next_task, position, view_desk>>
      /\ drop_met' = (drop_met \/ \E c \in ViewClerks : view_desk[c].op = "drop")
  BY DEF MoveCard, viewRows, taskRows
<1>3. ViewsTyped /\ DropAlone /\ <<b, m>> \in Cells
  BY DEF ViewInv, ViewsTyped, Cells
<1>4. ViewsTyped'
  BY <1>1, <1>2, <1>3 DEF ViewsTyped
<1>5. DropAlone'
  BY <1>2, <1>3 DEF DropAlone
<1>6. \A x \in Cells : card'[x] = IF x = <<b, m>> THEN "moved" ELSE card[x]
  BY <1>1, <1>3 DEF ViewsTyped
<1>7. ASSUME ~drop_met' PROVE Sound' /\ Placed'
  <2>1. Sound /\ Placed /\ \A c \in ViewClerks : view_desk[c].op # "drop"
    BY <1>2, <1>7 DEF ViewInv
  <2>2. ASSUME NEW c \in ViewClerks PROVE Standing(view_desk[c])'
    <3>1. view_desk[c].pc \notin DropSteps
      BY <1>3, <2>1 DEF ViewsTyped, Named
    <3>2. Standing(view_desk[c])
      BY <2>1 DEF Sound
    <3> QED
      BY <1>2, <3>1, <3>2 DEF Standing, DropSteps
  <2>3. Sound'
    BY <1>2, <1>6, <2>1, <2>2 DEF Sound
  <2>4. \A x \in views, t \in task : <<x, t>> \in Cells
    BY <1>3 DEF ViewsTyped, Cells
  <2>5. Placed'
    BY <1>2, <1>6, <2>1, <2>4 DEF Placed, From, CardFrom, Leaves, Filling
  <2> QED
    BY <2>3, <2>5
<1> QED
  BY <1>4, <1>5, <1>7 DEF ViewInv

(* Every step keeps the invariant.                                         *)
LEMMA ViewStep ==
  ASSUME ViewInv, [ViewNext]_viewVars
  PROVE  ViewInv'
<1>1. ASSUME NEW c \in ViewClerks, StartTask(c) \/ StartView(c) \/ StartDrop(c) PROVE ViewInv'
  <2>1. PICK w : /\ ViewStart(c, w)
                 /\ \/ w = [ViewFree EXCEPT !.op = "task", !.pc = "insert_task"]
                    \/ w = [ViewFree EXCEPT !.op = "view", !.pc = "insert_view"]
                    \/ \E v \in views : w = [ViewFree EXCEPT !.op = "drop", !.pc = "remaining", !.view = v]
    BY <1>1 DEF StartTask, StartView, StartDrop
  <2>2. w \in ViewWork /\ Named(w) /\ w.plan = {} /\ w.todo = {}
        /\ w.pc \in {"insert_task", "insert_view", "remaining"}
    <3>1. views \subseteq ViewIds
      BY DEF ViewInv, ViewsTyped
    <3>2. /\ w \in ViewWork /\ w.plan = {} /\ w.todo = {}
          /\ <<w.op, w.pc>> \in {<<"task", "insert_task">>, <<"view", "insert_view">>, <<"drop", "remaining">>}
          /\ w.op = "drop" => w.view \in ViewIds
      BY <2>1, <3>1 DEF ViewWork, ViewFree, DropSteps
    <3>3. \/ w.op = "task" /\ w.pc = "insert_task"
          \/ w.op = "view" /\ w.pc = "insert_view"
          \/ w.op = "drop" /\ w.pc = "remaining" /\ w.view \in ViewIds
      BY <3>2
    <3> QED
      BY <3>2, <3>3 DEF Named, NewViewSteps, DropSteps, PlaceSteps
  <2>3. UNCHANGED <<viewRows, taskRows, places>>
    BY <1>1 DEF StartTask, StartView, StartDrop
  <2> QED
    BY <2>1, <2>2, <2>3, StartKeeps
<1>2. CASE UNCHANGED viewVars
  BY <1>2 DEF viewVars, ViewInv, ViewsTyped, DropAlone, Sound, Standing, Placed
<1> QED
  BY <1>1, <1>2, PlacingKeeps, InsertTaskKeeps, InsertViewKeeps, NewViewKeeps, DroppingKeeps, MoveKeeps
     DEF ViewNext

(* The invariant holds throughout.                                         *)
LEMMA ViewInvHolds == ViewSpec => []ViewInv
BY ViewInitInv, ViewStep, PTL DEF ViewSpec

-----------------------------------------------------------------------------
(* A project keeps a view, however many there are, unless a deletion       *)
(* overlapped another handler (extras2.js:308).                            *)
THEOREM AViewIsKept == ViewSpec => []AViewRemains
<1>1. ViewInv => AViewRemains
  BY DEF ViewInv, Sound, AViewRemains
<1> QED
  BY <1>1, ViewInvHolds, PTL

(* Once the handlers have answered, every task has a position in every     *)
(* view and a card on every board, for any number of creations of tasks    *)
(* and of views that overlapped (taskViews.js:6).                          *)
THEOREM TasksGetTheirPlaces == ViewSpec => []EveryTaskHasItsPlace
<1>1. ASSUME ViewInv PROVE EveryTaskHasItsPlace
  <2> SUFFICES ASSUME ViewQuiet, ~drop_met, NEW v \in views, NEW t \in task
               PROVE  <<v, t>> \in position /\ (v \in boards => card[<<v, t>>] # "none")
    BY DEF EveryTaskHasItsPlace
  <2>1. Placed /\ \A c \in ViewClerks : view_desk[c].pc = "free" /\ Named(view_desk[c])
    BY <1>1 DEF ViewInv, ViewsTyped, ViewQuiet, ViewAt
  <2>2. \A c \in ViewClerks : /\ ~From(view_desk[c], v, t) /\ ~CardFrom(view_desk[c], v, t)
                              /\ ~Leaves(view_desk[c], v)
    BY <2>1 DEF From, CardFrom, Leaves, Named, NewViewSteps, DropSteps, PlaceSteps
  <2> QED
    BY <2>1, <2>2 DEF Placed
<1> QED
  BY <1>1, ViewInvHolds, PTL

(* No position and no card is of a view that is gone, unless a deletion    *)
(* overlapped another handler (extras2.js:311).                            *)
THEOREM PlacesGoWithTheirView == ViewSpec => []NoPlaceOutlivesItsView
<1>1. ViewInv => NoPlaceOutlivesItsView
  BY DEF ViewInv, Sound, NoPlaceOutlivesItsView
<1> QED
  BY <1>1, ViewInvHolds, PTL
=============================================================================
