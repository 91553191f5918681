-------------------------- MODULE RemindersProofs --------------------------
(***************************************************************************)
(* Proofs about reminders, for any number of assignees, clients and        *)
(* restarts: a reminder keeps its distance to the due date while edits do  *)
(* not cut into each other, and nobody is told twice of one reminder by    *)
(* ticks that do not overlap.                                              *)
(***************************************************************************)
EXTENDS Reminders, Integers, TLAPS

TickSteps == {"free", "assignees", "next", "notify"}
EditSteps == {"free", "read_task", "write_dates", "read_reminder", "shift", "delete", "insert"}
ReminderWork == [op : {"none", "tick", "roll", "replace"}, pc : TickSteps \cup EditSteps,
                 due : Nat, at : Nat, holds : BOOLEAN,
                 left : SUBSET Assignees, to : SUBSET Assignees]
Told == [to : Assignees, created : Nat, for : Nat]

(* Ticks and handlers keep to their own steps, and a roll writes dates it  *)
(* has read.                                                               *)
ReminderTyped ==
  /\ now \in Nat
  /\ due \in Nat /\ due > Period
  /\ reminder \in Nat
  /\ ahead \in Int
  /\ told \in SUBSET Told
  /\ edits_met \in BOOLEAN
  /\ reminder_desk \in [ReminderSlots -> ReminderWork]
  /\ \A s \in Ticks : reminder_desk[s].pc \in TickSteps
  /\ \A s \in Clients : /\ reminder_desk[s].pc \in EditSteps
                        /\ ReminderAt(s, "write_dates") => reminder_desk[s].due > Period

OneEdit ==
  ~edits_met =>
    \A s, o \in Clients : ~ReminderAt(s, "free") /\ ~ReminderAt(o, "free") => s = o

InStep == reminder # None /\ reminder + ahead = due

(* How far an edit has got with the reminder, when it is the only one.     *)
EditSoFar(s) ==
  LET w == reminder_desk[s] IN
  /\ w.pc = "read_task" => InStep
  /\ w.pc = "write_dates" => InStep /\ w.due = due
  /\ w.pc = "read_reminder" => reminder # None /\ reminder + ahead + Period = due
  /\ w.pc = "shift" => w.holds /\ w.at # None /\ w.at + ahead + Period = due
  /\ w.pc \in {"delete", "insert"} => w.at # None /\ w.at <= due

FollowInv ==
  /\ ReminderTyped
  /\ OneEdit
  /\ ~edits_met => \A s \in Clients : EditSoFar(s)
  /\ ReminderFollowsDueDate

-----------------------------------------------------------------------------
(* The idle record.                                                        *)
LEMMA FreeRecord == ReminderFree \in ReminderWork /\ ReminderFree.pc = "free" /\ ReminderFree.to = {}
  BY DEF ReminderFree, ReminderWork, TickSteps, EditSteps, None

(* At the start the reminder is in step with the due date.                 *)
LEMMA FollowInit == ReminderInit => FollowInv
<1> SUFFICES ASSUME ReminderInit PROVE FollowInv
  OBVIOUS
<1>1. PICK a \in Ahead : ahead = a
  BY DEF ReminderInit
<1>2. Period \in Nat /\ a \in Nat /\ a <= Period
  BY <1>1, ReminderAssumption
<1>3. due \in Nat /\ due > Period /\ reminder \in Nat /\ ahead \in Int /\ InStep
  BY <1>1, <1>2 DEF ReminderInit, InStep, None
<1>4. \A s \in ReminderSlots : reminder_desk[s] = ReminderFree
  BY DEF ReminderInit
<1>5. Ticks \subseteq ReminderSlots /\ Clients \subseteq ReminderSlots
  BY DEF ReminderSlots
<1>6. ReminderTyped
  BY <1>3, <1>4, <1>5, FreeRecord DEF ReminderInit, ReminderTyped, ReminderAt, TickSteps, EditSteps
<1>7. OneEdit /\ \A s \in Clients : EditSoFar(s)
  BY <1>4, <1>5, FreeRecord DEF OneEdit, EditSoFar, ReminderAt
<1> QED
  BY <1>3, <1>6, <1>7 DEF FollowInv, ReminderFollowsDueDate, InStep

(* A tick goes on: no date and no edit changes.                            *)
LEMMA TickKeeps ==
  ASSUME FollowInv, NEW s \in Ticks, NEW w \in ReminderWork, w.pc \in TickSteps,
         ReminderBecome(s, w), told' \in SUBSET Told, UNCHANGED <<now, due, done, reminder, history>>
  PROVE  FollowInv'
<1>1. s \in ReminderSlots /\ s \notin Clients /\ Clients \subseteq ReminderSlots /\ Ticks \subseteq ReminderSlots
  BY ReminderAssumption DEF ReminderSlots
<1>2. \A x \in ReminderSlots : reminder_desk'[x] = IF x = s THEN w ELSE reminder_desk[x]
  BY <1>1 DEF ReminderBecome, FollowInv, ReminderTyped
<1>3. \A c \in Clients : reminder_desk'[c] = reminder_desk[c]
  BY <1>1, <1>2
<1>4. due' = due /\ reminder' = reminder /\ ahead' = ahead /\ edits_met' = edits_met /\ now' = now
  BY DEF history
<1>5. ReminderTyped'
  BY <1>1, <1>2, <1>3, <1>4 DEF ReminderBecome, FollowInv, ReminderTyped, ReminderAt
<1>6. OneEdit'
  BY <1>3, <1>4 DEF FollowInv, OneEdit, ReminderAt
<1>7. ~edits_met' => \A c \in Clients : EditSoFar(c)'
  BY <1>3, <1>4 DEF FollowInv, EditSoFar, InStep
<1>8. ReminderFollowsDueDate'
  BY <1>3, <1>4 DEF FollowInv, ReminderFollowsDueDate, ReminderBusy, ReminderAt
<1> QED
  BY <1>5, <1>6, <1>7, <1>8 DEF FollowInv

(* An edit starts.                                                         *)
LEMMA BeginKeeps ==
  ASSUME FollowInv, NEW s, NEW w \in ReminderWork, BeginEdit(s, w),
         w.pc = "read_task" \/ (w.pc = "delete" /\ w.at # None /\ w.at <= due),
         UNCHANGED <<now, due, reminder, told, ahead>>
  PROVE  FollowInv'
<1>1. s \in Clients /\ s \in ReminderSlots /\ Clients \subseteq ReminderSlots
      /\ Ticks \subseteq ReminderSlots /\ s \notin Ticks
  BY ReminderAssumption DEF ReminderSlots, BeginEdit
<1>2. \A x \in ReminderSlots : reminder_desk'[x] = IF x = s THEN w ELSE reminder_desk[x]
  BY <1>1 DEF BeginEdit, ReminderBecome, FollowInv, ReminderTyped
<1>3. w.pc \in EditSteps /\ w.pc # "free" /\ w.pc # "write_dates"
  BY DEF EditSteps
<1>4. ReminderTyped'
  BY <1>1, <1>2, <1>3 DEF BeginEdit, ReminderBecome, FollowInv, ReminderTyped, ReminderAt
<1>5. ~edits_met' => /\ ~edits_met
                     /\ \A o \in Clients \ {s} : reminder_desk[o].pc = "free"
                     /\ reminder_desk[s].pc = "free"
  BY DEF BeginEdit, ReminderBusy, ReminderAt
<1>6. ~edits_met' => InStep
  BY <1>5 DEF FollowInv, ReminderFollowsDueDate, ReminderBusy, ReminderAt, InStep
<1>7. ~edits_met' => \A o \in Clients \ {s} : reminder_desk'[o].pc = "free"
  BY <1>1, <1>2, <1>5
<1>8. OneEdit'
  BY <1>7 DEF OneEdit, ReminderAt
<1>9. ASSUME ~edits_met', NEW c \in Clients PROVE EditSoFar(c)'
  <2>1. CASE c = s
    BY <1>1, <1>2, <1>6, <1>9, <2>1 DEF EditSoFar, InStep
  <2>2. CASE c # s
    BY <1>7, <1>9, <2>2 DEF EditSoFar
  <2> QED
    BY <2>1, <2>2
<1>10. ReminderFollowsDueDate'
  BY <1>1, <1>2, <1>3 DEF ReminderFollowsDueDate, ReminderBusy, ReminderAt
<1> QED
  BY <1>4, <1>8, <1>9, <1>10 DEF FollowInv

(* An edit goes on or ends.  It is the only one, or they have met.         *)
LEMMA EditKeeps ==
  ASSUME FollowInv, NEW s \in Clients, NEW w \in ReminderWork, w.pc \in EditSteps,
         reminder_desk[s].pc # "free",
         \A x \in ReminderSlots \ {s} :
           /\ reminder_desk'[x] \in ReminderWork
           /\ reminder_desk'[x].pc = reminder_desk[x].pc /\ reminder_desk'[x].due = reminder_desk[x].due,
         reminder_desk'[s] = w, reminder_desk' = [x \in ReminderSlots |-> reminder_desk'[x]],
         w.pc = "write_dates" => w.due > Period,
         due' \in Nat, due' > Period, reminder' \in Nat, ahead' \in Int,
         UNCHANGED <<now, told, edits_met>>,
         ~edits_met => EditSoFar(s)',
         ~edits_met /\ w.pc = "free" => InStep'
  PROVE  FollowInv'
<1>1. s \in ReminderSlots /\ Clients \subseteq ReminderSlots /\ Ticks \subseteq ReminderSlots /\ s \notin Ticks
  BY ReminderAssumption DEF ReminderSlots
<1>2. reminder_desk' \in [ReminderSlots -> ReminderWork]
  <2>1. \A x \in ReminderSlots : reminder_desk'[x] \in ReminderWork
    OBVIOUS
  <2> QED
    BY <2>1
<1>3. \A x \in ReminderSlots : x # s => reminder_desk'[x].pc = reminder_desk[x].pc
                                        /\ reminder_desk'[x].due = reminder_desk[x].due
  OBVIOUS
<1>4. ReminderTyped'
  <2>1. now' \in Nat /\ told' \in SUBSET Told /\ edits_met' \in BOOLEAN
    BY DEF FollowInv, ReminderTyped
  <2>2. \A x \in Ticks : reminder_desk'[x].pc \in TickSteps
    BY <1>1, <1>3 DEF FollowInv, ReminderTyped
  <2>3. ASSUME NEW x \in Clients
        PROVE  reminder_desk'[x].pc \in EditSteps
               /\ (reminder_desk'[x].pc = "write_dates" => reminder_desk'[x].due > Period)
    BY <1>1, <1>3 DEF FollowInv, ReminderTyped, ReminderAt
  <2> QED
    BY <1>2, <2>1, <2>2, <2>3 DEF ReminderTyped, ReminderAt
<1>5. ~edits_met => \A o \in Clients : o # s => reminder_desk'[o].pc = "free"
  BY <1>1, <1>3 DEF FollowInv, OneEdit, ReminderAt
<1>6. OneEdit'
  BY <1>5 DEF OneEdit, ReminderAt
<1>7. ASSUME ~edits_met', NEW c \in Clients PROVE EditSoFar(c)'
  <2>1. CASE c = s
    BY <1>7, <2>1
  <2>2. CASE c # s
    BY <1>5, <1>7, <2>2 DEF EditSoFar
  <2> QED
    BY <2>1, <2>2
<1>8. ReminderFollowsDueDate'
  BY DEF ReminderFollowsDueDate, ReminderBusy, ReminderAt, InStep
<1> QED
  BY <1>4, <1>6, <1>7, <1>8 DEF FollowInv

-----------------------------------------------------------------------------
(* Every step keeps the invariant.                                         *)
LEMMA FollowStep ==
  ASSUME FollowInv, [ReminderNext]_reminderVars
  PROVE  FollowInv'
<1>1. Ticks \subseteq ReminderSlots /\ Clients \subseteq ReminderSlots
  BY DEF ReminderSlots
<1>2. \A s \in ReminderSlots : reminder_desk[s] \in ReminderWork
  BY DEF FollowInv, ReminderTyped
<1>3. due \in Nat /\ due > Period /\ reminder \in Nat /\ ahead \in Int /\ now \in Nat /\ Period \in Nat
  BY ReminderAssumption DEF FollowInv, ReminderTyped
<1>4. CASE Clock
  <2>1. now' \in Nat
    BY <1>3, <1>4 DEF Clock
  <2>2. UNCHANGED <<due, reminder, told, reminder_desk, ahead, edits_met>>
    BY <1>4 DEF Clock, history
  <2>3. ReminderTyped'
    BY <2>1, <2>2 DEF FollowInv, ReminderTyped, ReminderAt
  <2>4. OneEdit' /\ ReminderFollowsDueDate' /\ (~edits_met' => \A s \in Clients : EditSoFar(s)')
    BY <2>2 DEF FollowInv, OneEdit, ReminderFollowsDueDate, ReminderBusy, ReminderAt, EditSoFar, InStep
  <2> QED
    BY <2>3, <2>4 DEF FollowInv
<1>5. CASE Crash
  <2>1. \A s \in ReminderSlots : reminder_desk'[s] = ReminderFree
    BY <1>5 DEF Crash
  <2>2. UNCHANGED <<now, due, reminder, told, ahead>> /\ edits_met' = (edits_met \/ ReminderBusy(Clients))
    BY <1>5 DEF Crash
  <2>3. reminder_desk' = [s \in ReminderSlots |-> ReminderFree]
    BY <1>5 DEF Crash
  <2>4. ReminderTyped'
    BY <1>1, <2>1, <2>2, <2>3, FreeRecord DEF FollowInv, ReminderTyped, ReminderAt, TickSteps, EditSteps
  <2>5. OneEdit' /\ \A s \in Clients : EditSoFar(s)'
    BY <1>1, <2>1, FreeRecord DEF OneEdit, ReminderAt, EditSoFar
  <2>6. ReminderFollowsDueDate'
    BY <2>2 DEF FollowInv, ReminderFollowsDueDate
  <2> QED
    BY <2>4, <2>5, <2>6 DEF FollowInv
<1>6. ASSUME NEW s \in Ticks, StartTick(s) \/ Tick(s) PROVE FollowInv'
  <2>1. PICK w : w = reminder_desk[s]
    OBVIOUS
  <2>2. w \in ReminderWork /\ told \in SUBSET Told
    BY <1>1, <1>2, <2>1 DEF FollowInv, ReminderTyped
  <2> USE DEF ReminderWork, TickSteps
  <2>3. CASE StartTick(s)
    BY <1>3, <2>2, <2>3, FreeRecord, TickKeeps DEF StartTick, ReminderFree
  <2>4. CASE ReadAssignees(s)
    BY <1>3, <2>1, <2>2, <2>4, TickKeeps DEF ReadAssignees
  <2>5. CASE LookForNotification(s)
    <3>1. ASSUME NEW u \in w.left, NEW v, v = IF Already(u, w.at) THEN [w EXCEPT !.left = @ \ {u}]
                                        ELSE [w EXCEPT !.pc = "notify", !.left = @ \ {u}, !.to = {u}],
                 w.pc = "next"
          PROVE  v \in ReminderWork /\ v.pc \in TickSteps
      BY <2>2, <3>1
    <3>2. PICK v : /\ v \in ReminderWork /\ v.pc \in TickSteps
                   /\ ReminderBecome(s, v)
      BY <2>1, <2>5, <3>1, FreeRecord DEF LookForNotification, ReminderAt
    <3> QED
      BY <2>2, <2>5, <3>2, TickKeeps DEF LookForNotification
  <2>6. CASE Notify(s)
    <3>1. told' \in SUBSET Told
      BY <1>3, <2>1, <2>2, <2>6 DEF Notify, Told
    <3>2. PICK v : v = [w EXCEPT !.pc = "next", !.to = {}]
      OBVIOUS
    <3>3. v \in ReminderWork /\ v.pc \in TickSteps
      BY <2>2, <3>2
    <3> QED
      BY <2>1, <2>6, <3>1, <3>2, <3>3, TickKeeps DEF Notify
  <2> QED
    BY <1>6, <2>3, <2>4, <2>5, <2>6 DEF Tick
<1>7. ASSUME NEW s \in Clients, StartRoll(s) PROVE FollowInv'
  <2>1. PICK v : v = [ReminderFree EXCEPT !.op = "roll", !.pc = "read_task"]
    OBVIOUS
  <2>2. v \in ReminderWork /\ v.pc = "read_task"
    BY <2>1, FreeRecord DEF ReminderWork, EditSteps
  <2> QED
    BY <1>7, <2>1, <2>2, BeginKeeps DEF StartRoll
<1>8. ASSUME NEW s \in Clients, StartReplace(s) PROVE FollowInv'
  <2>1. PICK a \in Ahead :
          BeginEdit(s, [ReminderFree EXCEPT !.op = "replace", !.pc = "delete", !.at = due - a])
    BY <1>8 DEF StartReplace
  <2>2. a \in Nat /\ a <= Period
    BY <1>3, ReminderAssumption
  <2>3. due - a \in Nat /\ due - a # None /\ due - a <= due
    BY <1>3, <2>2 DEF None
  <2>4. PICK v : v = [ReminderFree EXCEPT !.op = "replace", !.pc = "delete", !.at = due - a]
    OBVIOUS
  <2>5. v \in ReminderWork /\ v.pc = "delete" /\ v.at = due - a
    BY <2>3, <2>4, FreeRecord DEF ReminderWork, EditSteps, ReminderFree
  <2> QED
    BY <1>8, <2>1, <2>3, <2>4, <2>5, BeginKeeps DEF StartReplace
<1>9. ASSUME NEW s \in Clients, Edit(s) PROVE FollowInv'
  <2>1. PICK w : w = reminder_desk[s]
    OBVIOUS
  <2>2. w \in ReminderWork /\ s \in ReminderSlots
    BY <1>1, <1>2, <2>1
  <2>3. ~edits_met => EditSoFar(s)
    BY DEF FollowInv
  <2>4. w.pc = "write_dates" => w.due > Period
    BY <2>1 DEF FollowInv, ReminderTyped, ReminderAt
  <2>5. ASSUME NEW v \in ReminderWork, ReminderBecome(s, v)
        PROVE  /\ \A x \in ReminderSlots \ {s} :
                    /\ reminder_desk'[x] \in ReminderWork
                    /\ reminder_desk'[x].pc = reminder_desk[x].pc /\ reminder_desk'[x].due = reminder_desk[x].due
               /\ reminder_desk'[s] = v
               /\ reminder_desk' = [x \in ReminderSlots |-> reminder_desk'[x]]
    BY <1>2, <2>2, <2>5 DEF ReminderBecome, FollowInv, ReminderTyped
  <2>6. CASE ReadTask(s)
    <3>1. PICK v : v = [w EXCEPT !.pc = "write_dates", !.due = due]
      OBVIOUS
    <3>2. v \in ReminderWork /\ v.pc = "write_dates" /\ v.due = due
      BY <1>3, <2>2, <3>1 DEF ReminderWork, EditSteps
    <3>3. ReminderBecome(s, v) /\ w.pc = "read_task" /\ UNCHANGED <<now, due, reminder, told, ahead, edits_met>>
      BY <2>1, <2>6, <3>1 DEF ReadTask, ReminderAt, history
    <3>4. ~edits_met => EditSoFar(s)'
      BY <2>1, <2>3, <2>5, <3>2, <3>3 DEF EditSoFar, InStep
    <3>5. v.pc \in EditSteps
      BY <3>2 DEF EditSteps
    <3> QED
      BY <1>3, <2>1, <2>5, <3>2, <3>3, <3>4, <3>5, EditKeeps
  <2>7. CASE WriteDates(s)
    <3>1. PICK v : v = [w EXCEPT !.pc = "read_reminder"]
      OBVIOUS
    <3>2. v \in ReminderWork /\ v.pc = "read_reminder"
      BY <2>2, <3>1 DEF ReminderWork, EditSteps
    <3>3. ReminderBecome(s, v) /\ w.pc = "write_dates" /\ UNCHANGED <<now, reminder, told, ahead, edits_met>>
          /\ due' = w.due + Period
      BY <2>1, <2>7, <3>1 DEF WriteDates, ReminderGoto, ReminderAt, history
    <3>4. w.due \in Nat /\ due' \in Nat /\ due' > Period
      BY <1>3, <2>2, <2>4, <3>3 DEF ReminderWork
    <3>5. ~edits_met => EditSoFar(s)'
      BY <1>3, <2>1, <2>3, <2>5, <3>2, <3>3 DEF EditSoFar, InStep
    <3>6. v.pc \in EditSteps
      BY <3>2 DEF EditSteps
    <3> QED
      BY <1>3, <2>1, <2>5, <3>2, <3>3, <3>4, <3>5, <3>6, EditKeeps
  <2>8. CASE ReadReminder(s)
    <3>1. PICK v : v = IF reminder = None THEN ReminderFree
                       ELSE [w EXCEPT !.pc = "shift", !.holds = TRUE, !.at = reminder]
      OBVIOUS
    <3>2. v \in ReminderWork /\ v.pc \in EditSteps /\ v.pc # "write_dates"
      BY <1>3, <2>2, <3>1, FreeRecord DEF ReminderWork, EditSteps
    <3>3. ReminderBecome(s, v) /\ w.pc = "read_reminder" /\ UNCHANGED <<now, due, reminder, told, ahead, edits_met>>
      BY <2>1, <2>8, <3>1 DEF ReadReminder, ReminderAt, history
    <3>4. ~edits_met => reminder # None /\ reminder + ahead + Period = due
      BY <2>1, <2>3, <3>3 DEF EditSoFar
    <3>5. ~edits_met => v.pc = "shift" /\ v.holds /\ v.at = reminder
      BY <2>2, <3>1, <3>4 DEF ReminderWork
    <3>6. ~edits_met => EditSoFar(s)'
      BY <2>5, <3>2, <3>3, <3>4, <3>5 DEF EditSoFar
    <3> QED
      BY <1>3, <2>1, <2>5, <3>2, <3>3, <3>5, <3>6, EditKeeps
  <2>9. CASE ShiftReminder(s)
    <3>1. ReminderBecome(s, ReminderFree) /\ w.pc = "shift" /\ UNCHANGED <<now, due, told, ahead, edits_met>>
          /\ reminder' = IF w.holds THEN w.at + Period ELSE reminder
      BY <2>1, <2>9 DEF ShiftReminder, ReminderAt, history
    <3>2. w.at \in Nat /\ reminder' \in Nat
      BY <1>3, <2>2, <3>1 DEF ReminderWork
    <3>3. ~edits_met => InStep'
      BY <1>3, <2>1, <2>3, <3>1, <3>2 DEF EditSoFar, InStep, None
    <3>4. EditSoFar(s)'
      BY <2>5, <3>1, FreeRecord DEF EditSoFar
    <3>5. ReminderFree.pc \in EditSteps /\ ReminderFree.pc # "write_dates"
      BY FreeRecord DEF EditSteps
    <3> QED
      BY <1>3, <2>1, <2>5, <3>1, <3>2, <3>3, <3>4, <3>5, FreeRecord, EditKeeps
  <2>10. CASE DeleteReminder(s)
    <3>1. PICK v : v = [w EXCEPT !.pc = "insert"]
      OBVIOUS
    <3>2. v \in ReminderWork /\ v.pc = "insert" /\ v.at = w.at
      BY <2>2, <3>1 DEF ReminderWork, EditSteps
    <3>3. /\ w.pc = "delete" /\ reminder' = None /\ UNCHANGED <<now, due, told, ahead, edits_met>>
          /\ reminder_desk' = [x \in ReminderSlots |-> IF x = s THEN v
                                                       ELSE [reminder_desk[x] EXCEPT !.holds = FALSE]]
      BY <2>1, <2>10, <3>1 DEF DeleteReminder, ReminderAt, history
    <3>4. ASSUME NEW x \in ReminderSlots \ {s}
          PROVE  /\ reminder_desk'[x] \in ReminderWork
                 /\ reminder_desk'[x].pc = reminder_desk[x].pc
                 /\ reminder_desk'[x].due = reminder_desk[x].due
      <4>1. PICK z : z = reminder_desk[x]
        OBVIOUS
      <4>2. z \in ReminderWork
        BY <1>2, <4>1
      <4>3. reminder_desk'[x] = [z EXCEPT !.holds = FALSE]
        BY <3>3, <4>1
      <4> QED
        BY <4>1, <4>2, <4>3 DEF ReminderWork
    <3>5. reminder_desk'[s] = v /\ reminder_desk' = [x \in ReminderSlots |-> reminder_desk'[x]]
      BY <2>2, <3>3
    <3>6. ~edits_met => EditSoFar(s)'
      BY <2>1, <2>3, <3>2, <3>3, <3>5 DEF EditSoFar
    <3>7. v.pc \in EditSteps /\ v.pc # "write_dates" /\ v.pc # "free" /\ reminder' \in Nat
      BY <3>2, <3>3 DEF EditSteps, None
    <3>8. ahead' \in Int /\ due' \in Nat /\ due' > Period /\ UNCHANGED <<now, told, edits_met>>
          /\ reminder_desk[s].pc # "free"
      BY <1>3, <2>1, <3>3
    <3> QED
      BY <3>2, <3>4, <3>5, <3>6, <3>7, <3>8, EditKeeps
  <2>11. CASE InsertReminder(s)
    <3>1. ReminderBecome(s, ReminderFree) /\ w.pc = "insert" /\ UNCHANGED <<now, due, told, edits_met>>
          /\ reminder' = w.at /\ ahead' = due - w.at
      BY <2>1, <2>11 DEF InsertReminder, ReminderAt
    <3>2. w.at \in Nat /\ reminder' \in Nat
      BY <2>2, <3>1 DEF ReminderWork
    <3>3. ~edits_met => InStep'
      BY <1>3, <2>1, <2>3, <3>1, <3>2 DEF EditSoFar, InStep, None
    <3>4. EditSoFar(s)'
      BY <2>5, <3>1, FreeRecord DEF EditSoFar
    <3>5. ReminderFree.pc \in EditSteps /\ ReminderFree.pc # "write_dates"
      BY FreeRecord DEF EditSteps
    <3>6. ahead' \in Int
      BY <1>3, <3>1, <3>2
    <3> QED
      BY <1>3, <2>1, <2>5, <3>1, <3>2, <3>3, <3>4, <3>5, <3>6, FreeRecord, EditKeeps
  <2> QED
    BY <1>9, <2>6, <2>7, <2>8, <2>9, <2>10, <2>11 DEF Edit
<1>10. CASE UNCHANGED reminderVars
  BY <1>10 DEF reminderVars, FollowInv, ReminderTyped, OneEdit, ReminderFollowsDueDate, ReminderBusy,
               ReminderAt, EditSoFar, InStep
<1> QED
  BY <1>4, <1>5, <1>6, <1>7, <1>8, <1>9, <1>10 DEF ReminderNext

(* The invariant holds throughout.                                         *)
LEMMA FollowHolds == ReminderInit /\ [][ReminderNext]_reminderVars => []FollowInv
<1>1. FollowInv /\ [ReminderNext]_reminderVars => FollowInv'
  BY FollowStep
<1> QED
  BY <1>1, FollowInit, PTL

(* It needs no fairness of the job.                                        *)
LEMMA FollowSteps ==
  ReminderInit /\ [][ReminderNext]_reminderVars => []ReminderFollowsDueDate
<1>1. FollowInv => ReminderFollowsDueDate
  BY DEF FollowInv
<1> QED
  BY <1>1, FollowHolds, PTL

(* Between edits the reminder is as far ahead of the due date as it was    *)
(* set, whatever the job does meanwhile (repeat.js:60), unless two edits,  *)
(* or a restart, cut into each other.                                      *)
THEOREM RemindersMoveWithTheDate == ReminderSpec => []ReminderFollowsDueDate
BY FollowSteps, PTL DEF ReminderSpec

-----------------------------------------------------------------------------
(* A tick about to tell somebody found no notification that excludes it.   *)
Unsaid ==
  \A s \in Ticks : ReminderAt(s, "notify") =>
    \A u \in reminder_desk[s].to : ~Already(u, reminder_desk[s].at)

(* A tick that goes on alone tells nobody twice.                           *)
LEMMA TickTellsOnce ==
  ASSUME FollowInv, ToldOnce, Unsaid, \A s, o \in Ticks : s = o,
         NEW s \in Ticks, StartTick(s) \/ Tick(s)
  PROVE  ToldOnce' /\ Unsaid'
<1>1. PICK w : w = reminder_desk[s]
  OBVIOUS
<1>2. s \in ReminderSlots /\ w \in ReminderWork /\ told \in SUBSET Told /\ now \in Nat
  BY <1>1 DEF ReminderSlots, FollowInv, ReminderTyped
<1>3. ASSUME NEW v, ReminderBecome(s, v),
             v.pc = "notify" => \A u \in v.to : ~\E n \in told' : n.to = u /\ n.created >= v.at
      PROVE  Unsaid'
  <2>1. reminder_desk'[s] = v
    BY <1>2, <1>3 DEF ReminderBecome, FollowInv, ReminderTyped
  <2> QED
    BY <1>3, <2>1 DEF Unsaid, ReminderAt, Already
<1>4. CASE StartTick(s)
  <2>1. PICK v : v = [ReminderFree EXCEPT !.op = "tick", !.pc = "assignees", !.at = reminder]
    OBVIOUS
  <2>2. v.pc = "assignees"
    BY <2>1 DEF ReminderFree
  <2> QED
    BY <1>3, <1>4, <2>1, <2>2 DEF StartTick, ToldOnce
<1>5. CASE ReadAssignees(s)
  <2>1. PICK v : v = [w EXCEPT !.pc = "next", !.left = Assignees]
    OBVIOUS
  <2>2. v.pc = "next"
    BY <1>2, <2>1 DEF ReminderWork
  <2> QED
    BY <1>1, <1>3, <1>5, <2>1, <2>2 DEF ReadAssignees, ToldOnce
<1>6. CASE LookForNotification(s)
  <2>1. told' = told
    BY <1>6 DEF LookForNotification
  <2>2. CASE ReminderBecome(s, ReminderFree)
    BY <1>3, <2>1, <2>2, FreeRecord DEF ToldOnce
  <2>3. CASE ~ReminderBecome(s, ReminderFree)
    <3>1. PICK u \in w.left :
            ReminderBecome(s, IF Already(u, w.at) THEN [w EXCEPT !.left = @ \ {u}]
                              ELSE [w EXCEPT !.pc = "notify", !.left = @ \ {u}, !.to = {u}])
      BY <1>1, <1>6, <2>3 DEF LookForNotification
    <3>2. w.pc = "next"
      BY <1>1, <1>6 DEF LookForNotification, ReminderAt
    <3>3. PICK v : v = IF Already(u, w.at) THEN [w EXCEPT !.left = @ \ {u}]
                       ELSE [w EXCEPT !.pc = "notify", !.left = @ \ {u}, !.to = {u}]
      OBVIOUS
    <3>4. v.pc = "notify" => ~Already(u, w.at) /\ v.to = {u} /\ v.at = w.at
      BY <1>2, <3>2, <3>3 DEF ReminderWork
    <3> QED
      BY <1>3, <2>1, <3>1, <3>3, <3>4 DEF ToldOnce, Already
  <2> QED
    BY <2>2, <2>3
<1>7. CASE Notify(s)
  <2>1. PICK u \in w.to : told' = told \cup {[to |-> u, created |-> now, for |-> w.at]}
    BY <1>1, <1>7 DEF Notify
  <2>2. PICK m : m = [to |-> u, created |-> now, for |-> w.at]
    OBVIOUS
  <2>3. m.to = u /\ m.created \in Nat /\ m.for = w.at /\ w.at \in Nat
    BY <1>2, <2>2 DEF ReminderWork
  <2>4. \A n \in told : n.to = u => ~(n.created >= w.at)
    BY <1>1, <1>7 DEF Notify, Unsaid, Already
  <2>5. ToldOnce'
    BY <2>1, <2>2, <2>3, <2>4 DEF ToldOnce
  <2>6. PICK v : v = [w EXCEPT !.pc = "next", !.to = {}]
    OBVIOUS
  <2>7. v.pc = "next"
    BY <1>2, <2>6 DEF ReminderWork
  <2>8. Unsaid'
    BY <1>1, <1>3, <1>7, <2>6, <2>7 DEF Notify
  <2> QED
    BY <2>5, <2>8
<1> QED
  BY <1>4, <1>5, <1>6, <1>7 DEF Tick

(* Nothing else tells anybody or touches a tick about to.                  *)
LEMMA OthersTellNobody ==
  ASSUME FollowInv, ToldOnce, Unsaid, [ReminderNext]_reminderVars,
         ~\E s \in Ticks : StartTick(s) \/ Tick(s)
  PROVE  ToldOnce' /\ Unsaid'
<1>1. ASSUME UNCHANGED told,
             \A s \in Ticks : \/ reminder_desk'[s].pc = "free"
                              \/ /\ reminder_desk'[s].pc = reminder_desk[s].pc
                                 /\ reminder_desk'[s].to = reminder_desk[s].to
                                 /\ reminder_desk'[s].at = reminder_desk[s].at
      PROVE  ToldOnce' /\ Unsaid'
  BY <1>1 DEF ToldOnce, Unsaid, Already, ReminderAt
<1>2. reminder_desk \in [ReminderSlots -> ReminderWork] /\ Ticks \subseteq ReminderSlots
      /\ Ticks \cap Clients = {}
  BY ReminderAssumption DEF FollowInv, ReminderTyped, ReminderSlots
<1>3. CASE Clock \/ UNCHANGED reminderVars
  <2>1. UNCHANGED <<told, reminder_desk>>
    BY <1>3 DEF Clock, reminderVars
  <2> QED
    BY <1>1, <2>1
<1>4. CASE Crash
  BY <1>1, <1>2, <1>4, FreeRecord DEF Crash
<1>5. ASSUME NEW s \in Clients, StartRoll(s) \/ StartReplace(s) \/ Edit(s)
      PROVE  ToldOnce' /\ Unsaid'
  <2>1. CASE \E w : reminder_desk' = [reminder_desk EXCEPT ![s] = w]
    <3>1. \A t \in Ticks : reminder_desk'[t] = reminder_desk[t]
      BY <1>2, <2>1
    <3>2. UNCHANGED told
      BY <1>5 DEF StartRoll, StartReplace, Edit, ReadTask, WriteDates, ReadReminder, ShiftReminder,
                  DeleteReminder, InsertReminder
    <3> QED
      BY <1>1, <3>1, <3>2
  <2>2. CASE DeleteReminder(s)
    <3>1. ASSUME NEW t \in Ticks
          PROVE  /\ reminder_desk'[t].pc = reminder_desk[t].pc
                 /\ reminder_desk'[t].to = reminder_desk[t].to
                 /\ reminder_desk'[t].at = reminder_desk[t].at
      <4>1. PICK w : w = reminder_desk[t]
        OBVIOUS
      <4>2. reminder_desk'[t] = [w EXCEPT !.holds = FALSE] /\ w \in ReminderWork
        BY <1>2, <2>2, <4>1 DEF DeleteReminder
      <4> QED
        BY <4>1, <4>2 DEF ReminderWork
    <3>2. UNCHANGED told
      BY <2>2 DEF DeleteReminder
    <3> QED
      BY <1>1, <3>1, <3>2
  <2>3. CASE ~DeleteReminder(s)
    BY <1>5, <2>1, <2>3 DEF StartRoll, StartReplace, BeginEdit, Edit, ReadTask, WriteDates, ReadReminder,
                            ShiftReminder, InsertReminder, ReminderGoto, ReminderBecome
  <2> QED
    BY <2>2, <2>3
<1> QED
  BY <1>3, <1>4, <1>5 DEF ReminderNext

(* Nobody is told twice of one reminder, however many assignees and        *)
(* restarts there are and however the reminder moves, as long as one tick  *)
(* of the job runs at a time (cron.js:19).                                 *)
THEOREM NobodyIsToldTwice ==
  ASSUME \A s, o \in Ticks : s = o
  PROVE  ReminderSpec => []ToldOnce
<1>1. ReminderInit => ToldOnce /\ Unsaid
  <2> SUFFICES ASSUME ReminderInit PROVE ToldOnce /\ Unsaid
    OBVIOUS
  <2>1. told = {} /\ \A s \in Ticks : reminder_desk[s] = ReminderFree
    BY DEF ReminderInit, ReminderSlots
  <2> QED
    BY <2>1, FreeRecord DEF ToldOnce, Unsaid, ReminderAt
<1>2. FollowInv /\ (ToldOnce /\ Unsaid) /\ [ReminderNext]_reminderVars => (ToldOnce /\ Unsaid)'
  BY TickTellsOnce, OthersTellNobody
<1> QED
  BY <1>1, <1>2, FollowHolds, PTL DEF ReminderSpec
=============================================================================
