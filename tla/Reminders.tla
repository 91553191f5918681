----------------------------- MODULE Reminders -----------------------------
(***************************************************************************)
(* The reminder of one repeating task: the minute job that sends it to the *)
(* task's assignees (lib/cron.js, lib/notify.js), the roll that moves it   *)
(* with the due date when the task is ticked off (lib/repeat.js), and the  *)
(* client that replaces it (routes/taskDetail.js).  One action per awaited *)
(* statement; a tick of the job does not wait for the one before, and a    *)
(* second server may run the same schedule.  Time is a bounded clock.      *)
(***************************************************************************)
EXTENDS Naturals

CONSTANTS
  Assignees,
  Ticks,      (* slots for ticks of the job in flight                      *)
  Clients,    (* slots for HTTP handlers in flight                         *)
  Ahead,      (* how long before the due date reminders are set            *)
  Period,     (* repeat_after                                              *)
  Window,     (* the 24 hours after which a reminder is not sent           *)
  MaxTime,    (* bound on the clock                                        *)
  MaxCrashes  (* bound on server restarts                                  *)

ASSUME ReminderAssumption ==
  /\ Ticks \cap Clients = {}
  /\ Period \in Nat /\ Ahead \subseteq 0 .. Period

VARIABLES
  now,        (* the clock                                                 *)
  due,        (* due_date                                                  *)
  done,       (* tasks.done                                                *)
  reminder,   (* the time of the task's row in task_reminders, if any      *)
  told,       (* notifications: to whom, when created, for which time      *)
  reminder_desk, (* the handlers and ticks in flight                       *)
  ahead,      (* history: how far ahead the reminder was last set          *)
  crashes,
  edits_met   (* history: two changes of the reminder have overlapped      *)

reminderVars == <<now, due, done, reminder, told, reminder_desk, ahead, crashes, edits_met>>
history == <<ahead, crashes, edits_met>>

Time == 0 .. MaxTime
ReminderSlots == Ticks \cup Clients
None == 0
(* due, at: dates as read; holds: the row that was read is still there;    *)
(* left: assignees to tell; to: the one being told.                        *)
ReminderFree == [op |-> "none", pc |-> "free", due |-> None, at |-> None, holds |-> FALSE,
         left |-> {}, to |-> {}]

ReminderInit ==
  /\ now = 1
  /\ \E a \in Ahead : ahead = a
  /\ due = 1 + Period
  /\ reminder = due - ahead
  /\ done = FALSE
  /\ told = {}
  /\ reminder_desk = [s \in ReminderSlots |-> ReminderFree]
  /\ crashes = 0
  /\ edits_met = FALSE

ReminderAt(s, pc) == reminder_desk[s].pc = pc
ReminderBecome(s, w) == reminder_desk' = [reminder_desk EXCEPT ![s] = w]
ReminderGoto(s, pc) == ReminderBecome(s, [reminder_desk[s] EXCEPT !.pc = pc])
ReminderBusy(S) == \E s \in S : ~ReminderAt(s, "free")

(* A minute passes, whatever is in flight.                                 *)
Clock ==
  /\ now < MaxTime
  /\ now' = now + 1
  /\ UNCHANGED <<due, done, reminder, told, reminder_desk, history>>

-----------------------------------------------------------------------------
(* sendDueReminders                                                        *)

IsDue == reminder # None /\ reminder <= now /\ reminder + Window > now /\ ~done

StartTick(s) ==
  /\ s \in Ticks /\ ReminderAt(s, "free")
  /\ IsDue
  /\ ReminderBecome(s, [ReminderFree EXCEPT !.op = "tick", !.pc = "assignees", !.at = reminder])
  /\ UNCHANGED <<now, due, done, reminder, told, history>>

ReadAssignees(s) ==
  /\ ReminderAt(s, "assignees")
  /\ ReminderBecome(s, [reminder_desk[s] EXCEPT !.pc = "next", !.left = Assignees])
  /\ UNCHANGED <<now, due, done, reminder, told, history>>

(* Mutant: one notification settles every reminder of the task.            *)
EverTold(u, at) == \E n \in told : n.to = u

Already(u, at) == \E n \in told : n.to = u /\ n.created >= at

(* Mutant: a notification counts only if it is later than the reminder.    *)
LookForLater(s) ==
  LET w == reminder_desk[s] IN
  /\ ReminderAt(s, "next")
  /\ \/ w.left = {} /\ ReminderBecome(s, ReminderFree)
     \/ \E u \in w.left :
          ReminderBecome(s, IF \E n \in told : n.to = u /\ n.created > w.at
                    THEN [w EXCEPT !.left = @ \ {u}]
                    ELSE [w EXCEPT !.pc = "notify", !.left = @ \ {u}, !.to = {u}])
  /\ UNCHANGED <<now, due, done, reminder, told, history>>

LookForNotification(s) ==
  LET w == reminder_desk[s] IN
  /\ ReminderAt(s, "next")
  /\ \/ w.left = {} /\ ReminderBecome(s, ReminderFree)
     \/ \E u \in w.left :
          ReminderBecome(s, IF Already(u, w.at) THEN [w EXCEPT !.left = @ \ {u}]
                    ELSE [w EXCEPT !.pc = "notify", !.left = @ \ {u}, !.to = {u}])
  /\ UNCHANGED <<now, due, done, reminder, told, history>>

(* notify: the row; what it pushes and mails after that is not read again. *)
Notify(s) ==
  /\ ReminderAt(s, "notify")
  /\ \E u \in reminder_desk[s].to :
       told' = told \cup {[to |-> u, created |-> now, for |-> reminder_desk[s].at]}
  /\ ReminderBecome(s, [reminder_desk[s] EXCEPT !.pc = "next", !.to = {}])
  /\ UNCHANGED <<now, due, done, reminder, history>>

-----------------------------------------------------------------------------
(* The task is ticked off and rolled, or its reminders are replaced.       *)
(* Bound: no more edits once two have cut into each other.                 *)

BeginEdit(s, w) ==
  /\ s \in Clients /\ ReminderAt(s, "free") /\ ~edits_met
  /\ ReminderBecome(s, w)
  /\ edits_met' = (edits_met \/ ReminderBusy(Clients \ {s}))

StartRoll(s) ==
  /\ BeginEdit(s, [ReminderFree EXCEPT !.op = "roll", !.pc = "read_task"])
  /\ due + Period <= MaxTime
  /\ done' = TRUE
  /\ UNCHANGED <<now, due, reminder, told, ahead, crashes>>

ReadTask(s) ==
  /\ ReminderAt(s, "read_task")
  /\ ReminderBecome(s, [reminder_desk[s] EXCEPT !.pc = "write_dates", !.due = due])
  /\ UNCHANGED <<now, due, done, reminder, told, history>>

(* Mutant: the dates move, the reminders stay.                             *)
WriteDatesOnly(s) ==
  /\ ReminderAt(s, "write_dates")
  /\ due' = reminder_desk[s].due + Period
  /\ done' = FALSE
  /\ ReminderBecome(s, ReminderFree)
  /\ UNCHANGED <<now, reminder, told, history>>

WriteDates(s) ==
  /\ ReminderAt(s, "write_dates")
  /\ due' = reminder_desk[s].due + Period
  /\ done' = FALSE
  /\ ReminderGoto(s, "read_reminder")
  /\ UNCHANGED <<now, reminder, told, history>>

ReadReminder(s) ==
  /\ ReminderAt(s, "read_reminder")
  /\ ReminderBecome(s, IF reminder = None THEN ReminderFree
               ELSE [reminder_desk[s] EXCEPT !.pc = "shift", !.holds = TRUE, !.at = reminder])
  /\ UNCHANGED <<now, due, done, reminder, told, history>>

ShiftReminder(s) ==
  /\ ReminderAt(s, "shift")
  /\ reminder' = IF reminder_desk[s].holds THEN reminder_desk[s].at + Period ELSE reminder
  /\ ReminderBecome(s, ReminderFree)
  /\ UNCHANGED <<now, due, done, told, history>>

StartReplace(s) ==
  /\ \E a \in Ahead :
       BeginEdit(s, [ReminderFree EXCEPT !.op = "replace", !.pc = "delete", !.at = due - a])
  /\ UNCHANGED <<now, due, done, reminder, told, ahead, crashes>>

DeleteReminder(s) ==
  /\ ReminderAt(s, "delete")
  /\ reminder' = None
  /\ reminder_desk' = [x \in ReminderSlots |-> IF x = s THEN [reminder_desk[s] EXCEPT !.pc = "insert"]
                              ELSE [reminder_desk[x] EXCEPT !.holds = FALSE]]
  /\ UNCHANGED <<now, due, done, told, history>>

InsertReminder(s) ==
  /\ ReminderAt(s, "insert")
  /\ reminder' = reminder_desk[s].at
  /\ ahead' = due - reminder_desk[s].at
  /\ ReminderBecome(s, ReminderFree)
  /\ UNCHANGED <<now, due, done, told, crashes, edits_met>>

Crash ==
  /\ crashes < MaxCrashes
  /\ ReminderBusy(ReminderSlots)
  /\ crashes' = crashes + 1
  /\ edits_met' = (edits_met \/ ReminderBusy(Clients))
  /\ reminder_desk' = [s \in ReminderSlots |-> ReminderFree]
  /\ UNCHANGED <<now, due, done, reminder, told, ahead>>

-----------------------------------------------------------------------------
Tick(s) == ReadAssignees(s) \/ LookForNotification(s) \/ Notify(s)
Edit(s) ==
  \/ ReadTask(s) \/ WriteDates(s) \/ ReadReminder(s) \/ ShiftReminder(s)
  \/ DeleteReminder(s) \/ InsertReminder(s)

ReminderNext ==
  \/ Clock \/ Crash
  \/ \E s \in Ticks : StartTick(s) \/ Tick(s)
  \/ \E s \in Clients : StartRoll(s) \/ StartReplace(s) \/ Edit(s)

(* The job runs every minute; a statement that was issued is answered.     *)
Job(s) == StartTick(s) \/ Tick(s)
ReminderFairness ==
  /\ \A s \in Ticks : WF_reminderVars(Job(s))
  /\ \A s \in Clients : WF_reminderVars(Edit(s))

ReminderSpec == ReminderInit /\ [][ReminderNext]_reminderVars /\ ReminderFairness

-----------------------------------------------------------------------------
(* Nobody is told twice of one reminder: a notification excludes another   *)
(* to the same user for a reminder it is not older than (cron.js:19).  The *)
(* job's comment says so of several instances too (cron.js:11); it holds   *)
(* of ticks that do not overlap.                                           *)
ToldOnce ==
  \A n, m \in told : n.to = m.to /\ n # m => ~(n.created >= m.for /\ m.created >= n.for)

CameDue(t) == IsDue /\ reminder = t
SentOrMoved(t, u) == (\E n \in told : n.to = u /\ n.created >= t) \/ ~CameDue(t)

(* Between edits the reminder is as far ahead of the due date as it was    *)
(* set ("Reminders move with the dates they were set against",             *)
(* repeat.js:60), unless two of them, or a restart, cut into each other.   *)
ReminderFollowsDueDate ==
  ~edits_met /\ ~ReminderBusy(Clients) => reminder # None /\ reminder + ahead = due
=============================================================================
