------------------------------ MODULE Services ------------------------------
(***************************************************************************)
(* Parts of the server that write no row of one another: teams, views,     *)
(* time entries and reminders.  A behaviour is one of them at work, which  *)
(* shows every state each can reach without multiplying them.              *)
(***************************************************************************)
EXTENDS Teams, Timers, ProjectViews, Reminders

VARIABLE part

Init ==
  /\ part \in {"teams", "timers", "views", "reminders"}
  /\ TeamInit /\ TimerInit /\ ViewInit /\ ReminderInit

Next ==
  /\ UNCHANGED part
  /\ \/ part = "teams" /\ TeamNext /\ UNCHANGED <<timerVars, viewVars, reminderVars>>
     \/ part = "timers" /\ TimerNext /\ UNCHANGED <<teamVars, viewVars, reminderVars>>
     \/ part = "views" /\ ViewNext /\ UNCHANGED <<teamVars, timerVars, reminderVars>>
     \/ part = "reminders" /\ ReminderNext /\ UNCHANGED <<teamVars, timerVars, viewVars>>

(* The job and its clients are fair where they are at work.                *)
AtWork(p) == part = p
Fairness ==
  /\ \A s \in Ticks : WF_reminderVars(AtWork("reminders") /\ Job(s))
  /\ \A s \in Clients : WF_reminderVars(AtWork("reminders") /\ Edit(s))

Spec == Init /\ [][Next]_<<part, teamVars, timerVars, viewVars, reminderVars>> /\ Fairness

-----------------------------------------------------------------------------
(* Where the job is at work, a reminder that has come due is sent, late    *)
(* rather than never (cron.js:22), unless the task is ticked off, the      *)
(* reminder moved or a day has passed, whatever restarts cut the job off.  *)
RemindersAreSent ==
  \A t \in Time \ {None}, u \in Assignees :
    AtWork("reminders") /\ CameDue(t) ~> SentOrMoved(t, u)
=============================================================================
