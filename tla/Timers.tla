------------------------------- MODULE Timers -------------------------------
(***************************************************************************)
(* Time tracking (routes/extras2.js): the time entries of one user, of     *)
(* which one without an end time is the running timer.  Starting one,      *)
(* stopping it, editing and deleting an entry, one action per awaited      *)
(* statement.                                                              *)
(***************************************************************************)
EXTENDS Naturals

CONSTANTS
  TimerClerks, (* slots for HTTP handlers in flight                        *)
  MaxEntry     (* bound on rows ever inserted into time_entries            *)

VARIABLES
  entry,      (* per id: none yet, running, ended, or gone                 *)
  timer_desk, (* the handlers in flight                                    *)
  timer_met,  (* history: two handlers have overlapped                     *)
  reopened    (* history: an edit has asked for an entry without an end    *)

timerVars == <<entry, timer_desk, timer_met, reopened>>

EntryIds == 1 .. MaxEntry
TimerFree == [op |-> "none", pc |-> "free", id |-> 0, end |-> "none"]

TimerInit ==
  /\ entry = [e \in EntryIds |-> "none"]
  /\ timer_desk = [c \in TimerClerks |-> TimerFree]
  /\ timer_met = FALSE
  /\ reopened = FALSE

TimerAt(c, pc) == timer_desk[c].pc = pc
TimerBecome(c, w) == timer_desk' = [timer_desk EXCEPT ![c] = w]
Running == {e \in EntryIds : entry[e] = "running"}
Kept == {e \in EntryIds : entry[e] \in {"running", "ended"}}

TimerStart(c, w) ==
  /\ TimerAt(c, "free")
  /\ TimerBecome(c, w)
  /\ timer_met' = (timer_met \/ \E o \in TimerClerks \ {c} : ~TimerAt(o, "free"))
  /\ UNCHANGED <<entry, reopened>>

-----------------------------------------------------------------------------
(* POST /time-entries, of a finished piece of work or of a timer.          *)

StartEntry(c) ==
  \E end \in {"running", "ended"} :
    TimerStart(c, [TimerFree EXCEPT !.op = "log", !.pc = "look", !.end = end])

(* Mutant: whether a timer runs is not asked.                              *)
LookAway(c) ==
  /\ TimerAt(c, "look")
  /\ TimerBecome(c, [timer_desk[c] EXCEPT !.pc = "insert"])
  /\ UNCHANGED <<entry, timer_met, reopened>>

LookForRunning(c) ==
  /\ TimerAt(c, "look")
  /\ TimerBecome(c, IF timer_desk[c].end = "running" /\ Running # {} THEN TimerFree
               ELSE [timer_desk[c] EXCEPT !.pc = "insert"])
  /\ UNCHANGED <<entry, timer_met, reopened>>

InsertEntry(c) ==
  /\ TimerAt(c, "insert")
  /\ \E e \in EntryIds :
       /\ entry[e] = "none" /\ \A f \in 1 .. (e - 1) : entry[f] # "none"
       /\ entry' = [entry EXCEPT ![e] = timer_desk[c].end]
  /\ TimerBecome(c, TimerFree)
  /\ UNCHANGED <<timer_met, reopened>>

-----------------------------------------------------------------------------
(* POST /time-entries/timer/stop: the latest running one.                  *)

StartStop(c) == TimerStart(c, [TimerFree EXCEPT !.op = "stop", !.pc = "find"])

FindRunning(c) ==
  /\ TimerAt(c, "find")
  /\ \/ Running = {} /\ TimerBecome(c, TimerFree)
     \/ \E e \in Running :
          /\ \A f \in Running : f <= e
          /\ TimerBecome(c, [timer_desk[c] EXCEPT !.pc = "stop", !.id = e])
  /\ UNCHANGED <<entry, timer_met, reopened>>

Stop(c) ==
  /\ TimerAt(c, "stop")
  /\ entry' = [entry EXCEPT ![timer_desk[c].id] = IF @ = "gone" THEN @ ELSE "ended"]
  /\ TimerBecome(c, TimerFree)
  /\ UNCHANGED <<timer_met, reopened>>

-----------------------------------------------------------------------------
(* PUT /time-entries/:entry writes all columns, those the body does not    *)
(* name as they were read; end_time null opens the entry again.            *)

StartEdit(c) ==
  \E e \in Kept, end \in {"keep", "ended", "running"} :
    TimerStart(c, [TimerFree EXCEPT !.op = "edit", !.pc = "read", !.id = e, !.end = end])

(* Mutant: an edit that does not name the end clears it.                   *)
ReadNothing(c) ==
  /\ TimerAt(c, "read")
  /\ TimerBecome(c, IF timer_desk[c].id \notin Kept THEN TimerFree
               ELSE [timer_desk[c] EXCEPT !.pc = "edit",
                                    !.end = IF @ = "keep" THEN "running" ELSE @])
  /\ UNCHANGED <<entry, timer_met, reopened>>

ReadEntry(c) ==
  /\ TimerAt(c, "read")
  /\ TimerBecome(c, IF timer_desk[c].id \notin Kept THEN TimerFree
               ELSE [timer_desk[c] EXCEPT !.pc = "edit",
                                    !.end = IF @ = "keep" THEN entry[timer_desk[c].id] ELSE @])
  /\ reopened' = (reopened \/ (timer_desk[c].end = "running" /\ timer_desk[c].id \notin Running))
  /\ UNCHANGED <<entry, timer_met>>

WriteEntry(c) ==
  /\ TimerAt(c, "edit")
  /\ entry' = [entry EXCEPT ![timer_desk[c].id] = IF @ = "gone" THEN @ ELSE timer_desk[c].end]
  /\ TimerBecome(c, TimerFree)
  /\ UNCHANGED <<timer_met, reopened>>

(* DELETE /time-entries/:entry, one statement.                             *)
DeleteEntry ==
  /\ \E e \in Kept : entry' = [entry EXCEPT ![e] = "gone"]
  /\ timer_met' = (timer_met \/ \E c \in TimerClerks : ~TimerAt(c, "free"))
  /\ UNCHANGED <<timer_desk, reopened>>

-----------------------------------------------------------------------------
TimerNext ==
  \/ \E c \in TimerClerks :
       \/ StartEntry(c) \/ LookForRunning(c) \/ InsertEntry(c)
       \/ StartStop(c) \/ FindRunning(c) \/ Stop(c)
       \/ StartEdit(c) \/ ReadEntry(c) \/ WriteEntry(c)
  \/ DeleteEntry

TimerSpec == TimerInit /\ [][TimerNext]_timerVars

-----------------------------------------------------------------------------
AtMostOne == \A e, f \in Running : e = f

(* At most one timer runs while handlers do not overlap and no edit opens  *)
(* an entry again ("A second running timer would make 'stop the timer'     *)
(* ambiguous", extras2.js:390).                                            *)
OneTimerRuns == ~timer_met /\ ~reopened => AtMostOne

(* The same, of every edit: the code does not ask when it opens an entry.  *)
OneTimerRunsAfterEdits == ~timer_met => AtMostOne

(* A stopped timer starts again only by an edit that asks for it, or by    *)
(* one that read it before it was stopped and writes back what it read.    *)
StoppedStaysStopped ==
  [][\A e \in EntryIds : entry[e] = "ended" /\ entry'[e] = "running" => timer_met \/ reopened]_timerVars
=============================================================================
