------------------------------- MODULE Client -------------------------------
(***************************************************************************)
(* The two protocols of the web client that outlive a page: the session    *)
(* the tabs share, and the live feed of one tab, which asks the session    *)
(* for its token only as it connects.  A behaviour is one of them at work. *)
(***************************************************************************)
EXTENDS TabSessions, Feed

VARIABLE at_work

clientVars == <<at_work, vars, feedVars>>

ClientInit ==
  /\ at_work \in {"session", "feed"}
  /\ Init /\ FeedInit
  /\ at_work = "feed" => ~secure

ClientNext ==
  /\ UNCHANGED at_work
  /\ \/ at_work = "session" /\ Next /\ UNCHANGED feedVars
     \/ at_work = "feed" /\ FeedNext /\ UNCHANGED vars

(* The part that is not at work has nothing under way, so that fairness    *)
(* asks nothing of it.                                                     *)
ClientSpec == ClientInit /\ [][ClientNext]_clientVars /\ Fairness /\ FeedFairness
=============================================================================
