----------------------------- MODULE MCServices -----------------------------
(* Teams, views, time entries and reminders on small instances.            *)
EXTENDS Services

CONSTANTS a, b, c, t1, x, y

ThreeUsers == {a, b, c}
TwoUsers == {a, b}
OneTeam == {t1}
TwoClerks == {x, y}
OneClerk == {x}
OneClient == {y}
Distances == {0, 1}

(* Bound.  A torn team is not followed further.                            *)
Followed == ~torn
=============================================================================
