--------------------------- MODULE MCProjectTree ---------------------------
(* The tree of projects with two handlers in flight.                       *)
EXTENDS ProjectTree

CONSTANTS r1, r2

TwoRequests == {r1, r2}
=============================================================================
