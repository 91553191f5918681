------------------------------ MODULE MCClient ------------------------------
(* Two tabs of one browser, and the feed of one of them with three         *)
(* connections in the making, in use or closing.                           *)
EXTENDS Client

CONSTANTS left, right, note, timer

TwoTabs == {left, right}
TwoSlots == {1, 2}
TwoEvents == {note, timer}
ThreeSockets == {"s1", "s2", "s3"}

(* Bound: a sign-out that overlaps GET user, or in which a renewal begins, *)
(* is not followed further, as what is checked exempts it.                 *)
Undisturbed == ~overtaken
=============================================================================
