------------------------------ MODULE MCBoard ------------------------------
(* The board on small instances.                                           *)
EXTENDS BoardProps, TLC

CONSTANTS r1, r2, j1

OneRequest == {r1}
TwoRequests == {r1, r2}
OneJob == {j1}

(* Handlers are interchangeable; used where only safety is checked.        *)
Interchangeable == Permutations(TwoRequests)

(* Bounds.  A second task is created beside creations and deletions, while *)
(* nothing is ticked off or repeats: a task is never read for another's    *)
(* sake, except for its number.                                            *)
Numbering == {"idle", "create_insert", "add_views", "place", "delete_write"}
SecondOnlyNumbered ==
  (\E t \in TaskIds \ {1} : Stored(t)) =>
    /\ \A r \in Procs : req[r].pc \in Numbering
    /\ \A t \in TaskIds : ~task[t].done /\ task[t].repeats = "never"

(* A single column, default or done column of all the boards has changed.  *)
FewChanges ==
  Cardinality({b \in BucketIds : bucket[b].state = "gone"})
    + Cardinality({v \in Views : view[v].default # 3 * v - 2})
    + Cardinality({v \in Views : view[v].done # 3 * v}) <= 1
=============================================================================
