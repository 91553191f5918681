---------------------------- MODULE MCFileStore ----------------------------
(* The store of uploaded files on two small instances, one per value of    *)
(* alone: one handler at a time without faults on two projects, or two     *)
(* overlapping handlers, a failing step and a restart on one of them.      *)
EXTENDS FileStoreProps, TLC

CONSTANTS r1, r2, p1, p2, u1

OneRequest == {r1}
TwoRequests == {r1, r2}
OneProject == {p1}
TwoProjects == {p1, p2}
OneUser == {u1}
AllPictures == {p1, u1}

Interchangeable == Permutations(TwoRequests)

(* Two handlers that overlap keep to the project p1 and the user.          *)
Crowded ==
  \A r \in Requests : req[r].target \notin ({p2} \X Kinds) \cup {p2}

InstanceNext == ModeNext /\ (alone \/ Crowded')
InstanceSpec == ModeInit /\ [][InstanceNext]_<<vars, alone>>
=============================================================================
