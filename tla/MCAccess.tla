------------------------------ MODULE MCAccess ------------------------------
(* Owners, shares and account deletion on small instances.                 *)
EXTENDS AccessProps

CONSTANTS a, b, p, t, r1, job

JustB == {b}
JustA == {a}
TwoUsers == {a, b}
OneProject == {p}
OneTeam == {t}
OneRequest == {r1}
WriteOrAdmin == {WRITE, ADMIN}
=============================================================================
