------------------------------ MODULE FileShelf ------------------------------
(***************************************************************************)
(* What users see of uploaded files, as one atomic step per request: an    *)
(* item of a project's storage or a task's attachments, a project's        *)
(* background, a user's avatar.  Whatever is seen can be opened, and a     *)
(* file that was taken away does not come back.                            *)
(***************************************************************************)
EXTENDS Naturals

CONSTANTS
  Files,    (* ids of files                                                *)
  Projects,
  Kinds,    (* the two kinds of items a project holds                      *)
  Users,
  Nowhere,
  Gone

Places == Projects \X Kinds
Slots == Projects \cup Users

VARIABLES
  item,     (* where a file is listed; Nowhere before, Gone after          *)
  slot,     (* the picture of a project or user, 0 for none                *)
  readable  (* files a reader gets in full                                 *)

shelf == <<item, slot, readable>>

Listed(f) == item[f] \in Places
Pictured(f) == \E s \in Slots : slot[s] = f
Seen == {f \in Files : Listed(f) \/ Pictured(f)}

Init ==
  /\ item = [f \in Files |-> Nowhere]
  /\ slot = [s \in Slots |-> 0]
  /\ readable = {}

Add(f, p) ==
  /\ item[f] = Nowhere
  /\ ~Pictured(f)
  /\ item' = [item EXCEPT ![f] = p]
  /\ readable' = readable \cup {f}
  /\ UNCHANGED slot

Remove(f) ==
  /\ Listed(f)
  /\ item' = [item EXCEPT ![f] = Gone]
  /\ readable' = readable \ {f}
  /\ UNCHANGED slot

(* A new picture takes the place of the old one in one step.               *)
Show(s, f) ==
  /\ item[f] = Nowhere
  /\ ~Pictured(f)
  /\ slot' = [slot EXCEPT ![s] = f]
  /\ readable' = (readable \ {slot[s]}) \cup {f}
  /\ UNCHANGED item

Hide(s) ==
  /\ slot' = [slot EXCEPT ![s] = 0]
  /\ readable' = readable \ {slot[s]}
  /\ UNCHANGED item

(* A project goes with everything it shows.                                *)
Holds(p, f) == Listed(f) /\ item[f][1] = p
Discard(p) ==
  /\ item' = [f \in Files |-> IF Holds(p, f) THEN Gone ELSE item[f]]
  /\ slot' = [slot EXCEPT ![p] = 0]
  /\ readable' = readable \ ({f \in Files : Holds(p, f)} \cup {slot[p]})

Next ==
  \/ \E f \in Files, p \in Places : Add(f, p)
  \/ \E f \in Files : Remove(f)
  \/ \E s \in Slots, f \in Files : Show(s, f)
  \/ \E s \in Slots : Hide(s)
  \/ \E p \in Projects : Discard(p)

Spec == Init /\ [][Next]_shelf
=============================================================================
