-------------------------- MODULE ProjectTreeProofs --------------------------
(***************************************************************************)
(* Proofs about the tree of projects, for any number of handlers and       *)
(* projects: the types, and that no loop closes unless two moves overlap,  *)
(* whatever is created, deleted or cascaded while a cycle check walks.     *)
(***************************************************************************)
EXTENDS ProjectTree, TLAPS

(* The ids handed out so far, and the places a parent can be.              *)
Issued == 1 .. issued
Known == Issued \cup {Root}

(* Rows name earlier rows only, and a handler only what it has read.       *)
Reads(w) ==
  /\ w.op = "none" <=> w.pc = "idle"
  /\ w.op = "move" <=> w.pc \in {"may_write", "walk", "write"}
  /\ w.pc = "insert" => w.to \in Known
  /\ w.pc = "children" => w.it \in Issued
  /\ w.op = "move" => w.it \in Issued /\ w.to # w.it
  /\ w.pc = "may_write" => w.at = Root /\ w.seen = {}
  /\ w.pc \in {"walk", "write"} => w.to \in Known
  /\ w.pc = "walk" => w.at \in Known /\ w.seen \subseteq Issued

TreeTyped ==
  /\ TreeTypeOK
  /\ \A p \in Ids : parent[p] \in Known
  /\ \A r \in Requests : Reads(work[r])

(* Of overlapping moves the history has a note.                            *)
OneMove ==
  ~moves_met => \A r, s \in Requests : work[r].op = "move" /\ work[s].op = "move" => r = s

(* The projects S are above `to' up to `at', and p is not among them.      *)
Above(S, to, at) ==
  /\ S \subseteq Issued
  /\ to \in S \cup {at}
  /\ \A p \in S : parent[p] \in S \cup {at, Root}

(* What a cycle check has seen so far still is what is above the new       *)
(* parent, and once it is over that does not include the project.          *)
WalkHolds ==
  ~moves_met => \A r \in Requests :
    /\ work[r].pc = "walk" => /\ Above(work[r].seen, work[r].to, work[r].at)
                              /\ work[r].it \notin work[r].seen
    /\ work[r].pc = "write" => \E S \in SUBSET Issued : Above(S, work[r].to, Root) /\ work[r].it \notin S

TreeInv == TreeTyped /\ OneMove /\ WalkHolds /\ LoopNeedsCrossedMoves

-----------------------------------------------------------------------------
(* The idle record is well-typed and has read nothing.                     *)
LEMMA IdleWork == Idle \in Work /\ Reads(Idle) /\ Idle.op = "none" /\ Idle.pc = "idle"
BY DEF Idle, Work, Reads, Place, Root

(* The initial state: projects side by side.                               *)
LEMMA TreeInitInv == TreeInit => TreeInv
<1> SUFFICES ASSUME TreeInit PROVE TreeInv
  OBVIOUS
<1>1. \A r \in Requests : work[r] = Idle
  BY DEF TreeInit
<1>2. /\ project = 1 .. issued /\ issued \in Place /\ project \subseteq Ids /\ Root \notin project
      /\ \A p \in Ids : parent[p] = Root
  BY TreeAssumption DEF TreeInit, Ids, Place, Root
<1>3. TreeTyped
  <2>1. parent \in [Ids -> Place] /\ work \in [Requests -> Work]
    BY IdleWork DEF TreeInit, Place
  <2>2. moves_met \in BOOLEAN /\ delete_met \in BOOLEAN
    BY DEF TreeInit
  <2> QED
    BY <1>1, <1>2, <2>1, <2>2, IdleWork DEF TreeTyped, TreeTypeOK, Known
<1>4. Acyclic
  BY <1>2 DEF Acyclic
<1>5. OneMove /\ WalkHolds
  BY <1>1, IdleWork DEF OneMove, WalkHolds
<1> QED
  BY <1>3, <1>4, <1>5 DEF TreeInv, LoopNeedsCrossedMoves

(* Rewriting the record of one handler.                                    *)
LEMMA WorkAfter ==
  ASSUME TreeTypeOK, NEW r \in Requests, NEW w \in Work, work' = [work EXCEPT ![r] = w]
  PROVE  /\ work' \in [Requests -> Work]
         /\ \A s \in Requests : work'[s] = IF s = r THEN w ELSE work[s]
BY DEF TreeTypeOK

(* A handler starts.                                                       *)
LEMMA TreeStartKeeps ==
  ASSUME TreeInv, NEW r \in Requests, NEW w \in Work, Reads(w), Start(r, w),
         w.pc \in {"insert", "may_write", "children", "cascade"} \/ (w.pc = "write" /\ w.to = Root)
  PROVE  TreeInv'
<1>1. work' = [work EXCEPT ![r] = w] /\ work[r].pc = "idle" /\ UNCHANGED <<project, parent, issued>>
  BY DEF Start, tree
<1>2. /\ work' \in [Requests -> Work]
      /\ \A s \in Requests : work'[s] = IF s = r THEN w ELSE work[s]
  BY <1>1, WorkAfter DEF TreeInv, TreeTyped
<1>3. /\ moves_met' \in BOOLEAN /\ delete_met' \in BOOLEAN
      /\ ~moves_met' => ~moves_met /\ (w.op = "move" => \A s \in Requests : work[s].op # "move")
  BY DEF Start, InFlight, TreeInv, TreeTyped, TreeTypeOK
<1>4. TreeTyped'
  BY <1>1, <1>2, <1>3 DEF TreeInv, TreeTyped, TreeTypeOK, Known, Issued, Reads
<1>5. OneMove'
  BY <1>2, <1>3 DEF TreeInv, OneMove
<1>6. ASSUME NEW S, NEW to, NEW at PROVE Above(S, to, at)' = Above(S, to, at)
  BY <1>1 DEF Above, Issued
<1>7. w.pc = "write" => \E S \in SUBSET Issued : Above(S, w.to, Root) /\ w.it \notin S
  <2>1. w.pc = "write" => Above({}, w.to, Root)
    BY DEF Above
  <2> QED
    BY <2>1
<1>8. WalkHolds'
  BY <1>1, <1>2, <1>3, <1>6, <1>7 DEF TreeInv, WalkHolds, Issued
<1>9. LoopNeedsCrossedMoves'
  BY <1>1, <1>3 DEF TreeInv, LoopNeedsCrossedMoves, Acyclic
<1> QED
  BY <1>4, <1>5, <1>8, <1>9 DEF TreeInv

(* A handler reads and goes on, or is refused: the tree stays.             *)
LEMMA TreeReadKeeps ==
  ASSUME TreeInv, NEW r \in Requests, NEW w \in Work, Reads(w), work' = [work EXCEPT ![r] = w],
         UNCHANGED <<project, parent, issued, moves_met, delete_met>>,
         w.op = "move" => work[r].op = "move",
         ~moves_met /\ w.pc = "walk" => Above(w.seen, w.to, w.at) /\ w.it \notin w.seen,
         ~moves_met /\ w.pc = "write" => \E S \in SUBSET Issued : Above(S, w.to, Root) /\ w.it \notin S
  PROVE  TreeInv'
<1>1. /\ work' \in [Requests -> Work]
      /\ \A s \in Requests : work'[s] = IF s = r THEN w ELSE work[s]
  BY WorkAfter DEF TreeInv, TreeTyped
<1>2. TreeTyped'
  BY <1>1 DEF TreeInv, TreeTyped, TreeTypeOK, Known, Issued, Reads
<1>3. OneMove'
  BY <1>1 DEF TreeInv, OneMove
<1>4. ASSUME NEW S, NEW to, NEW at PROVE Above(S, to, at)' = Above(S, to, at)
  BY DEF Above, Issued
<1>5. WalkHolds'
  BY <1>1, <1>4 DEF TreeInv, WalkHolds, Issued
<1>6. LoopNeedsCrossedMoves'
  BY DEF TreeInv, LoopNeedsCrossedMoves, Acyclic
<1> QED
  BY <1>2, <1>3, <1>5, <1>6 DEF TreeInv

(* A new project is nobody's parent: it hangs below what is there, and     *)
(* above nothing a cycle check has seen.                                   *)
LEMMA InsertKeeps ==
  ASSUME TreeInv, NEW r \in Requests, InsertProject(r)
  PROVE  TreeInv'
<1>0. PICK new : new = issued + 1
  OBVIOUS
<1>1. /\ issued < MaxProject /\ work[r].pc = "insert" /\ work' = [work EXCEPT ![r] = Idle]
      /\ issued' = new /\ project' = project \cup {new}
      /\ parent' = [parent EXCEPT ![new] = work[r].to]
      /\ UNCHANGED <<moves_met, delete_met>>
  BY <1>0 DEF InsertProject, Done, Step, history
<1>2. /\ issued \in Nat /\ MaxProject \in Nat /\ new \in Ids /\ new \notin Issued /\ Issued' = Issued \cup {new}
      /\ work[r].to \in Known /\ new \notin Known /\ project \subseteq Issued
      /\ new \in Nat \ {0}
  BY <1>0, <1>1, TreeAssumption DEF TreeInv, TreeTyped, TreeTypeOK, Reads, Known, Issued, Place, Ids, Root
<1>3. /\ work' \in [Requests -> Work]
      /\ \A s \in Requests : work'[s] = IF s = r THEN Idle ELSE work[s]
  BY <1>1, IdleWork, WorkAfter DEF TreeInv, TreeTyped
<1>4. /\ parent' \in [Ids -> Place]
      /\ \A p \in Ids : parent'[p] = IF p = new THEN work[r].to ELSE parent[p]
  BY <1>1, <1>2 DEF TreeInv, TreeTyped, TreeTypeOK, Known, Issued, Place, Ids
<1>5. ASSUME NEW w, Reads(w) PROVE Reads(w)'
  BY <1>2, <1>5 DEF Reads, Known
<1>6. TreeTyped'
  BY <1>1, <1>2, <1>3, <1>4, <1>5, IdleWork DEF TreeInv, TreeTyped, TreeTypeOK, Known, Issued, Place, Ids
<1>7. OneMove'
  BY <1>1, <1>3, IdleWork DEF TreeInv, OneMove
<1>8. ASSUME NEW S, NEW to, NEW at, Above(S, to, at) PROVE Above(S, to, at)'
  <2>1. \A p \in S : p \in Ids /\ p # new
    BY <1>2, <1>8, TreeAssumption DEF Above, Issued, TreeInv, TreeTyped, TreeTypeOK, Ids, Place, Root
  <2> QED
    BY <1>2, <1>4, <1>8, <2>1 DEF Above
<1>9. WalkHolds'
  BY <1>1, <1>2, <1>3, <1>8, IdleWork DEF TreeInv, WalkHolds
<1>10. Acyclic => Acyclic'
  <2> SUFFICES ASSUME Acyclic, NEW S \in SUBSET (project \cup {new}), S # {},
                      \A p \in S : parent'[p] \in S
               PROVE  FALSE
    BY <1>1 DEF Acyclic
  <2>1. \A p \in S \ {new} : parent'[p] = parent[p] /\ parent[p] # new
    BY <1>2, <1>4, TreeAssumption DEF TreeInv, TreeTyped, TreeTypeOK, Known, Issued, Ids, Place, Root
  <2>2. \A p \in S \ {new} : parent[p] \in S \ {new}
    BY <2>1
  <2>3. new \in S => work[r].to \in S \ {new}
    BY <1>2, <1>4
  <2>4. S \ {new} # {} /\ S \ {new} \in SUBSET project
    BY <2>3
  <2> QED
    BY <2>2, <2>4 DEF Acyclic
<1>11. LoopNeedsCrossedMoves'
  BY <1>1, <1>10 DEF TreeInv, LoopNeedsCrossedMoves
<1> QED
  BY <1>6, <1>7, <1>9, <1>11 DEF TreeInv

(* A project goes: what it was above is at the top now.                    *)
LEMMA CascadeKeeps ==
  ASSUME TreeInv, NEW r \in Requests, Cascade(r)
  PROVE  TreeInv'
<1>1. PICK p \in work[r].todo :
        /\ project' = project \ {p} /\ parent' = [parent EXCEPT ![p] = Root]
        /\ UNCHANGED <<issued, moves_met, delete_met>> /\ work[r].pc = "cascade"
        /\ work' = [work EXCEPT ![r] = IF work[r].todo \ {p} = {} THEN Idle
                                       ELSE [work[r] EXCEPT !.todo = work[r].todo \ {p}]]
  BY DEF Cascade, Done, Step, history
<1>2. work[r] \in Work /\ Reads(work[r]) /\ p \in Ids
  BY DEF TreeInv, TreeTyped, TreeTypeOK, Work
<1> DEFINE w == IF work[r].todo \ {p} = {} THEN Idle ELSE [work[r] EXCEPT !.todo = work[r].todo \ {p}]
<1>3. w \in Work /\ Reads(w) /\ w.op # "move" /\ w.pc \notin {"walk", "write"}
  BY <1>1, <1>2, IdleWork DEF Work, Reads
<1>4. work' = [work EXCEPT ![r] = w]
  BY <1>1
<1> HIDE DEF w
<1>5. /\ work' \in [Requests -> Work]
      /\ \A s \in Requests : work'[s] = IF s = r THEN w ELSE work[s]
  BY <1>3, <1>4, WorkAfter DEF TreeInv, TreeTyped
<1>6. /\ parent' \in [Ids -> Place]
      /\ \A q \in Ids : parent'[q] = IF q = p THEN Root ELSE parent[q]
  BY <1>1, <1>2 DEF TreeInv, TreeTyped, TreeTypeOK, Place
<1>7. TreeTyped'
  BY <1>1, <1>3, <1>5, <1>6 DEF TreeInv, TreeTyped, TreeTypeOK, Known, Issued, Reads
<1>8. OneMove'
  BY <1>1, <1>3, <1>5 DEF TreeInv, OneMove
<1>9. ASSUME NEW S, NEW to, NEW at, Above(S, to, at) PROVE Above(S, to, at)'
  <2>1. S \subseteq Ids
    BY <1>9, TreeAssumption DEF Above, Issued, TreeInv, TreeTyped, TreeTypeOK, Ids, Place, Root
  <2> QED
    BY <1>1, <1>6, <1>9, <2>1 DEF Above, Issued
<1>10. WalkHolds'
  BY <1>1, <1>3, <1>5, <1>9 DEF TreeInv, WalkHolds, Issued
<1>11. Acyclic => Acyclic'
  <2> SUFFICES ASSUME Acyclic, NEW S \in SUBSET (project \ {p}), S # {},
                      \A q \in S : parent'[q] \in S
               PROVE  FALSE
    BY <1>1 DEF Acyclic
  <2>1. \A q \in S : parent'[q] = parent[q]
    BY <1>6, TreeAssumption DEF TreeInv, TreeTyped, TreeTypeOK, Ids, Place, Root
  <2> QED
    BY <2>1 DEF Acyclic
<1>12. LoopNeedsCrossedMoves'
  BY <1>1, <1>11 DEF TreeInv, LoopNeedsCrossedMoves
<1> QED
  BY <1>7, <1>8, <1>10, <1>12 DEF TreeInv

(* A project is put below `to': a loop through it would lie within what is *)
(* above `to', which does not include it.                                  *)
LEMMA WriteParentKeeps ==
  ASSUME TreeInv, NEW r \in Requests, WriteParent(r)
  PROVE  TreeInv'
<1>0. PICK it, to : it = work[r].it /\ to = work[r].to
  OBVIOUS
<1>1. /\ work[r].pc = "write" /\ work' = [work EXCEPT ![r] = Idle]
      /\ parent' = IF it \in project THEN [parent EXCEPT ![it] = to] ELSE parent
      /\ UNCHANGED <<project, issued, moves_met, delete_met>>
  BY <1>0 DEF WriteParent, Done, Step, history
<1>2. /\ it \in Issued /\ to \in Known /\ to # it /\ work[r].op = "move" /\ it \in Ids
      /\ project \subseteq Ids /\ Root \notin Ids /\ Issued \subseteq Ids /\ to \in Place
  BY <1>0, <1>1, TreeAssumption DEF TreeInv, TreeTyped, TreeTypeOK, Reads, Known, Issued, Ids, Place, Root
<1>3. /\ work' \in [Requests -> Work]
      /\ \A s \in Requests : work'[s] = IF s = r THEN Idle ELSE work[s]
  BY <1>1, IdleWork, WorkAfter DEF TreeInv, TreeTyped
<1>4. /\ parent' \in [Ids -> Place]
      /\ \A p \in Ids : parent'[p] = IF p = it /\ it \in project THEN to ELSE parent[p]
  BY <1>1, <1>2 DEF TreeInv, TreeTyped, TreeTypeOK
<1>5. TreeTyped'
  BY <1>1, <1>2, <1>3, <1>4, IdleWork DEF TreeInv, TreeTyped, TreeTypeOK, Known, Issued, Reads
<1>6. OneMove'
  BY <1>1, <1>3, IdleWork DEF TreeInv, OneMove
<1>7. WalkHolds'
  <2>1. ~moves_met => \A s \in Requests \ {r} : work[s].op # "move"
    BY <1>2 DEF TreeInv, OneMove
  <2>2. ~moves_met => \A s \in Requests : work'[s].pc \notin {"walk", "write"}
    BY <1>3, <2>1, IdleWork DEF TreeInv, TreeTyped, Reads
  <2> QED
    BY <1>1, <2>2 DEF WalkHolds
<1>8. ~moves_met => Acyclic'
  <2> SUFFICES ASSUME ~moves_met, NEW C \in SUBSET project, C # {},
                      \A p \in C : parent'[p] \in C
               PROVE  FALSE
    BY <1>1 DEF Acyclic
  <2>1. Acyclic
    BY DEF TreeInv, LoopNeedsCrossedMoves
  <2>2. PICK S \in SUBSET Issued : Above(S, to, Root) /\ it \notin S
    BY <1>0, <1>1 DEF TreeInv, WalkHolds
  <2>3. it \in C
    <3>1. it \notin C => \A p \in C : parent[p] \in C
      BY <1>2, <1>4
    <3> QED
      BY <2>1, <3>1 DEF Acyclic
  <2>4. to \in C \cap S
    BY <1>2, <1>4, <2>2, <2>3 DEF Above
  <2>5. \A p \in C \cap S : parent[p] \in C \cap S
    BY <1>2, <1>4, <2>2 DEF Above
  <2> QED
    BY <2>1, <2>4, <2>5 DEF Acyclic
<1>9. LoopNeedsCrossedMoves'
  BY <1>1, <1>8 DEF TreeInv, LoopNeedsCrossedMoves
<1> QED
  BY <1>5, <1>6, <1>7, <1>9 DEF TreeInv

(* A turn of the cycle check adds a project to those seen, or ends it.     *)
LEMMA WalkKeeps ==
  ASSUME TreeInv, NEW r \in Requests, Walk(r)
  PROVE  TreeInv'
<1>0. PICK at : at = work[r].at
  OBVIOUS
<1>1. /\ work[r].pc = "walk" /\ work[r].op = "move" /\ UNCHANGED <<project, parent, issued, moves_met, delete_met>>
      /\ work[r] \in Work /\ Reads(work[r])
  BY DEF Walk, Done, Step, tree, history, TreeInv, TreeTyped, TreeTypeOK, Reads
<1>2. ~moves_met => Above(work[r].seen, work[r].to, at) /\ work[r].it \notin work[r].seen
  BY <1>0, <1>1 DEF TreeInv, WalkHolds
<1>3. /\ work[r].seen \subseteq Issued /\ at \in Known /\ Issued \subseteq Ids /\ work[r].it \in Issued
      /\ work[r].to \in Known
  BY <1>0, <1>1, TreeAssumption DEF Reads, Issued, TreeInv, TreeTyped, TreeTypeOK, Ids, Place, Root
<1>4. CASE work' = [work EXCEPT ![r] = Idle]
  BY <1>1, <1>4, IdleWork, TreeReadKeeps
<1>5. CASE at = Root /\ work' = [work EXCEPT ![r] = [work[r] EXCEPT !.pc = "write", !.at = Root, !.seen = {}]]
  <2> DEFINE w == [work[r] EXCEPT !.pc = "write", !.at = Root, !.seen = {}]
  <2>1. /\ w \in Work /\ Reads(w) /\ w.pc = "write" /\ w.op = "move"
        /\ w.it = work[r].it /\ w.to = work[r].to
    BY <1>1, <1>3 DEF Work, Reads, Place
  <2>2. work' = [work EXCEPT ![r] = w]
    BY <1>5
  <2> HIDE DEF w
  <2>3. ~moves_met => \E S \in SUBSET Issued : Above(S, w.to, Root) /\ w.it \notin S
    BY <1>2, <1>3, <1>5, <2>1
  <2> QED
    BY <1>1, <2>1, <2>2, <2>3, TreeReadKeeps
<1>6. CASE /\ at \notin work[r].seen \cup {Root, work[r].it}
           /\ work' = [work EXCEPT ![r] = [work[r] EXCEPT !.at = parent[at], !.seen = work[r].seen \cup {at}]]
  <2> DEFINE w == [work[r] EXCEPT !.at = parent[at], !.seen = work[r].seen \cup {at}]
  <2>1. at \in Issued /\ parent[at] \in Known /\ parent[at] \in Place
    BY <1>3, <1>6 DEF Known, TreeInv, TreeTyped, TreeTypeOK
  <2>2. /\ w \in Work /\ w.pc = "walk" /\ w.op = "move" /\ w.it = work[r].it /\ w.to = work[r].to
        /\ w.at = parent[at] /\ w.seen = work[r].seen \cup {at}
    BY <1>1, <1>3, <2>1 DEF Work
  <2>3. work' = [work EXCEPT ![r] = w]
    BY <1>6
  <2> HIDE DEF w
  <2>4. Reads(w)
    BY <1>1, <1>3, <2>1, <2>2 DEF Reads
  <2>5. ~moves_met => Above(w.seen, w.to, w.at) /\ w.it \notin w.seen
    BY <1>2, <1>3, <1>6, <2>1, <2>2 DEF Above
  <2> QED
    BY <1>1, <2>2, <2>3, <2>4, <2>5, TreeReadKeeps
<1> QED
  BY <1>0, <1>4, <1>5, <1>6 DEF Walk, Done, Step

-----------------------------------------------------------------------------
(* Every step keeps the invariant.                                         *)
LEMMA TreeStep ==
  ASSUME TreeInv, [TreeNext]_treeVars
  PROVE  TreeInv'
<1>0. /\ project \subseteq Issued /\ Issued \subseteq Ids
      /\ \A r \in Requests : work[r] \in Work /\ Reads(work[r])
  BY TreeAssumption DEF TreeInv, TreeTyped, TreeTypeOK, Issued, Ids, Place, Root
<1>1. ASSUME NEW r \in Requests, StartCreate(r) PROVE TreeInv'
  <2>1. PICK to \in project \cup {Root} : Start(r, [Idle EXCEPT !.op = "create", !.pc = "insert", !.to = to])
    BY <1>1 DEF StartCreate
  <2> DEFINE w == [Idle EXCEPT !.op = "create", !.pc = "insert", !.to = to]
  <2>2. w \in Work /\ Reads(w) /\ w.pc = "insert"
    BY <1>0 DEF Idle, Work, Reads, Place, Known
  <2>3. Start(r, w)
    BY <2>1
  <2> HIDE DEF w
  <2> QED
    BY <2>2, <2>3, TreeStartKeeps
<1>2. ASSUME NEW r \in Requests, StartMove(r) PROVE TreeInv'
  <2>0. PICK p \in project : \E to \in Place \ {p} :
          Start(r, [Idle EXCEPT !.op = "move", !.it = p, !.to = to,
                                !.pc = IF to = Root THEN "write" ELSE "may_write"])
    BY <1>2 DEF StartMove
  <2>1. PICK to \in Place \ {p} :
          Start(r, [Idle EXCEPT !.op = "move", !.it = p, !.to = to,
                                !.pc = IF to = Root THEN "write" ELSE "may_write"])
    BY <2>0
  <2> DEFINE w == [Idle EXCEPT !.op = "move", !.it = p, !.to = to,
                               !.pc = IF to = Root THEN "write" ELSE "may_write"]
  <2>2. /\ w \in Work /\ Reads(w)
        /\ w.pc = "may_write" \/ (w.pc = "write" /\ w.to = Root)
    BY <1>0 DEF Idle, Work, Reads, Place, Known
  <2>3. Start(r, w)
    BY <2>1
  <2> HIDE DEF w
  <2> QED
    BY <2>2, <2>3, TreeStartKeeps
<1>3. ASSUME NEW r \in Requests, StartDelete(r) PROVE TreeInv'
  <2>1. PICK p \in project : Start(r, [Idle EXCEPT !.op = "delete", !.pc = "children", !.it = p])
    BY <1>3 DEF StartDelete
  <2> DEFINE w == [Idle EXCEPT !.op = "delete", !.pc = "children", !.it = p]
  <2>2. w \in Work /\ Reads(w) /\ w.pc = "children"
    BY <1>0 DEF Idle, Work, Reads, Place
  <2>3. Start(r, w)
    BY <2>1
  <2> HIDE DEF w
  <2> QED
    BY <2>2, <2>3, TreeStartKeeps
<1>4. ASSUME NEW r \in Requests, StartAccountDeletion(r) PROVE TreeInv'
  <2>1. PICK some \in SUBSET project :
          Start(r, [Idle EXCEPT !.op = "account", !.pc = "cascade", !.todo = some])
    BY <1>4 DEF StartAccountDeletion
  <2> DEFINE w == [Idle EXCEPT !.op = "account", !.pc = "cascade", !.todo = some]
  <2>2. w \in Work /\ Reads(w) /\ w.pc = "cascade"
    BY <1>0 DEF Idle, Work, Reads, Place
  <2>3. Start(r, w)
    BY <2>1
  <2> HIDE DEF w
  <2> QED
    BY <2>2, <2>3, TreeStartKeeps
<1>5. ASSUME NEW r \in Requests, CheckParent(r) PROVE TreeInv'
  <2>1. work[r].pc = "may_write" /\ UNCHANGED <<project, parent, issued, moves_met, delete_met>>
    BY <1>5 DEF CheckParent, Done, Step, tree, history
  <2>2. CASE work' = [work EXCEPT ![r] = Idle]
    BY <2>1, <2>2, IdleWork, TreeReadKeeps
  <2>3. CASE /\ work[r].to \in project
             /\ work' = [work EXCEPT ![r] = [work[r] EXCEPT !.pc = "walk", !.at = work[r].to]]
    <3> DEFINE w == [work[r] EXCEPT !.pc = "walk", !.at = work[r].to]
    <3>1. /\ w \in Work /\ Reads(w) /\ w.pc = "walk" /\ w.op = work[r].op /\ w.seen = {}
          /\ w.at = w.to
      BY <1>0, <2>1, <2>3 DEF Work, Reads, Known
    <3>2. work' = [work EXCEPT ![r] = w]
      BY <2>3
    <3> HIDE DEF w
    <3>3. Above(w.seen, w.to, w.at)
      BY <3>1 DEF Above
    <3> QED
      BY <2>1, <3>1, <3>2, <3>3, TreeReadKeeps
  <2> QED
    BY <1>5, <2>2, <2>3 DEF CheckParent, Done, Step
<1>6. ASSUME NEW r \in Requests, CountChildren(r) PROVE TreeInv'
  <2>1. work[r].pc = "children" /\ UNCHANGED <<project, parent, issued, moves_met, delete_met>>
    BY <1>6 DEF CountChildren, Done, Step, tree, history
  <2>2. CASE work' = [work EXCEPT ![r] = Idle]
    BY <2>1, <2>2, IdleWork, TreeReadKeeps
  <2>3. CASE work' = [work EXCEPT ![r] = [work[r] EXCEPT !.pc = "cascade", !.it = Root, !.todo = {work[r].it}]]
    <3> DEFINE w == [work[r] EXCEPT !.pc = "cascade", !.it = Root, !.todo = {work[r].it}]
    <3>1. w \in Work /\ Reads(w) /\ w.pc = "cascade" /\ w.op = work[r].op
      BY <1>0, <2>1 DEF Work, Reads, Place
    <3>2. work' = [work EXCEPT ![r] = w]
      BY <2>3
    <3> HIDE DEF w
    <3> QED
      BY <2>1, <3>1, <3>2, TreeReadKeeps
  <2> QED
    BY <1>6, <2>2, <2>3 DEF CountChildren, Done, Step
<1>7. CASE UNCHANGED treeVars
  BY <1>7 DEF treeVars, TreeInv, TreeTyped, TreeTypeOK, Known, Issued, Reads, OneMove, WalkHolds, Above,
              LoopNeedsCrossedMoves, Acyclic
<1> QED
  BY <1>1, <1>2, <1>3, <1>4, <1>5, <1>6, <1>7, InsertKeeps, WalkKeeps, WriteParentKeeps, CascadeKeeps
     DEF TreeNext, Handle

(* The invariant holds throughout.                                         *)
LEMMA TreeInvHolds == TreeSpec => []TreeInv
BY TreeInitInv, TreeStep, PTL DEF TreeSpec

(* The types.                                                              *)
THEOREM TreeIsTyped == TreeSpec => []TreeTypeOK
<1>1. TreeInv => TreeTypeOK
  BY DEF TreeInv, TreeTyped
<1> QED
  BY <1>1, TreeInvHolds, PTL

(* As long as no two moves overlap the projects form a forest, however     *)
(* many there are and whatever else is created, deleted or cascaded while  *)
(* a cycle check reads them one by one (projects.js:258).                  *)
THEOREM LoneMovesKeepTheForest == TreeSpec => []LoopNeedsCrossedMoves
<1>1. TreeInv => LoopNeedsCrossedMoves
  BY DEF TreeInv
<1> QED
  BY <1>1, TreeInvHolds, PTL

-----------------------------------------------------------------------------
(* Orphans.  Unless a deletion overlaps a move or a creation, the parent a *)
(* handler is about to write is still there, and the project a deletion is *)
(* about to drop still has no children.                                    *)

Removing(w) == w.op \in Removals
Placing(w) == w.op \in {"move", "create"}

Fits(w) ==
  /\ w.pc = "insert" <=> w.op = "create"
  /\ w.pc \in {"children", "cascade"} <=> Removing(w)

StillThere ==
  /\ \A r \in Requests : Fits(work[r])
  /\ ~delete_met =>
       /\ \A r, s \in Requests : Removing(work[r]) => ~Placing(work[s])
       /\ \A r \in Requests :
            /\ work[r].pc \in {"insert", "walk", "write"} => work[r].to \in project \cup {Root}
            /\ work[r].op = "delete" /\ work[r].pc = "cascade" =>
                 \A p \in work[r].todo : Children(p) = {}

(* At the start there is no handler that could hold a project.             *)
LEMMA StillThereInit == TreeInit => StillThere
BY DEF TreeInit, StillThere, Idle, Fits, Removing, Placing, Removals

(* A handler starts: a removal that meets a move or creation is noted.     *)
LEMMA StartKeepsThere ==
  ASSUME TreeInv, StillThere, NEW r \in Requests, NEW w \in Work, Fits(w), Start(r, w),
         w.pc \in {"insert", "write"} => w.to \in project \cup {Root},
         w.pc # "walk", w.op = "delete" => w.pc # "cascade"
  PROVE  StillThere'
<1>1. work' = [work EXCEPT ![r] = w] /\ UNCHANGED <<project, parent>>
  BY DEF Start, tree
<1>2. \A s \in Requests : work'[s] = IF s = r THEN w ELSE work[s]
  BY <1>1, WorkAfter DEF TreeInv, TreeTyped
<1>3. ~delete_met' => /\ ~delete_met
                      /\ Removing(w) => \A s \in Requests : ~Placing(work[s])
                      /\ Placing(w) => \A s \in Requests : ~Removing(work[s])
                      /\ ~(Placing(w) /\ Removing(w))
  BY DEF Start, InFlight, Removals, Removing, Placing
<1>4. \A p : Children(p)' = Children(p)
  BY <1>1 DEF Children
<1> QED
  BY <1>1, <1>2, <1>3, <1>4 DEF StillThere

(* A handler goes on: what it is about to write or drop was just read.     *)
LEMMA ReadKeepsThere ==
  ASSUME TreeInv, StillThere, NEW r \in Requests, NEW w \in Work, Fits(w),
         work' = [work EXCEPT ![r] = w], UNCHANGED <<project, parent, delete_met>>,
         w.op \in {"none", work[r].op},
         ~delete_met /\ w.pc \in {"insert", "walk", "write"} => w.to \in project \cup {Root},
         ~delete_met /\ w.op = "delete" /\ w.pc = "cascade" => \A p \in w.todo : Children(p) = {}
  PROVE  StillThere'
<1>1. \A s \in Requests : work'[s] = IF s = r THEN w ELSE work[s]
  BY WorkAfter DEF TreeInv, TreeTyped
<1>2. /\ Removing(w) => Removing(work[r])
      /\ Placing(w) => Placing(work[r])
  BY DEF Removing, Placing, Removals
<1>3. \A p : Children(p)' = Children(p)
  BY DEF Children
<1> QED
  BY <1>1, <1>2, <1>3 DEF StillThere

(* A handler that writes a row is done with it; one that places a project  *)
(* meets no deletion, and one that deletes meets nobody placing any.       *)
LEMMA WriteKeepsThere ==
  ASSUME TreeInv, StillThere, NEW r \in Requests, InsertProject(r) \/ WriteParent(r)
  PROVE  StillThere'
<1>1. /\ work' = [work EXCEPT ![r] = Idle] /\ delete_met' = delete_met /\ project \subseteq project'
      /\ work[r].pc \in {"insert", "write"}
  BY DEF InsertProject, WriteParent, Done, Step, history
<1>2. \A s \in Requests : work'[s] = IF s = r THEN Idle ELSE work[s]
  BY <1>1, IdleWork, WorkAfter DEF TreeInv, TreeTyped
<1>3. Placing(work[r])
  BY <1>1 DEF StillThere, Fits, Placing, TreeInv, TreeTyped, Reads
<1>4. Fits(Idle) /\ ~Removing(Idle) /\ ~Placing(Idle)
  BY IdleWork DEF Fits, Removing, Placing, Removals
<1>5. ~delete_met => \A s \in Requests : ~Removing(work[s])
  BY <1>3 DEF StillThere
<1> QED
  BY <1>1, <1>2, <1>4, <1>5, IdleWork DEF StillThere, Fits

(* A cascade drops a project that no handler beside it relies on.          *)
LEMMA CascadeKeepsThere ==
  ASSUME TreeInv, StillThere, NEW r \in Requests, Cascade(r)
  PROVE  StillThere'
<1>1. PICK p \in work[r].todo :
        /\ project' = project \ {p} /\ parent' = [parent EXCEPT ![p] = Root] /\ delete_met' = delete_met
        /\ work[r].pc = "cascade"
        /\ work' = [work EXCEPT ![r] = IF work[r].todo \ {p} = {} THEN Idle
                                       ELSE [work[r] EXCEPT !.todo = work[r].todo \ {p}]]
  BY DEF Cascade, Done, Step, history
<1>2. work[r] \in Work /\ Reads(work[r]) /\ Fits(work[r]) /\ p \in Ids
  BY DEF TreeInv, TreeTyped, TreeTypeOK, Work, StillThere
<1> DEFINE w == IF work[r].todo \ {p} = {} THEN Idle ELSE [work[r] EXCEPT !.todo = work[r].todo \ {p}]
<1>3. /\ w \in Work /\ Fits(w) /\ w.op \in {"none", work[r].op} /\ w.pc \in {"idle", "cascade"}
      /\ w.pc = "cascade" => w.todo \subseteq work[r].todo /\ w.op = work[r].op
  BY <1>1, <1>2, IdleWork DEF Work, Fits, Removing, Removals
<1>4. work' = [work EXCEPT ![r] = w]
  BY <1>1
<1> HIDE DEF w
<1>5. \A s \in Requests : work'[s] = IF s = r THEN w ELSE work[s]
  BY <1>3, <1>4, WorkAfter DEF TreeInv, TreeTyped
<1>6. Removing(work[r]) /\ (~delete_met => \A s \in Requests : ~Placing(work[s]))
  BY <1>1 DEF StillThere, Fits
<1>7. \A s \in Requests : ~Placing(work[s]) => work[s].pc \notin {"insert", "walk", "write"}
  BY DEF StillThere, Fits, Placing, TreeInv, TreeTyped, Reads
<1>8. ASSUME NEW q, Children(q) = {}, q # Root PROVE Children(q)' = {}
  <2>1. \A c \in project \ {p} : parent'[c] = parent[c]
    BY <1>1 DEF TreeInv, TreeTyped, TreeTypeOK
  <2> QED
    BY <1>1, <1>8, <2>1 DEF Children
<1>9. \A s \in Requests : work[s].todo \subseteq Ids /\ Root \notin Ids
  BY DEF TreeInv, TreeTyped, TreeTypeOK, Work, Ids, Root
<1>10. ~Placing(w) /\ (Removing(w) => Removing(work[r]))
  BY <1>3, <1>6 DEF Removing, Placing, Removals
<1>11. \A s \in Requests : Fits(work'[s])
  BY <1>3, <1>5 DEF StillThere
<1>12. ASSUME ~delete_met, NEW s \in Requests
       PROVE  /\ ~Placing(work'[s]) /\ work'[s].pc \notin {"insert", "walk", "write"}
              /\ work'[s].op = "delete" /\ work'[s].pc = "cascade" => \A q \in work'[s].todo : Children(q)' = {}
  <2>1. CASE s = r
    BY <1>3, <1>5, <1>8, <1>9, <1>10, <1>12, <2>1, <1>1 DEF StillThere
  <2>2. CASE s # r
    BY <1>5, <1>6, <1>7, <1>8, <1>9, <1>12, <2>2 DEF StillThere
  <2> QED
    BY <2>1, <2>2
<1> QED
  BY <1>1, <1>11, <1>12 DEF StillThere, Fits, Removing, Placing

(* Every step keeps it.                                                    *)
LEMMA ThereStep ==
  ASSUME TreeInv, StillThere, [TreeNext]_treeVars
  PROVE  StillThere'
<1>0. /\ project \subseteq Issued /\ Issued \subseteq Ids
      /\ \A r \in Requests : work[r] \in Work /\ Reads(work[r]) /\ Fits(work[r])
  BY TreeAssumption DEF TreeInv, TreeTyped, TreeTypeOK, Issued, Ids, Place, Root, StillThere
<1>9. Fits(Idle)
  BY IdleWork DEF Fits, Removing, Removals
<1>1. ASSUME NEW r \in Requests, StartCreate(r) PROVE StillThere'
  <2>1. PICK to \in project \cup {Root} : Start(r, [Idle EXCEPT !.op = "create", !.pc = "insert", !.to = to])
    BY <1>1 DEF StartCreate
  <2> DEFINE w == [Idle EXCEPT !.op = "create", !.pc = "insert", !.to = to]
  <2>2. w \in Work /\ Fits(w) /\ w.pc = "insert" /\ w.to = to
    BY <1>0 DEF Idle, Work, Fits, Removing, Removals, Place
  <2>3. Start(r, w)
    BY <2>1
  <2> HIDE DEF w
  <2> QED
    BY <2>2, <2>3, StartKeepsThere
<1>2. ASSUME NEW r \in Requests, StartMove(r) PROVE StillThere'
  <2>0. PICK p \in project : \E to \in Place \ {p} :
          Start(r, [Idle EXCEPT !.op = "move", !.it = p, !.to = to,
                                !.pc = IF to = Root THEN "write" ELSE "may_write"])
    BY <1>2 DEF StartMove
  <2>1. PICK to \in Place \ {p} :
          Start(r, [Idle EXCEPT !.op = "move", !.it = p, !.to = to,
                                !.pc = IF to = Root THEN "write" ELSE "may_write"])
    BY <2>0
  <2> DEFINE w == [Idle EXCEPT !.op = "move", !.it = p, !.to = to,
                               !.pc = IF to = Root THEN "write" ELSE "may_write"]
  <2>2. /\ w \in Work /\ Fits(w) /\ w.op = "move"
        /\ w.pc = "may_write" \/ (w.pc = "write" /\ w.to = Root)
    BY <1>0 DEF Idle, Work, Fits, Removing, Removals, Place
  <2>3. Start(r, w)
    BY <2>1
  <2> HIDE DEF w
  <2> QED
    BY <2>2, <2>3, StartKeepsThere
<1>3. ASSUME NEW r \in Requests, StartDelete(r) PROVE StillThere'
  <2>1. PICK p \in project : Start(r, [Idle EXCEPT !.op = "delete", !.pc = "children", !.it = p])
    BY <1>3 DEF StartDelete
  <2> DEFINE w == [Idle EXCEPT !.op = "delete", !.pc = "children", !.it = p]
  <2>2. w \in Work /\ Fits(w) /\ w.pc = "children"
    BY <1>0 DEF Idle, Work, Fits, Removing, Removals, Place
  <2>3. Start(r, w)
    BY <2>1
  <2> HIDE DEF w
  <2> QED
    BY <2>2, <2>3, StartKeepsThere
<1>4. ASSUME NEW r \in Requests, StartAccountDeletion(r) PROVE StillThere'
  <2>1. PICK some \in SUBSET project :
          Start(r, [Idle EXCEPT !.op = "account", !.pc = "cascade", !.todo = some])
    BY <1>4 DEF StartAccountDeletion
  <2> DEFINE w == [Idle EXCEPT !.op = "account", !.pc = "cascade", !.todo = some]
  <2>2. w \in Work /\ Fits(w) /\ w.pc = "cascade" /\ w.op = "account"
    BY <1>0 DEF Idle, Work, Fits, Removing, Removals, Place
  <2>3. Start(r, w)
    BY <2>1
  <2> HIDE DEF w
  <2> QED
    BY <2>2, <2>3, StartKeepsThere
<1>5. ASSUME NEW r \in Requests, CheckParent(r) PROVE StillThere'
  <2>1. work[r].pc = "may_write" /\ UNCHANGED <<project, parent, delete_met>>
    BY <1>5 DEF CheckParent, Done, Step, tree, history
  <2>2. CASE work' = [work EXCEPT ![r] = Idle]
    BY <1>9, <2>1, <2>2, IdleWork, ReadKeepsThere
  <2>3. CASE /\ work[r].to \in project
             /\ work' = [work EXCEPT ![r] = [work[r] EXCEPT !.pc = "walk", !.at = work[r].to]]
    <3> DEFINE w == [work[r] EXCEPT !.pc = "walk", !.at = work[r].to]
    <3>1. w \in Work /\ Fits(w) /\ w.pc = "walk" /\ w.op = work[r].op /\ w.to = work[r].to
      BY <1>0, <2>1, <2>3 DEF Work, Fits, Removing
    <3>2. work' = [work EXCEPT ![r] = w]
      BY <2>3
    <3> HIDE DEF w
    <3> QED
      BY <2>1, <2>3, <3>1, <3>2, ReadKeepsThere
  <2> QED
    BY <1>5, <2>2, <2>3 DEF CheckParent, Done, Step
<1>6. ASSUME NEW r \in Requests, Walk(r) PROVE StillThere'
  <2>0. PICK at : at = work[r].at
    OBVIOUS
  <2>1. work[r].pc = "walk" /\ UNCHANGED <<project, parent, delete_met>>
    BY <1>6 DEF Walk, Done, Step, tree, history
  <2>2. ~delete_met => work[r].to \in project \cup {Root}
    BY <2>1 DEF StillThere
  <2>3. CASE work' = [work EXCEPT ![r] = Idle]
    BY <1>9, <2>1, <2>3, IdleWork, ReadKeepsThere
  <2>4. CASE work' = [work EXCEPT ![r] = [work[r] EXCEPT !.pc = "write", !.at = Root, !.seen = {}]]
    <3> DEFINE w == [work[r] EXCEPT !.pc = "write", !.at = Root, !.seen = {}]
    <3>1. w \in Work /\ Fits(w) /\ w.pc = "write" /\ w.op = work[r].op /\ w.to = work[r].to
      BY <1>0, <2>1 DEF Work, Fits, Removing, Place
    <3>2. work' = [work EXCEPT ![r] = w]
      BY <2>4
    <3> HIDE DEF w
    <3> QED
      BY <2>1, <2>2, <3>1, <3>2, ReadKeepsThere
  <2>5. CASE /\ at \notin work[r].seen \cup {Root, work[r].it}
             /\ work' = [work EXCEPT ![r] = [work[r] EXCEPT !.at = parent[at], !.seen = work[r].seen \cup {at}]]
    <3> DEFINE w == [work[r] EXCEPT !.at = parent[at], !.seen = work[r].seen \cup {at}]
    <3>1. at \in Ids /\ parent[at] \in Place
      BY <1>0, <2>0, <2>5 DEF Work, Place, TreeInv, TreeTyped, TreeTypeOK
    <3>2. w \in Work /\ Fits(w) /\ w.pc = "walk" /\ w.op = work[r].op /\ w.to = work[r].to
      BY <1>0, <2>1, <3>1 DEF Work, Fits, Removing
    <3>3. work' = [work EXCEPT ![r] = w]
      BY <2>5
    <3> HIDE DEF w
    <3> QED
      BY <2>1, <2>2, <3>2, <3>3, ReadKeepsThere
  <2> QED
    BY <1>6, <2>0, <2>3, <2>4, <2>5 DEF Walk, Done, Step
<1>7. ASSUME NEW r \in Requests, CountChildren(r) PROVE StillThere'
  <2>1. work[r].pc = "children" /\ UNCHANGED <<project, parent, delete_met>>
    BY <1>7 DEF CountChildren, Done, Step, tree, history
  <2>2. CASE work' = [work EXCEPT ![r] = Idle]
    BY <1>9, <2>1, <2>2, IdleWork, ReadKeepsThere
  <2>3. CASE /\ Children(work[r].it) = {}
             /\ work' = [work EXCEPT ![r] = [work[r] EXCEPT !.pc = "cascade", !.it = Root, !.todo = {work[r].it}]]
    <3> DEFINE w == [work[r] EXCEPT !.pc = "cascade", !.it = Root, !.todo = {work[r].it}]
    <3>1. w \in Work /\ Fits(w) /\ w.pc = "cascade" /\ w.op = work[r].op /\ w.todo = {work[r].it}
      BY <1>0, <2>1 DEF Work, Reads, Fits, Removing, Place
    <3>2. work' = [work EXCEPT ![r] = w]
      BY <2>3
    <3> HIDE DEF w
    <3> QED
      BY <2>1, <2>3, <3>1, <3>2, ReadKeepsThere
  <2> QED
    BY <1>7, <2>2, <2>3 DEF CountChildren, Done, Step
<1>8. CASE UNCHANGED treeVars
  BY <1>8 DEF treeVars, StillThere, Fits, Removing, Placing, Children
<1> QED
  BY <1>1, <1>2, <1>3, <1>4, <1>5, <1>6, <1>7, <1>8, WriteKeepsThere, CascadeKeepsThere
     DEF TreeNext, Handle

(* A step that leaves a project without its parent.                        *)
LEMMA OrphanStep ==
  ASSUME TreeInv, StillThere, [TreeNext]_treeVars, ~delete_met', ~InFlight("account"),
         NEW c \in project', parent'[c] \notin project' \cup {Root},
         c \in project => parent[c] \in project \cup {Root}
  PROVE  FALSE
<1>0. project \subseteq Ids
  BY TreeAssumption DEF TreeInv, TreeTyped, TreeTypeOK, Ids, Place, Root
<1>1. ASSUME NEW r \in Requests, InsertProject(r) PROVE FALSE
  <2>1. /\ delete_met' = delete_met /\ work[r].pc = "insert" /\ project' = project \cup {issued + 1}
        /\ parent' = [parent EXCEPT ![issued + 1] = work[r].to]
    BY <1>1 DEF InsertProject, Done, Step, history
  <2>2. work[r].to \in project \cup {Root}
    BY <2>1 DEF StillThere
  <2>3. issued + 1 \in Ids /\ parent \in [Ids -> Place]
    BY <1>1, TreeAssumption DEF InsertProject, TreeInv, TreeTyped, TreeTypeOK, Ids, Place, Root
  <2> QED
    BY <1>0, <2>1, <2>2, <2>3
<1>2. ASSUME NEW r \in Requests, WriteParent(r) PROVE FALSE
  <2>1. /\ delete_met' = delete_met /\ work[r].pc = "write" /\ project' = project
        /\ parent' = IF work[r].it \in project THEN [parent EXCEPT ![work[r].it] = work[r].to] ELSE parent
    BY <1>2 DEF WriteParent, Done, Step, history
  <2>2. work[r].to \in project \cup {Root}
    BY <2>1 DEF StillThere
  <2> QED
    BY <1>0, <2>1, <2>2 DEF TreeInv, TreeTyped, TreeTypeOK
<1>3. ASSUME NEW r \in Requests, Cascade(r) PROVE FALSE
  <2>1. PICK p \in work[r].todo :
          /\ project' = project \ {p} /\ parent' = [parent EXCEPT ![p] = Root] /\ delete_met' = delete_met
          /\ work[r].pc = "cascade"
    BY <1>3 DEF Cascade, Done, Step, history
  <2>2. work[r].op = "delete"
    BY <2>1 DEF StillThere, Fits, Removing, Removals, InFlight
  <2>3. Children(p) = {}
    BY <2>1, <2>2 DEF StillThere
  <2>4. c \in project /\ c # p /\ parent'[c] = parent[c]
    BY <1>0, <2>1 DEF TreeInv, TreeTyped, TreeTypeOK
  <2>5. parent[c] # p
    BY <2>3, <2>4 DEF Children
  <2> QED
    BY <2>1, <2>4, <2>5
<1>4. CASE UNCHANGED <<project, parent>>
  BY <1>4
<1> QED
  BY <1>1, <1>2, <1>3, <1>4 DEF TreeNext, Handle, treeVars, StartCreate, StartMove, StartDelete,
     StartAccountDeletion, Start, tree, CheckParent, Walk, CountChildren

(* Unless a deletion overlapped a move or a creation, only the cascade of  *)
(* an account's deletion takes a parent from under a project               *)
(* (projects.js:350).                                                      *)
THEOREM DeletionsLeaveNoOrphans == TreeSpec => OrphansNeedRaceOrAccount
<1>1. TreeInit => TreeInv /\ StillThere
  BY TreeInitInv, StillThereInit
<1>2. TreeInv /\ StillThere /\ [TreeNext]_treeVars => (TreeInv /\ StillThere)'
  BY TreeStep, ThereStep
<1>3. TreeInv /\ StillThere /\ [TreeNext]_treeVars =>
        [\A c \in project' :
           parent'[c] \notin project' \cup {Root} =>
             \/ c \in project /\ parent[c] \notin project \cup {Root}
             \/ delete_met'
             \/ InFlight("account")]_treeVars
  BY OrphanStep
<1> QED
  BY <1>1, <1>2, <1>3, PTL DEF TreeSpec, OrphansNeedRaceOrAccount
=============================================================================
