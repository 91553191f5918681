---------------------------- MODULE ProjectTree ----------------------------
(***************************************************************************)
(* The tree of projects (routes/projects.js): creating a project under a   *)
(* parent, moving it, deleting it, and the deletion of an account          *)
(* (routes/account.js), which takes the projects only that account held    *)
(* with it.  One action per awaited statement; handlers interleave between *)
(* any two.  Callers have the permission they need on rows that exist; who *)
(* that is, and which projects an account passes on, is left to Access.    *)
(***************************************************************************)
EXTENDS Naturals

CONSTANTS
  Requests,    (* slots for HTTP handlers in flight                        *)
  Planted,     (* projects at the start, none inside another               *)
  MaxProject   (* bound on rows ever inserted into projects                *)

ASSUME TreeAssumption == Planted \in Nat /\ MaxProject \in Nat /\ Planted <= MaxProject

VARIABLES
  project,   (* ids in table projects                                      *)
  parent,    (* parent_project_id, Root for NULL and for rows not there    *)
  issued,    (* the last id table projects handed out                      *)
  work,      (* the handlers in flight                                     *)
  moves_met, (* history: two moves were once in flight together            *)
  delete_met (* history: a deletion was once in flight with a move or a    *)
             (* creation                                                   *)

tree == <<project, parent, issued>>
history == <<moves_met, delete_met>>
treeVars == <<project, parent, issued, work, moves_met, delete_met>>

Root == 0
Ids == 1 .. MaxProject
Place == Ids \cup {Root}

Idle == [op |-> "none", pc |-> "idle", it |-> Root, to |-> Root, at |-> Root,
         seen |-> {}, todo |-> {}]

(* it: the project of the request; to: the parent it asks for; at, seen:   *)
(* cursor and seen of createsCycle; todo: projects still to cascade.       *)
Work == [op : {"none", "create", "move", "delete", "account"},
         pc : {"idle", "insert", "may_write", "walk", "write", "children", "cascade"},
         it : Place, to : Place, at : Place, seen : SUBSET Ids, todo : SUBSET Ids]

TreeInit ==
  /\ project = 1 .. Planted
  /\ parent = [p \in Ids |-> Root]
  /\ issued = Planted
  /\ work = [r \in Requests |-> Idle]
  /\ moves_met = FALSE
  /\ delete_met = FALSE

Removals == {"delete", "account"}
InFlight(op) == \E s \in Requests : work[s].op = op

(* A handler starts; the history notes what it meets.                      *)
Start(r, w) ==
  /\ work[r].pc = "idle"
  /\ work' = [work EXCEPT ![r] = w]
  /\ moves_met' = (moves_met \/ (w.op = "move" /\ InFlight("move")))
  /\ delete_met' = (delete_met
       \/ (w.op \in Removals /\ (InFlight("move") \/ InFlight("create")))
       \/ (w.op \in {"move", "create"} /\ \E op \in Removals : InFlight(op)))
  /\ UNCHANGED tree

Step(r, from, w) == work[r].pc = from /\ work' = [work EXCEPT ![r] = w]
Done(r, from) == Step(r, from, Idle)
Children(p) == {c \in project : parent[c] = p}

-----------------------------------------------------------------------------
(* PUT /projects                                                           *)

StartCreate(r) ==
  \E to \in project \cup {Root} :
    Start(r, [Idle EXCEPT !.op = "create", !.pc = "insert", !.to = to])

(* Mutant: the id is handed out again.                                     *)
InsertProjectAgain(r) ==
  /\ issued < MaxProject
  /\ Done(r, "insert")
  /\ project' = project \cup {issued + 1}
  /\ parent' = [parent EXCEPT ![issued + 1] = work[r].to]
  /\ UNCHANGED <<issued, history>>

InsertProject(r) ==
  /\ issued < MaxProject
  /\ Done(r, "insert")
  /\ issued' = issued + 1
  /\ project' = project \cup {issued + 1}
  /\ parent' = [parent EXCEPT ![issued + 1] = work[r].to]
  /\ UNCHANGED history

-----------------------------------------------------------------------------
(* POST /projects/:project with a parent_project_id                        *)

StartMove(r) ==
  \E p \in project : \E to \in Place \ {p} :
    Start(r, [Idle EXCEPT !.op = "move", !.it = p, !.to = to,
                          !.pc = IF to = Root THEN "write" ELSE "may_write"])

(* canWriteProject of the new parent, which finds nothing in a project     *)
(* that is gone, and may refuse one that is not.                           *)
CheckParent(r) ==
  /\ \/ Done(r, "may_write")
     \/ /\ work[r].to \in project
        /\ Step(r, "may_write", [work[r] EXCEPT !.pc = "walk", !.at = work[r].to])
  /\ UNCHANGED <<tree, history>>

(* Mutant: only the new parent and its own parent are looked at.           *)
WalkTwoRows(r) ==
  LET at == work[r].at IN
  /\ \/ /\ at # Root
        /\ at = work[r].it
        /\ Done(r, "walk")
     \/ /\ at = Root \/ work[r].seen # {}
        /\ at # work[r].it
        /\ Step(r, "walk", [work[r] EXCEPT !.pc = "write", !.at = Root, !.seen = {}])
     \/ /\ at \notin {Root, work[r].it}
        /\ work[r].seen = {}
        /\ Step(r, "walk", [work[r] EXCEPT !.at = parent[at], !.seen = @ \cup {at}])
  /\ UNCHANGED <<tree, history>>

(* Mutant: a loop already in the data is not noticed.                      *)
WalkOn(r) ==
  LET at == work[r].at IN
  /\ \/ /\ at # Root
        /\ at = work[r].it
        /\ Done(r, "walk")
     \/ /\ at = Root
        /\ Step(r, "walk", [work[r] EXCEPT !.pc = "write", !.at = Root, !.seen = {}])
     \/ /\ at \notin {Root, work[r].it}
        /\ Step(r, "walk", [work[r] EXCEPT !.at = parent[at], !.seen = @ \cup {at}])
  /\ UNCHANGED <<tree, history>>

(* One turn of createsCycle: refuse, arrive at the top, or read one row.   *)
Walk(r) ==
  LET at == work[r].at IN
  /\ \/ /\ at # Root
        /\ at = work[r].it \/ at \in work[r].seen
        /\ Done(r, "walk")
     \/ /\ at = Root
        /\ Step(r, "walk", [work[r] EXCEPT !.pc = "write", !.at = Root, !.seen = {}])
     \/ /\ at \notin work[r].seen \cup {Root, work[r].it}
        /\ Step(r, "walk", [work[r] EXCEPT !.at = parent[at], !.seen = @ \cup {at}])
  /\ UNCHANGED <<tree, history>>

(* UPDATE ... WHERE id, which finds no row when the project is gone.       *)
WriteParent(r) ==
  /\ Done(r, "write")
  /\ parent' = IF work[r].it \in project THEN [parent EXCEPT ![work[r].it] = work[r].to] ELSE parent
  /\ UNCHANGED <<project, issued, history>>

-----------------------------------------------------------------------------
(* DELETE /projects/:project, and the cascade of an account's projects,    *)
(* which does not ask for children.                                        *)

StartDelete(r) ==
  \E p \in project :
    Start(r, [Idle EXCEPT !.op = "delete", !.pc = "children", !.it = p])

(* Mutant: children do not hold the deletion up.                           *)
CountNoChildren(r) ==
  /\ Step(r, "children", [work[r] EXCEPT !.pc = "cascade", !.it = Root, !.todo = {work[r].it}])
  /\ UNCHANGED <<tree, history>>

CountChildren(r) ==
  /\ \/ /\ Children(work[r].it) # {}
        /\ Done(r, "children")
     \/ /\ Children(work[r].it) = {}
        /\ Step(r, "children", [work[r] EXCEPT !.pc = "cascade", !.it = Root, !.todo = {work[r].it}])
  /\ UNCHANGED <<tree, history>>

(* The projects an account owns and found nobody to pass on to.            *)
StartAccountDeletion(r) ==
  \E only_theirs \in (SUBSET project) \ {{}} :
    Start(r, [Idle EXCEPT !.op = "account", !.pc = "cascade", !.todo = only_theirs])

Cascade(r) ==
  \E p \in work[r].todo :
    LET rest == work[r].todo \ {p} IN
    /\ IF rest = {} THEN Done(r, "cascade")
                    ELSE Step(r, "cascade", [work[r] EXCEPT !.todo = rest])
    /\ project' = project \ {p}
    /\ parent' = [parent EXCEPT ![p] = Root]
    /\ UNCHANGED <<issued, history>>

-----------------------------------------------------------------------------
Handle(r) ==
  \/ InsertProject(r) \/ CheckParent(r) \/ Walk(r) \/ WriteParent(r)
  \/ CountChildren(r) \/ Cascade(r)

TreeNext ==
  \E r \in Requests :
    \/ StartCreate(r) \/ StartMove(r) \/ StartDelete(r) \/ StartAccountDeletion(r)
    \/ Handle(r)

(* A statement that was issued is answered: node runs every callback.      *)
TreeSpec == TreeInit /\ [][TreeNext]_treeVars /\ \A r \in Requests : WF_treeVars(Handle(r))

-----------------------------------------------------------------------------
TreeTypeOK ==
  /\ project \subseteq 1 .. issued
  /\ issued \in Place
  /\ parent \in [Ids -> Place]
  /\ work \in [Requests -> Work]
  /\ moves_met \in BOOLEAN
  /\ delete_met \in BOOLEAN

(* No set of projects holds the parent of each of its members.             *)
Acyclic == \A S \in SUBSET project : S # {} => \E p \in S : parent[p] \notin S

(* createsCycle (projects.js:258) reads the ancestors one statement at a   *)
(* time while projects are created, deleted and taken away with accounts   *)
(* beneath it; the tree gets a loop only when two moves overlap.           *)
LoopNeedsCrossedMoves == ~moves_met => Acyclic

(* Unless a deletion overlapped a move or a creation, the one step that    *)
(* takes a parent from under a project is an account deletion's cascade,   *)
(* which asks for no children as DELETE does (projects.js:350).            *)
OrphansNeedRaceOrAccount ==
  [][\A c \in project' :
       parent'[c] \notin project' \cup {Root} =>
         \/ c \in project /\ parent[c] \notin project \cup {Root}
         \/ delete_met'
         \/ InFlight("account")]_treeVars

(* Whatever loops crossed moves have closed, a cycle check ends: it stops  *)
(* at a row it has seen (projects.js:265) and holds no handler forever.    *)
WalksEnd == \A r \in Requests : work[r].pc = "walk" ~> work[r].pc # "walk"
=============================================================================
