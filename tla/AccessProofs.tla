---------------------------- MODULE AccessProofs ----------------------------
(***************************************************************************)
(* Proofs about owners, shares and accounts, for any number of users,      *)
(* projects, teams, handlers and restarts.  While nothing overlaps one     *)
(* handler is at work at most, and what it has read still holds.           *)
(***************************************************************************)
EXTENDS AccessProps, TLAPS

(* The statements a handler may be at, and what it has in hand there.      *)
SharingSteps == {"put_user", "put_owner", "put_row", "set_user", "set_row", "drop_user", "drop_row",
                 "put_team", "drop_team", "drop_project"}
OwnerSteps == {"new_owner", "owner", "redundant", "previous"}
DeletionSteps == {"heirs", "pass", "passed", "cascade", "close"}
Steps == SharingSteps \cup OwnerSteps \cup DeletionSteps \cup {"owned", "idle"}

Work == [pc: Steps, by: Users \cup {Nobody}, project: Projects \cup {Nobody},
         user: Users \cup {Nobody}, team: Teams \cup {Nobody}, level: {READ, WRITE, ADMIN},
         before: Users \cup {Nobody}, owned: SUBSET Projects, heirs: SUBSET (Projects \X Users),
         orphans: SUBSET Projects, due: SUBSET Users]

(* What the statement it is at takes from it.                              *)
Filled(w) ==
  /\ w.pc \in SharingSteps \cup OwnerSteps \cup {"passed"} => w.project \in Projects
  /\ w.pc \in {"put_user", "put_owner", "put_row", "set_user", "set_row", "drop_user", "drop_row"}
       => w.user \in Users
  /\ w.pc \in OwnerSteps \cup DeletionSteps \cup {"owned"} => w.user \in Users
  /\ w.pc = "put_team" => w.team \in Teams
  /\ w.pc \in OwnerSteps \cup {"passed"} => w.before \in Users

RowsTyped ==
  /\ account \subseteq Users
  /\ administrator \subseteq Users
  /\ scheduled \subseteq Users
  /\ owner \in [Projects -> Users \cup {Nobody}]
  /\ share \subseteq Shares
  /\ team_share \subseteq TeamShares
  /\ role \in [Team -> {"none", "member", "admin"}]

OneAtWork == \A s, o \in Slots : s # o => At(s, "idle") \/ At(o, "idle")

(* What a handler has found out, by the statement it is at.  First those   *)
(* that share: the project is there, whoever asks administers it, and      *)
(* whoever it is shared with has an account.                               *)
FoundSharing(w) ==
  /\ w.pc \in SharingSteps =>
       owner[w.project] # Nobody /\ Allowed(w.by, w.project, ADMIN)
  /\ w.pc \in {"put_owner", "put_row", "set_row", "drop_row"} => w.user \in account

(* A change of owner: the project is there, an administrator asks, and     *)
(* both the new owner and the previous one have an account.                *)
FoundOwner(w) ==
  /\ w.pc \in OwnerSteps =>
       owner[w.project] # Nobody /\ w.by \in administrator /\ w.before \in account
  /\ w.pc \in {"owner", "redundant", "previous"} => w.user \in account

(* The deletion of an account: each of its projects is still to be looked  *)
(* at, to be passed to an heir who administers it, or shared with no       *)
(* administrator.                                                          *)
Settled(w) ==
  /\ \A p \in Projects : owner[p] = w.user =>
       p \in w.owned \/ p \in w.orphans \/ \E h \in w.heirs : h[1] = p
  /\ \A h \in w.heirs : h[2] \in account /\ h[2] # w.user /\ <<h[1], h[2], ADMIN>> \in share
  /\ \A p \in w.orphans, u \in Users \ {w.user} : <<p, u, ADMIN>> \notin share

FoundDeletion(w) ==
  /\ w.pc = "owned" => w.heirs = {} /\ w.orphans = {}
  /\ w.pc \in DeletionSteps => Settled(w)
  /\ w.pc \in {"pass", "passed", "cascade", "close"} => w.owned = {}
  /\ w.pc = "passed" => <<w.project, w.before>> \notin w.heirs
  /\ w.pc \in {"cascade", "close"} => w.heirs = {}
  /\ w.pc = "close" => w.orphans = {}

Found(w) == FoundSharing(w) /\ FoundOwner(w) /\ FoundDeletion(w)

AccessInv ==
  /\ RowsTyped /\ hand \in [Slots -> Work] /\ met \in BOOLEAN
  /\ \A s \in Slots : Filled(hand[s])
  /\ ProjectsAreOwned /\ NoStrayRights
  /\ ~met => OneAtWork /\ \A s \in Slots : Found(hand[s])
-----------------------------------------------------------------------------
(* The frame: what a step of one handler must keep.                        *)

(* A step puts w into slot s and leaves every row as it must be.           *)
Keeps(s, w) ==
  /\ Become(s, w) /\ RowsTyped' /\ Filled(w)
  /\ ~met' => ProjectsAreOwned' /\ NoStrayRights' /\ Found(w)'

(* Nobody has found out anything in a free slot.                           *)
LEMMA IdleFound ==
  ASSUME NEW w, w.pc = "idle"
  PROVE  Filled(w) /\ Found(w) /\ Found(w)'
BY DEF Filled, Found, FoundSharing, FoundOwner, FoundDeletion, SharingSteps, OwnerSteps, DeletionSteps

LEMMA IdleWork == Idle \in Work /\ Idle.pc = "idle" /\ Idle.heirs = {} /\ Idle.orphans = {}
<1>1. READ \in {READ, WRITE, ADMIN}
  OBVIOUS
<1>2. /\ Nobody \in Users \cup {Nobody} /\ Nobody \in Projects \cup {Nobody}
      /\ Nobody \in Teams \cup {Nobody}
  OBVIOUS
<1>3. {} \in SUBSET Projects /\ {} \in SUBSET (Projects \X Users) /\ {} \in SUBSET Users
  OBVIOUS
<1>5. "idle" \in Steps
  BY DEF Steps
<1>4. Idle \in Work
  BY ONLY <1>1, <1>2, <1>3, <1>5, Zenon DEF Idle, Work
<1> QED
  BY <1>4 DEF Idle

(* Moving on, with nothing else in hand than before.                       *)
LEMMA MoveOn ==
  ASSUME NEW w \in Work, NEW pc \in Steps
  PROVE  [w EXCEPT !.pc = pc] \in Work
BY DEF Work

(* A step that keeps the rows and what its own handler has found, while    *)
(* the others are idle or an overlap is noted, keeps the invariant.        *)
LEMMA StepKeeps ==
  ASSUME AccessInv, NEW s \in Slots, NEW w \in Work, Keeps(s, w), met' \in BOOLEAN,
         ~met' => ~met /\ \A o \in Slots \ {s} : At(o, "idle")
  PROVE  AccessInv'
<1>1. hand' = [hand EXCEPT ![s] = w] /\ hand \in [Slots -> Work]
  BY DEF Keeps, Become, AccessInv
<1>2. /\ RowsTyped' /\ hand' \in [Slots -> Work] /\ met' \in BOOLEAN
      /\ ProjectsAreOwned' /\ NoStrayRights'
  BY <1>1 DEF Keeps, ProjectsAreOwned, NoStrayRights
<1>4. ASSUME NEW o \in Slots PROVE Filled(hand[o])'
  <2>1. PICK x : x = hand'[o]
    OBVIOUS
  <2>2. Filled(x)
    BY <1>1, <2>1 DEF Keeps, AccessInv
  <2> QED
    BY <2>1, <2>2 DEF Filled
<1>3. ASSUME ~met' PROVE OneAtWork' /\ \A o \in Slots : Found(hand[o])'
  <2>1. \A o \in Slots \ {s} : hand'[o].pc = "idle"
    BY <1>1, <1>3 DEF At
  <2>2. OneAtWork'
    BY <2>1 DEF OneAtWork, At
  <2>3. ASSUME NEW o \in Slots PROVE Found(hand[o])'
    <3>1. PICK x : x = hand'[o]
      OBVIOUS
    <3>2. Found(x)'
      BY <1>1, <1>3, <2>1, <3>1, IdleFound DEF Keeps
    <3> QED
      BY <3>1, <3>2 DEF Found, FoundSharing, FoundOwner, FoundDeletion, Settled
  <2> QED
    BY <2>2, <2>3
<1> QED
  BY <1>2, <1>3, <1>4 DEF AccessInv

(* While nothing overlaps, the others are idle.                            *)
LEMMA OthersIdle ==
  ASSUME AccessInv, NEW s \in Slots, ~At(s, "idle"), ~met
  PROVE  \A o \in Slots \ {s} : At(o, "idle")
BY DEF AccessInv, OneAtWork

(* A handler in flight that keeps the rows and what it has found keeps the *)
(* invariant.                                                              *)
LEMMA WorkKeeps ==
  ASSUME AccessInv, NEW s \in Slots, ~At(s, "idle"), NEW w \in Work, Keeps(s, w), met' = met
  PROVE  AccessInv'
BY StepKeeps, OthersIdle DEF AccessInv

LEMMA AccessInitInv == AccessInit => AccessInv
<1> SUFFICES ASSUME AccessInit PROVE AccessInv
  OBVIOUS
<1>1. RowsTyped
  BY AccessAssumption DEF AccessInit, RowsTyped, Team
<1>2. hand \in [Slots -> Work] /\ met \in BOOLEAN /\ \A s \in Slots : hand[s].pc = "idle"
  BY IdleWork DEF AccessInit
<1>3. ProjectsAreOwned /\ NoStrayRights
  BY DEF AccessInit, ProjectsAreOwned, NoStrayRights, Team
<1>4. OneAtWork /\ \A s \in Slots : Filled(hand[s]) /\ Found(hand[s])
  BY <1>2, IdleFound DEF OneAtWork, At
<1> QED
  BY <1>1, <1>2, <1>3, <1>4 DEF AccessInv

(* A handler that begins with what it has found changes no row.            *)
LEMMA BeginKeeps ==
  ASSUME AccessInv, NEW s \in Slots, NEW w \in Work, Start(s, w), Filled(w), ~met => Found(w)
  PROVE  AccessInv'
<1>1. met' = (met \/ \E o \in Slots \ {s} : ~At(o, "idle")) /\ met \in BOOLEAN
  BY DEF Start, Met, AccessInv
<1>2. met' \in BOOLEAN /\ (~met' => ~met /\ \A o \in Slots \ {s} : At(o, "idle"))
  BY <1>1
<1>3. RowsTyped'
  BY DEF AccessInv, Start, RowsTyped, people, rights
<1>4. ASSUME ~met' PROVE ProjectsAreOwned' /\ NoStrayRights' /\ Found(w)'
  <2>1. ProjectsAreOwned' /\ NoStrayRights'
    BY <1>2, <1>4 DEF AccessInv, Start, people, rights, ProjectsAreOwned, NoStrayRights
  <2>2. Found(w)'
    BY <1>2, <1>4 DEF Start, people, rights, Found, FoundSharing, FoundOwner, FoundDeletion,
                      Settled, Allowed, Grants
  <2> QED
    BY <2>1, <2>2
<1>5. Keeps(s, w)
  BY <1>3, <1>4 DEF Start, Keeps
<1> QED
  BY <1>2, <1>5, StepKeeps

(* A handler that only finds something out.                                *)
LEMMA LookKeeps ==
  ASSUME AccessInv, NEW s \in Slots, ~At(s, "idle"), NEW w \in Work, Filled(w), Become(s, w),
         UNCHANGED <<people, rights, met>>, ~met => Found(w)
  PROVE  AccessInv'
<1>1. RowsTyped'
  BY DEF AccessInv, RowsTyped, people, rights
<1>2. ASSUME ~met' PROVE ProjectsAreOwned' /\ NoStrayRights' /\ Found(w)'
  <2>1. ProjectsAreOwned' /\ NoStrayRights'
    BY <1>2 DEF AccessInv, people, rights, ProjectsAreOwned, NoStrayRights
  <2>2. Found(w)'
    BY <1>2 DEF people, rights, Found, FoundSharing, FoundOwner, FoundDeletion, Settled, Allowed, Grants
  <2> QED
    BY <2>1, <2>2
<1>3. Keeps(s, w)
  BY <1>1, <1>2 DEF Keeps
<1> QED
  BY <1>3, WorkKeeps

(* What a handler at work has found out, while nothing overlaps.           *)
LEMMA AtWork ==
  ASSUME AccessInv, NEW s \in Slots
  PROVE  /\ RowsTyped /\ hand[s] \in Work /\ met \in BOOLEAN
         /\ Filled(hand[s]) /\ ProjectsAreOwned /\ NoStrayRights /\ (~met => Found(hand[s]))
BY DEF AccessInv

(* A project someone has a permission on is there.                         *)
LEMMA AllowedThere ==
  ASSUME AccessInv, ~met, NEW u \in Users, NEW p \in Projects, NEW l, Allowed(u, p, l)
  PROVE  owner[p] # Nobody
BY AccessAssumption DEF AccessInv, NoStrayRights, Allowed, Grants

-----------------------------------------------------------------------------
(* The beginnings.                                                         *)

LEMMA StartShareKeeps ==
  ASSUME AccessInv, NEW r \in Requests, StartShare(r)
  PROVE  AccessInv'
<1> DEFINE ask(a, u, p) == [Idle EXCEPT !.by = a, !.project = p, !.user = u]
<1>1. PICK a \in Users, u \in Users, p \in Projects :
        /\ Allowed(a, p, ADMIN)
        /\ \/ Start(r, [ask(a, u, p) EXCEPT !.pc = "drop_user"])
           \/ \E l \in Levels, pc \in {"put_user", "set_user"} :
                Start(r, [ask(a, u, p) EXCEPT !.pc = pc, !.level = l])
  BY DEF StartShare
<1>2. r \in Slots /\ ask(a, u, p) \in Work
  BY IdleWork DEF Work, Slots
<1>3. ASSUME NEW w \in Work, w.project = p, w.by = a, w.user = u,
             w.pc \in {"drop_user", "put_user", "set_user"}
      PROVE  Filled(w) /\ (~met => Found(w))
  BY <1>1, <1>3, AllowedThere DEF Filled, Found, FoundSharing, FoundOwner, FoundDeletion, SharingSteps,
                                  OwnerSteps, DeletionSteps
<1>4. \A pc \in {"drop_user", "put_user", "set_user"} : pc \in Steps
  BY DEF Steps, SharingSteps
<1>5. CASE Start(r, [ask(a, u, p) EXCEPT !.pc = "drop_user"])
  <2>1. PICK w \in Work : w = [ask(a, u, p) EXCEPT !.pc = "drop_user"]
    BY <1>2, <1>4 DEF Work
  <2>2. w.project = p /\ w.by = a /\ w.user = u /\ w.pc = "drop_user"
    BY <2>1, IdleWork DEF Work
  <2> QED
    BY <1>2, <1>3, <1>5, <2>1, <2>2, BeginKeeps
<1>6. ASSUME NEW l \in Levels, NEW pc \in {"put_user", "set_user"},
             Start(r, [ask(a, u, p) EXCEPT !.pc = pc, !.level = l])
      PROVE  AccessInv'
  <2>1. PICK w \in Work : w = [ask(a, u, p) EXCEPT !.pc = pc, !.level = l]
    BY <1>2, <1>4, AccessAssumption DEF Work
  <2>2. w.project = p /\ w.by = a /\ w.user = u /\ w.pc = pc
    BY <2>1, IdleWork DEF Work
  <2> QED
    BY <1>2, <1>3, <1>6, <2>1, <2>2, BeginKeeps
<1> QED
  BY <1>1, <1>5, <1>6

LEMMA StartTeamShareKeeps ==
  ASSUME AccessInv, NEW r \in Requests, StartTeamShare(r)
  PROVE  AccessInv'
<1> DEFINE ask(a, p, t) == [Idle EXCEPT !.by = a, !.project = p, !.team = t]
<1>1. PICK a \in Users, p \in Projects, t \in Teams :
        /\ Allowed(a, p, ADMIN)
        /\ \/ Start(r, [ask(a, p, t) EXCEPT !.pc = "drop_team"])
           \/ \E l \in Levels : Start(r, [ask(a, p, t) EXCEPT !.pc = "put_team", !.level = l])
  BY DEF StartTeamShare
<1>2. r \in Slots /\ ask(a, p, t) \in Work
  BY IdleWork DEF Work, Slots
<1>3. ASSUME NEW w \in Work, w.project = p, w.by = a, w.team = t, w.pc \in {"drop_team", "put_team"}
      PROVE  Filled(w) /\ (~met => Found(w))
  BY <1>1, <1>3, AllowedThere DEF Filled, Found, FoundSharing, FoundOwner, FoundDeletion, SharingSteps,
                                  OwnerSteps, DeletionSteps
<1>4. "drop_team" \in Steps /\ "put_team" \in Steps
  BY DEF Steps, SharingSteps
<1>5. CASE Start(r, [ask(a, p, t) EXCEPT !.pc = "drop_team"])
  <2>1. PICK w \in Work : w = [ask(a, p, t) EXCEPT !.pc = "drop_team"]
    BY <1>2, <1>4 DEF Work
  <2>2. w.project = p /\ w.by = a /\ w.team = t /\ w.pc = "drop_team"
    BY <2>1, IdleWork DEF Work
  <2> QED
    BY <1>2, <1>3, <1>5, <2>1, <2>2, BeginKeeps
<1>6. ASSUME NEW l \in Levels, Start(r, [ask(a, p, t) EXCEPT !.pc = "put_team", !.level = l])
      PROVE  AccessInv'
  <2>1. PICK w \in Work : w = [ask(a, p, t) EXCEPT !.pc = "put_team", !.level = l]
    BY <1>2, <1>4, AccessAssumption DEF Work
  <2>2. w.project = p /\ w.by = a /\ w.team = t /\ w.pc = "put_team"
    BY <2>1, IdleWork DEF Work
  <2> QED
    BY <1>2, <1>3, <1>6, <2>1, <2>2, BeginKeeps
<1> QED
  BY <1>1, <1>5, <1>6

LEMMA StartChangeOwnerKeeps ==
  ASSUME AccessInv, NEW r \in Requests, StartChangeOwner(r)
  PROVE  AccessInv'
<1> DEFINE ask(a, p, u) == [Idle EXCEPT !.pc = "new_owner", !.by = a, !.project = p, !.user = u,
                                        !.before = owner[p]]
<1>1. PICK a \in administrator, p \in Projects, u \in Users :
        owner[p] # Nobody /\ Start(r, ask(a, p, u))
  BY DEF StartChangeOwner
<1>2. r \in Slots /\ "new_owner" \in Steps
  BY DEF Slots, Steps, OwnerSteps
<1>3. a \in Users /\ owner[p] \in Users
  BY <1>1 DEF AccessInv, RowsTyped
<1>4. PICK w \in Work : w = ask(a, p, u)
  BY <1>2, <1>3, IdleWork DEF Work
<1>5. w.pc = "new_owner" /\ w.by = a /\ w.project = p /\ w.user = u /\ w.before = owner[p]
  BY <1>4, IdleWork DEF Work
<1>6. ~met => owner[p] \in account
  BY <1>1 DEF AccessInv, ProjectsAreOwned
<1>7. Filled(w) /\ (~met => Found(w))
  BY <1>1, <1>3, <1>5, <1>6 DEF Filled, Found, FoundSharing, FoundOwner, FoundDeletion,
                               SharingSteps, DeletionSteps
<1> QED
  BY <1>1, <1>2, <1>4, <1>7, BeginKeeps

LEMMA StartDeleteProjectKeeps ==
  ASSUME AccessInv, NEW r \in Requests, StartDeleteProject(r)
  PROVE  AccessInv'
<1> DEFINE ask(a, p) == [Idle EXCEPT !.pc = "drop_project", !.by = a, !.project = p]
<1>1. PICK a \in Users, p \in Projects :
        owner[p] # Nobody /\ Allowed(a, p, ADMIN) /\ Start(r, ask(a, p))
  BY DEF StartDeleteProject
<1>2. r \in Slots /\ "drop_project" \in Steps
  BY DEF Slots, Steps, SharingSteps
<1>3. PICK w \in Work : w = ask(a, p)
  BY <1>2, IdleWork DEF Work
<1>4. w.pc = "drop_project" /\ w.by = a /\ w.project = p
  BY <1>3, IdleWork DEF Work
<1>5. Filled(w) /\ Found(w)
  BY <1>1, <1>4 DEF Filled, Found, FoundSharing, FoundOwner, FoundDeletion, OwnerSteps, DeletionSteps
<1> QED
  BY <1>1, <1>2, <1>3, <1>5, BeginKeeps

(* A deletion has found out nothing but whose account it is.               *)
LEMMA OwnedFound ==
  ASSUME NEW w \in Work, w.pc = "owned", w.user \in Users, w.heirs = {}, w.orphans = {}
  PROVE  Filled(w) /\ Found(w) /\ Found(w)'
BY DEF Filled, Found, FoundSharing, FoundOwner, FoundDeletion, SharingSteps, OwnerSteps, DeletionSteps

LEMMA StartDeleteAccountKeeps ==
  ASSUME AccessInv, NEW r \in Requests, StartDeleteAccount(r)
  PROVE  AccessInv'
<1> DEFINE ask(a, u) == [Idle EXCEPT !.pc = "owned", !.by = a, !.user = u, !.due = {u}]
<1>1. PICK a \in administrator, u \in account : Start(r, ask(a, u))
  BY DEF StartDeleteAccount
<1>2. r \in Slots /\ "owned" \in Steps /\ a \in Users /\ u \in Users /\ {u} \in SUBSET Users
  BY <1>1 DEF Slots, Steps, AccessInv, RowsTyped
<1>3. PICK w \in Work : w = ask(a, u)
  BY <1>2, IdleWork DEF Work
<1>4. w.pc = "owned" /\ w.user = u /\ w.heirs = {} /\ w.orphans = {}
  BY <1>3, IdleWork DEF Work
<1> QED
  BY <1>1, <1>2, <1>3, <1>4, OwnedFound, BeginKeeps

LEMMA StartJobKeeps ==
  ASSUME AccessInv, StartJob
  PROVE  AccessInv'
<1> DEFINE ask(u, due) == [Idle EXCEPT !.pc = "owned", !.user = u, !.due = due]
<1>1. PICK due \in SUBSET scheduled, u \in scheduled : Start(Job, ask(u, due))
  BY DEF StartJob
<1>2. Job \in Slots /\ "owned" \in Steps /\ u \in Users /\ due \in SUBSET Users
  BY <1>1 DEF Slots, Steps, AccessInv, RowsTyped
<1>3. PICK w \in Work : w = ask(u, due)
  BY <1>2, IdleWork DEF Work
<1>4. w.pc = "owned" /\ w.user = u /\ w.heirs = {} /\ w.orphans = {}
  BY <1>3, IdleWork DEF Work
<1> QED
  BY <1>1, <1>2, <1>3, <1>4, OwnedFound, BeginKeeps

-----------------------------------------------------------------------------
(* The statements that only read.                                          *)

(* What a handler carries to its next statement.                           *)
LEMMA Carried ==
  ASSUME NEW w \in Work, NEW pc \in Steps
  PROVE  \E v \in Work : /\ v = [w EXCEPT !.pc = pc] /\ v.pc = pc
                         /\ v.by = w.by /\ v.project = w.project /\ v.user = w.user /\ v.team = w.team
                         /\ v.level = w.level /\ v.before = w.before /\ v.owned = w.owned
                         /\ v.heirs = w.heirs /\ v.orphans = w.orphans /\ v.due = w.due
<1>1. PICK v : v = [w EXCEPT !.pc = pc]
  OBVIOUS
<1>2. v \in Work
  BY <1>1 DEF Work
<1>3. /\ v.pc = pc /\ v.by = w.by /\ v.project = w.project /\ v.user = w.user /\ v.team = w.team
      /\ v.level = w.level /\ v.before = w.before /\ v.owned = w.owned /\ v.heirs = w.heirs
      /\ v.orphans = w.orphans /\ v.due = w.due
  BY <1>1 DEF Work
<1> QED
  BY <1>1, <1>2, <1>3

LEMMA FinishLookKeeps ==
  ASSUME AccessInv, NEW s \in Slots, ~At(s, "idle"), Finish(s), UNCHANGED <<people, rights, met>>
  PROVE  AccessInv'
BY IdleWork, IdleFound, LookKeeps DEF Finish

LEMMA FindUserKeeps ==
  ASSUME AccessInv, NEW r \in Requests, FindUser(r)
  PROVE  AccessInv'
<1>1. PICK way \in {<<"put_user", "put_owner">>, <<"set_user", "set_row">>, <<"drop_user", "drop_row">>} :
        /\ At(r, way[1])
        /\ IF hand[r].user \in account THEN Goto(r, way[2]) ELSE Finish(r)
  BY DEF FindUser
<1>2. UNCHANGED <<people, rights, met>> /\ r \in Slots
  BY DEF FindUser, Slots
<1>3. /\ way[1] \in {"put_user", "set_user", "drop_user"}
      /\ way[2] \in {"put_owner", "set_row", "drop_row"}
  OBVIOUS
<1>4. ~At(r, "idle") /\ way[2] \in Steps
  BY <1>1, <1>3 DEF At, Steps, SharingSteps
<1>5. CASE hand[r].user \in account
  <2>1. PICK w \in Work : w = [hand[r] EXCEPT !.pc = way[2]] /\ w.pc = way[2] /\ w.by = hand[r].by
                          /\ w.project = hand[r].project /\ w.user = hand[r].user
    BY <1>2, <1>4, AtWork, Carried
  <2>2. Filled(w) /\ (~met => Found(w))
    BY <1>1, <1>2, <1>3, <1>5, <2>1, AtWork DEF At, Filled, Found, FoundSharing, FoundOwner, FoundDeletion,
                                          SharingSteps, OwnerSteps, DeletionSteps
  <2> QED
    BY <1>1, <1>2, <1>4, <1>5, <2>1, <2>2, LookKeeps DEF Goto
<1> QED
  BY <1>1, <1>2, <1>4, <1>5, FinishLookKeeps

LEMMA NotTheOwnerKeeps ==
  ASSUME AccessInv, NEW r \in Requests, NotTheOwner(r)
  PROVE  AccessInv'
<1>1. /\ r \in Slots /\ UNCHANGED <<people, rights, met>> /\ At(r, "put_owner") /\ "put_row" \in Steps
      /\ Goto(r, "put_row") \/ Finish(r)
  BY DEF NotTheOwner, Slots, Steps, SharingSteps
<1>2. ~At(r, "idle")
  BY <1>1 DEF At
<1>3. PICK w \in Work : w = [hand[r] EXCEPT !.pc = "put_row"] /\ w.pc = "put_row" /\ w.by = hand[r].by
                        /\ w.project = hand[r].project /\ w.user = hand[r].user
  BY <1>1, AtWork, Carried
<1>4. Filled(w) /\ (~met => Found(w))
  BY <1>1, <1>3, AtWork DEF At, Filled, Found, FoundSharing, FoundOwner, FoundDeletion,
                            SharingSteps, OwnerSteps, DeletionSteps
<1> QED
  BY <1>1, <1>2, <1>3, <1>4, LookKeeps, FinishLookKeeps DEF Goto

LEMMA FindNewOwnerKeeps ==
  ASSUME AccessInv, NEW r \in Requests, FindNewOwner(r)
  PROVE  AccessInv'
<1>1. /\ r \in Slots /\ UNCHANGED <<people, rights, met>> /\ At(r, "new_owner") /\ "owner" \in Steps
      /\ (hand[r].user \in account /\ Goto(r, "owner")) \/ Finish(r)
  BY DEF FindNewOwner, Slots, Steps, OwnerSteps
<1>2. ~At(r, "idle")
  BY <1>1 DEF At
<1>3. PICK w \in Work : w = [hand[r] EXCEPT !.pc = "owner"] /\ w.pc = "owner" /\ w.by = hand[r].by
                        /\ w.project = hand[r].project /\ w.user = hand[r].user
                        /\ w.before = hand[r].before
  BY <1>1, AtWork, Carried
<1>4. Filled(w) /\ (~met /\ hand[r].user \in account => Found(w))
  BY <1>1, <1>3, AtWork DEF At, Filled, Found, FoundSharing, FoundOwner, FoundDeletion,
                            SharingSteps, OwnerSteps, DeletionSteps
<1> QED
  BY <1>1, <1>2, <1>3, <1>4, LookKeeps, FinishLookKeeps DEF Goto

(* In a deletion only its own findings matter.                             *)
LEMMA DeletionFound ==
  ASSUME NEW w, w.pc \in DeletionSteps
  PROVE  (FoundDeletion(w) => Found(w)) /\ (FoundDeletion(w)' => Found(w)')
BY DEF Found, FoundSharing, FoundOwner, SharingSteps, OwnerSteps, DeletionSteps

LEMMA ReadOwnedKeeps ==
  ASSUME AccessInv, NEW s \in Slots, ReadOwned(s)
  PROVE  AccessInv'
<1> DEFINE mine == {p \in Projects : owner[p] = hand[s].user}
<1>1. /\ At(s, "owned") /\ UNCHANGED <<people, rights, met>>
      /\ Become(s, [hand[s] EXCEPT !.pc = "heirs", !.owned = mine])
  BY DEF ReadOwned
<1>2. ~At(s, "idle") /\ "heirs" \in Steps /\ mine \in SUBSET Projects
  BY <1>1 DEF At, Steps, DeletionSteps
<1>3. PICK w \in Work : w = [hand[s] EXCEPT !.pc = "heirs", !.owned = mine]
  BY <1>2, AtWork DEF Work
<1>4. /\ w.pc = "heirs" /\ w.owned = mine /\ w.user = hand[s].user
      /\ w.heirs = hand[s].heirs /\ w.orphans = hand[s].orphans
  BY <1>3, AtWork DEF Work
<1>5. Filled(w) /\ (~met => Found(w))
  <2>1. ~met => w.heirs = {} /\ w.orphans = {}
    BY <1>1, <1>4, AtWork DEF At, Found, FoundDeletion
  <2>2. ~met => Settled(w)
    BY <1>4, <2>1 DEF Settled
  <2>3. (~met => FoundDeletion(w)) /\ w.pc \in DeletionSteps
    BY <1>4, <2>2 DEF FoundDeletion, DeletionSteps
  <2>4. hand[s].user \in Users
    BY <1>1, AtWork DEF At, Filled
  <2>5. Filled(w)
    BY <1>4, <2>4 DEF Filled, SharingSteps, OwnerSteps
  <2> QED
    BY <2>3, <2>5, DeletionFound
<1> QED
  BY <1>1, <1>2, <1>3, <1>5, LookKeeps

LEMMA FindHeirKeeps ==
  ASSUME AccessInv, NEW s \in Slots, FindHeir(s)
  PROVE  AccessInv'
<1> DEFINE Others(p) == {u \in Users \ {hand[s].user} : <<p, u, ADMIN>> \in share}
           rest(p) == [hand[s] EXCEPT !.owned = @ \ {p}]
<1>1. At(s, "heirs") /\ ~At(s, "idle") /\ UNCHANGED <<people, rights, met>>
  BY DEF FindHeir, At
<1>2. hand[s] \in Work /\ hand[s].pc = "heirs" /\ "pass" \in Steps
  BY <1>1, AtWork DEF At, Steps, DeletionSteps
<1>6. ~met => Settled(hand[s]) /\ NoStrayRights
  BY <1>2, AtWork DEF Found, FoundDeletion, DeletionSteps
<1>7. hand[s].user \in Users
  BY <1>2, AtWork DEF Filled, DeletionSteps
<1>8. ASSUME NEW w \in Work, w.pc \in {"heirs", "pass"}, w.user = hand[s].user
      PROVE  Filled(w)
  BY <1>7, <1>8 DEF Filled, SharingSteps, OwnerSteps
<1>3. CASE hand[s].owned = {} /\ Goto(s, "pass")
  <2>1. PICK w \in Work : /\ w = [hand[s] EXCEPT !.pc = "pass"] /\ w.pc = "pass"
                          /\ w.user = hand[s].user /\ w.owned = hand[s].owned
                          /\ w.heirs = hand[s].heirs /\ w.orphans = hand[s].orphans
    BY <1>2, Carried
  <2>3. ~met => Settled(w)
    BY <1>3, <1>6, <2>1 DEF Settled
  <2>4. (~met => FoundDeletion(w)) /\ w.pc \in DeletionSteps
    BY <1>3, <2>1, <2>3 DEF FoundDeletion, DeletionSteps
  <2>2. ~met => Found(w)
    BY <2>4, DeletionFound
  <2> QED
    BY <1>1, <1>3, <1>8, <2>1, <2>2, LookKeeps DEF Goto
<1>4. ASSUME NEW p \in hand[s].owned, NEW h \in Others(p),
             Become(s, [rest(p) EXCEPT !.heirs = @ \cup {<<p, h>>}])
      PROVE  AccessInv'
  <2>1. p \in Projects /\ h \in Users
    BY <1>2 DEF Work
  <2>7. PICK g \in Work : g = rest(p)
    BY <1>2, <2>1 DEF Work
  <2>5. g = rest(p) /\ g.heirs = hand[s].heirs
    BY <1>2, <2>7 DEF Work
  <2>6. g.heirs \cup {<<p, h>>} \in SUBSET (Projects \X Users)
    BY <2>1, <2>5 DEF Work
  <2>2. PICK w \in Work : w = [rest(p) EXCEPT !.heirs = @ \cup {<<p, h>>}]
    BY <2>5, <2>6 DEF Work
  <2>3. /\ w.pc = "heirs" /\ w.owned = hand[s].owned \ {p} /\ w.user = hand[s].user
        /\ w.heirs = hand[s].heirs \cup {<<p, h>>} /\ w.orphans = hand[s].orphans
    BY <1>2, <2>2 DEF Work
  <2>4. ASSUME ~met PROVE Found(w)
    <3>3. <<p, h, ADMIN>> \in share /\ h # w.user /\ h \in account
      BY <1>6, <2>3, <2>4 DEF NoStrayRights
    <3>4. \A q \in Projects : owner[q] = w.user =>
            q \in w.owned \/ q \in w.orphans \/ \E x \in w.heirs : x[1] = q
      <4>1. <<p, h>> \in w.heirs /\ <<p, h>>[1] = p
        BY <2>3
      <4> QED
        BY <1>6, <2>3, <2>4, <4>1 DEF Settled
    <3>5. \A x \in w.heirs : x[2] \in account /\ x[2] # w.user /\ <<x[1], x[2], ADMIN>> \in share
      BY <1>6, <2>3, <2>4, <3>3 DEF Settled
    <3>1. Settled(w)
      BY <1>6, <2>3, <2>4, <3>4, <3>5 DEF Settled
    <3>2. FoundDeletion(w) /\ w.pc \in DeletionSteps
      BY <2>3, <3>1 DEF FoundDeletion, DeletionSteps
    <3> QED
      BY <3>2, DeletionFound
  <2> QED
    BY <1>1, <1>4, <1>8, <2>2, <2>3, <2>4, LookKeeps
<1>5. ASSUME NEW p \in hand[s].owned, Others(p) = {},
             Become(s, [rest(p) EXCEPT !.orphans = @ \cup {p}])
      PROVE  AccessInv'
  <2>1. p \in Projects
    BY <1>2 DEF Work
  <2>2. PICK w \in Work : w = [rest(p) EXCEPT !.orphans = @ \cup {p}]
    BY <1>2, <2>1 DEF Work
  <2>3. /\ w.pc = "heirs" /\ w.owned = hand[s].owned \ {p} /\ w.user = hand[s].user
        /\ w.heirs = hand[s].heirs /\ w.orphans = hand[s].orphans \cup {p}
    BY <1>2, <2>2 DEF Work
  <2>4. ASSUME ~met PROVE Found(w)
    <3>1. Settled(w)
      BY <1>5, <1>6, <2>1, <2>3, <2>4 DEF Settled, NoStrayRights
    <3>2. FoundDeletion(w) /\ w.pc \in DeletionSteps
      BY <2>3, <3>1 DEF FoundDeletion, DeletionSteps
    <3> QED
      BY <3>2, DeletionFound
  <2> QED
    BY <1>1, <1>5, <1>8, <2>2, <2>3, <2>4, LookKeeps
<1> QED
  BY <1>3, <1>4, <1>5 DEF FindHeir

-----------------------------------------------------------------------------
(* The statements that write shares, teams and owners.                     *)

LEMMA FinishKeeps ==
  ASSUME AccessInv, NEW s \in Slots, ~At(s, "idle"), Finish(s), met' = met, RowsTyped',
         ~met => ProjectsAreOwned' /\ NoStrayRights'
  PROVE  AccessInv'
<1>1. Keeps(s, Idle)
  BY IdleWork, IdleFound DEF Finish, Keeps
<1> QED
  BY <1>1, IdleWork, WorkKeeps

(* The rows of a user's shares of a project.                               *)
LEMMA RowsAreShares == \A p, u : Rows(p, u) \subseteq share
BY DEF Rows

LEMMA PutShareKeeps ==
  ASSUME AccessInv, NEW r \in Requests, PutShare(r)
  PROVE  AccessInv'
<1> DEFINE w == hand[r]
<1>1. /\ r \in Slots /\ At(r, "put_row") /\ ~At(r, "idle") /\ Finish(r) /\ met' = met
      /\ share' = share \cup {<<w.project, w.user, w.level>>}
      /\ UNCHANGED <<people, owner, team_share, role>>
  BY DEF PutShare, Slots, At
<1>2. w.project \in Projects /\ w.user \in Users /\ w.level \in {READ, WRITE, ADMIN}
  BY <1>1, AtWork DEF At, Filled, Work, SharingSteps
<1>3. ~met => owner[w.project] # Nobody /\ w.user \in account
  BY <1>1, AtWork DEF At, Found, FoundSharing, SharingSteps
<1>4. RowsTyped'
  BY <1>1, <1>2, AtWork DEF RowsTyped, people, Shares
<1>5. ~met => ProjectsAreOwned' /\ NoStrayRights'
  BY <1>1, <1>3, AtWork DEF ProjectsAreOwned, NoStrayRights, people
<1> QED
  BY <1>1, <1>4, <1>5, FinishKeeps

LEMMA SetShareKeeps ==
  ASSUME AccessInv, NEW r \in Requests, SetShare(r)
  PROVE  AccessInv'
<1> DEFINE w == hand[r]
           old == Rows(w.project, w.user)
<1>1. /\ r \in Slots /\ At(r, "set_row") /\ ~At(r, "idle") /\ Finish(r) /\ met' = met
      /\ share' = (share \ old) \cup {<<x[1], x[2], w.level>> : x \in old}
      /\ UNCHANGED <<people, owner, team_share, role>>
  BY DEF SetShare, Slots, At
<1>2. w.level \in {READ, WRITE, ADMIN}
  BY <1>1, AtWork DEF Work
<1>3. \A x \in share' : x \in share \/ \E y \in share : x = <<y[1], y[2], w.level>>
  BY <1>1, RowsAreShares
<1>4. RowsTyped'
  <2>1. \A y \in Shares : <<y[1], y[2], w.level>> \in Shares
    BY <1>2 DEF Shares
  <2>2. share' \subseteq Shares
    BY <1>3, <2>1 DEF AccessInv, RowsTyped
  <2> QED
    BY <1>1, <2>2, AtWork DEF RowsTyped, people
<1>5. ~met => ProjectsAreOwned' /\ NoStrayRights'
  BY <1>1, <1>3, AtWork DEF ProjectsAreOwned, NoStrayRights, people
<1> QED
  BY <1>1, <1>4, <1>5, FinishKeeps

LEMMA DropShareKeeps ==
  ASSUME AccessInv, NEW r \in Requests, DropShare(r)
  PROVE  AccessInv'
<1>1. /\ r \in Slots /\ At(r, "drop_row") /\ ~At(r, "idle") /\ Finish(r) /\ met' = met
      /\ share' \subseteq share /\ UNCHANGED <<people, owner, team_share, role>>
  BY DEF DropShare, Slots, At
<1>2. RowsTyped'
  BY <1>1, AtWork DEF RowsTyped, people
<1>3. ~met => ProjectsAreOwned' /\ NoStrayRights'
  BY <1>1, AtWork DEF ProjectsAreOwned, NoStrayRights, people
<1> QED
  BY <1>1, <1>2, <1>3, FinishKeeps

LEMMA PutTeamShareKeeps ==
  ASSUME AccessInv, NEW r \in Requests, PutTeamShare(r)
  PROVE  AccessInv'
<1> DEFINE w == hand[r]
<1>1. /\ r \in Slots /\ At(r, "put_team") /\ ~At(r, "idle") /\ Finish(r) /\ met' = met
      /\ team_share' = team_share \cup {<<w.project, w.team, w.level>>}
      /\ UNCHANGED <<people, owner, share, role>>
  BY DEF PutTeamShare, Slots, At
<1>2. w.project \in Projects /\ w.team \in Teams /\ w.level \in {READ, WRITE, ADMIN}
  BY <1>1, AtWork DEF At, Filled, Work, SharingSteps
<1>3. ~met => owner[w.project] # Nobody
  BY <1>1, AtWork DEF At, Found, FoundSharing, SharingSteps
<1>4. RowsTyped'
  BY <1>1, <1>2, AtWork DEF RowsTyped, people, TeamShares
<1>5. ~met => ProjectsAreOwned' /\ NoStrayRights'
  BY <1>1, <1>3, AtWork DEF ProjectsAreOwned, NoStrayRights, people
<1> QED
  BY <1>1, <1>4, <1>5, FinishKeeps

LEMMA DropTeamShareKeeps ==
  ASSUME AccessInv, NEW r \in Requests, DropTeamShare(r)
  PROVE  AccessInv'
<1>1. /\ r \in Slots /\ At(r, "drop_team") /\ ~At(r, "idle") /\ Finish(r) /\ met' = met
      /\ team_share' \subseteq team_share /\ UNCHANGED <<people, owner, share, role>>
  BY DEF DropTeamShare, Slots, At
<1>2. RowsTyped'
  BY <1>1, AtWork DEF RowsTyped, people
<1>3. ~met => ProjectsAreOwned' /\ NoStrayRights'
  BY <1>1, AtWork DEF ProjectsAreOwned, NoStrayRights, people
<1> QED
  BY <1>1, <1>2, <1>3, FinishKeeps

(* A project that goes takes its rows with it.                             *)
LEMMA DeleteProjectKeeps ==
  ASSUME AccessInv, NEW p \in Projects, DeleteProject(p), UNCHANGED <<people, role, met>>
  PROVE  RowsTyped' /\ (~met => ProjectsAreOwned' /\ NoStrayRights')
<1>1. owner' \in [Projects -> Users \cup {Nobody}]
  BY AtWork DEF DeleteProject, AccessInv, RowsTyped
<1>2. \A q \in Projects : owner'[q] = IF q = p THEN Nobody ELSE owner[q]
  BY DEF DeleteProject, AccessInv, RowsTyped
<1>3. RowsTyped'
  BY <1>1 DEF DeleteProject, AccessInv, RowsTyped, people
<1>4. ASSUME ~met PROVE ProjectsAreOwned' /\ NoStrayRights'
  <2>1. ProjectsAreOwned'
    BY <1>2, <1>4 DEF AccessInv, ProjectsAreOwned, people
  <2>2. \A x \in share' : owner'[x[1]] # Nobody /\ x[2] \in account'
    BY <1>2, <1>4 DEF AccessInv, RowsTyped, Shares, DeleteProject, NoStrayRights, people
  <2>3. \A x \in team_share' : owner'[x[1]] # Nobody
    BY <1>2, <1>4 DEF AccessInv, RowsTyped, TeamShares, DeleteProject, NoStrayRights, people
  <2> QED
    BY <1>4, <2>1, <2>2, <2>3 DEF AccessInv, NoStrayRights, people
<1> QED
  BY <1>3, <1>4

LEMMA DropProjectKeeps ==
  ASSUME AccessInv, NEW r \in Requests, DropProject(r)
  PROVE  AccessInv'
<1>1. /\ r \in Slots /\ At(r, "drop_project") /\ ~At(r, "idle") /\ Finish(r)
      /\ DeleteProject(hand[r].project) /\ UNCHANGED <<people, role, met>>
  BY DEF DropProject, Slots, At
<1>2. hand[r].project \in Projects
  BY <1>1, AtWork DEF At, Filled, SharingSteps
<1> QED
  BY <1>1, <1>2, DeleteProjectKeeps, FinishKeeps

LEMMA SetOwnerKeeps ==
  ASSUME AccessInv, NEW r \in Requests, SetOwner(r)
  PROVE  AccessInv'
<1> DEFINE w == hand[r]
<1>1. /\ r \in Slots /\ At(r, "owner") /\ ~At(r, "idle") /\ "redundant" \in Steps
      /\ Become(r, [w EXCEPT !.pc = "redundant"])
      /\ owner' = IF owner[w.project] = Nobody THEN owner ELSE [owner EXCEPT ![w.project] = w.user]
      /\ UNCHANGED <<people, share, team_share, role, met>>
  BY DEF SetOwner, Slots, At, Steps, OwnerSteps, Goto
<1>2. w.project \in Projects /\ w.user \in Users /\ w.before \in Users
  BY <1>1, AtWork DEF At, Filled, OwnerSteps
<1>3. ~met => /\ owner[w.project] # Nobody /\ w.by \in administrator
              /\ w.user \in account /\ w.before \in account
  BY <1>1, AtWork DEF At, Found, FoundOwner, OwnerSteps
<1>4. PICK v \in Work : /\ v = [w EXCEPT !.pc = "redundant"] /\ v.pc = "redundant" /\ v.by = w.by
                        /\ v.project = w.project /\ v.user = w.user /\ v.before = w.before
  BY <1>1, AtWork, Carried
<1>5. RowsTyped'
  BY <1>1, <1>2, AtWork DEF RowsTyped, people
<1>6. ~met => \A p \in Projects : owner'[p] = IF p = w.project THEN w.user ELSE owner[p]
  BY <1>1, <1>2, <1>3, AtWork DEF RowsTyped
<1>7. ~met => ProjectsAreOwned' /\ NoStrayRights'
  BY <1>1, <1>2, <1>3, <1>6, AtWork, AccessAssumption
     DEF ProjectsAreOwned, NoStrayRights, people, RowsTyped, Shares, TeamShares
<1>8. ~met => Found(v)'
  BY <1>1, <1>2, <1>3, <1>4, <1>6, AccessAssumption
     DEF Found, FoundSharing, FoundOwner, FoundDeletion, SharingSteps, OwnerSteps, DeletionSteps, people
<1>9. Filled(v)
  BY <1>2, <1>4 DEF Filled, SharingSteps, DeletionSteps
<1> QED
  BY <1>1, <1>4, <1>5, <1>7, <1>8, <1>9, WorkKeeps DEF Keeps

LEMMA DropRedundantShareKeeps ==
  ASSUME AccessInv, NEW r \in Requests, DropRedundantShare(r)
  PROVE  AccessInv'
<1> DEFINE w == hand[r]
<1>1. /\ r \in Slots /\ At(r, "redundant") /\ ~At(r, "idle") /\ "previous" \in Steps
      /\ Become(r, [w EXCEPT !.pc = "previous"])
      /\ share' \subseteq share /\ UNCHANGED <<people, owner, team_share, role, met>>
  BY DEF DropRedundantShare, Slots, At, Steps, OwnerSteps, Goto
<1>2. w.project \in Projects /\ w.user \in Users /\ w.before \in Users
  BY <1>1, AtWork DEF At, Filled, OwnerSteps
<1>3. ~met => /\ owner[w.project] # Nobody /\ w.by \in administrator
              /\ w.user \in account /\ w.before \in account
  BY <1>1, AtWork DEF At, Found, FoundOwner, OwnerSteps
<1>4. PICK v \in Work : /\ v = [w EXCEPT !.pc = "previous"] /\ v.pc = "previous" /\ v.by = w.by
                        /\ v.project = w.project /\ v.user = w.user /\ v.before = w.before
  BY <1>1, AtWork, Carried
<1>5. RowsTyped'
  BY <1>1, AtWork DEF RowsTyped, people
<1>7. ~met => ProjectsAreOwned' /\ NoStrayRights'
  BY <1>1, AtWork DEF ProjectsAreOwned, NoStrayRights, people
<1>8. ~met => Found(v)'
  BY <1>1, <1>2, <1>3, <1>4
     DEF Found, FoundSharing, FoundOwner, FoundDeletion, SharingSteps, OwnerSteps, DeletionSteps, people
<1>9. Filled(v)
  BY <1>2, <1>4 DEF Filled, SharingSteps, DeletionSteps
<1> QED
  BY <1>1, <1>4, <1>5, <1>7, <1>8, <1>9, WorkKeeps DEF Keeps

LEMMA SharePreviousKeeps ==
  ASSUME AccessInv, NEW r \in Requests, SharePrevious(r)
  PROVE  AccessInv'
<1> DEFINE w == hand[r]
<1>1. /\ r \in Slots /\ At(r, "previous") /\ ~At(r, "idle") /\ Finish(r) /\ met' = met
      /\ share' = share \cup {<<w.project, w.before, ADMIN>>}
      /\ UNCHANGED <<people, owner, team_share, role>>
  BY DEF SharePrevious, Slots, At
<1>2. w.project \in Projects /\ w.before \in Users
  BY <1>1, AtWork DEF At, Filled, OwnerSteps
<1>3. ~met => owner[w.project] # Nobody /\ w.before \in account
  BY <1>1, AtWork DEF At, Found, FoundOwner, OwnerSteps
<1>4. RowsTyped'
  BY <1>1, <1>2, AtWork DEF RowsTyped, people, Shares
<1>5. ~met => ProjectsAreOwned' /\ NoStrayRights'
  BY <1>1, <1>3, AtWork DEF ProjectsAreOwned, NoStrayRights, people
<1> QED
  BY <1>1, <1>4, <1>5, FinishKeeps

-----------------------------------------------------------------------------
(* The deletion of an account.                                             *)

(* What a deletion has found, at any statement after the first.            *)
LEMMA InDeletion ==
  ASSUME AccessInv, NEW s \in Slots, hand[s].pc \in DeletionSteps
  PROVE  /\ hand[s] \in Work /\ hand[s].user \in Users /\ RowsTyped
         /\ ~met => FoundDeletion(hand[s]) /\ Settled(hand[s]) /\ ProjectsAreOwned /\ NoStrayRights
<1>1. hand[s] \in Work /\ Filled(hand[s]) /\ RowsTyped /\ (~met => Found(hand[s]))
  BY AtWork
<1>2. hand[s].user \in Users
  BY <1>1 DEF Filled
<1> QED
  BY <1>1, <1>2, AtWork DEF Found, FoundDeletion

LEMMA PassOnKeeps ==
  ASSUME AccessInv, NEW s \in Slots, PassOn(s)
  PROVE  AccessInv'
<1> DEFINE w == hand[s]
<1>1. At(s, "pass") /\ ~At(s, "idle") /\ w.pc = "pass" /\ UNCHANGED <<people, share, team_share, role, met>>
  BY DEF PassOn, At
<1>2. w.pc \in DeletionSteps /\ "cascade" \in Steps /\ "passed" \in Steps
  BY <1>1 DEF DeletionSteps, Steps
<1>3. /\ w \in Work /\ w.user \in Users /\ RowsTyped
      /\ ~met => FoundDeletion(w) /\ Settled(w) /\ ProjectsAreOwned /\ NoStrayRights
  BY <1>2, InDeletion
<1>4. CASE w.heirs = {} /\ Goto(s, "cascade") /\ UNCHANGED owner
  <2>1. PICK v \in Work : /\ v = [w EXCEPT !.pc = "cascade"] /\ v.pc = "cascade" /\ v.user = w.user
                          /\ v.owned = w.owned /\ v.heirs = w.heirs /\ v.orphans = w.orphans
    BY <1>2, <1>3, Carried
  <2>2. ~met => FoundDeletion(v)
    BY <1>1, <1>3, <1>4, <2>1 DEF FoundDeletion, Settled, DeletionSteps
  <2>3. v.pc \in DeletionSteps /\ Filled(v)
    BY <1>3, <2>1 DEF Filled, DeletionSteps, SharingSteps, OwnerSteps
  <2> QED
    BY <1>1, <1>4, <2>1, <2>2, <2>3, DeletionFound, LookKeeps DEF Goto, rights
<1>5. ASSUME NEW heir \in w.heirs,
             owner' = IF owner[heir[1]] = Nobody THEN owner ELSE [owner EXCEPT ![heir[1]] = heir[2]],
             Become(s, [w EXCEPT !.pc = "passed", !.project = heir[1], !.before = heir[2],
                                 !.heirs = @ \ {heir}])
      PROVE  AccessInv'
  <2> DEFINE p == heir[1]
             h == heir[2]
  <2>1. p \in Projects /\ h \in Users /\ heir = <<p, h>>
    BY <1>3 DEF Work
  <2>2. PICK v \in Work : v = [w EXCEPT !.pc = "passed", !.project = p, !.before = h, !.heirs = @ \ {heir}]
    BY <1>2, <1>3, <2>1 DEF Work
  <2>3. /\ v.pc = "passed" /\ v.user = w.user /\ v.owned = w.owned /\ v.orphans = w.orphans
        /\ v.project = p /\ v.before = h /\ v.heirs = w.heirs \ {heir}
    BY <1>3, <2>2 DEF Work
  <2>4. v.pc \in DeletionSteps /\ Filled(v)
    BY <1>3, <2>1, <2>3 DEF Filled, DeletionSteps, SharingSteps, OwnerSteps
  <2>5. RowsTyped'
    BY <1>1, <1>3, <1>5, <2>1 DEF RowsTyped, people
  <2>6. ASSUME ~met PROVE ProjectsAreOwned' /\ NoStrayRights' /\ FoundDeletion(v)'
    <3>1. h \in account /\ h # w.user /\ <<p, h, ADMIN>> \in share
      BY <1>3, <2>6 DEF Settled
    <3>2. owner[p] # Nobody
      BY <1>3, <2>6, <3>1 DEF NoStrayRights
    <3>3. \A q \in Projects : owner'[q] = IF q = p THEN h ELSE owner[q]
      BY <1>3, <1>5, <2>1, <3>2 DEF RowsTyped
    <3>4. ProjectsAreOwned'
      BY <1>1, <1>3, <2>6, <3>1, <3>3 DEF ProjectsAreOwned, people
    <3>5. NoStrayRights'
      BY <1>1, <1>3, <2>1, <2>6, <3>3, AccessAssumption
         DEF NoStrayRights, people, RowsTyped, Shares, TeamShares
    <3>6. Settled(v)'
      BY <1>1, <1>3, <2>1, <2>3, <2>6, <3>1, <3>3 DEF Settled, people
    <3>7. FoundDeletion(v)'
      BY <1>1, <1>3, <2>1, <2>3, <2>6, <3>6 DEF FoundDeletion
    <3> QED
      BY <3>4, <3>5, <3>7
  <2> QED
    BY <1>1, <1>5, <2>2, <2>4, <2>5, <2>6, DeletionFound, WorkKeeps DEF Keeps
<1> QED
  BY <1>4, <1>5 DEF PassOn

LEMMA DropHeirsShareKeeps ==
  ASSUME AccessInv, NEW s \in Slots, DropHeirsShare(s)
  PROVE  AccessInv'
<1> DEFINE w == hand[s]
<1>1. /\ At(s, "passed") /\ ~At(s, "idle") /\ w.pc = "passed" /\ Become(s, [w EXCEPT !.pc = "pass"])
      /\ share' = share \ Rows(w.project, w.before)
      /\ UNCHANGED <<people, owner, team_share, role, met>>
  BY DEF DropHeirsShare, At, Goto
<1>2. w.pc \in DeletionSteps /\ "pass" \in Steps
  BY <1>1 DEF DeletionSteps, Steps
<1>3. /\ w \in Work /\ w.user \in Users /\ RowsTyped
      /\ ~met => FoundDeletion(w) /\ Settled(w) /\ ProjectsAreOwned /\ NoStrayRights
  BY <1>2, InDeletion
<1>4. PICK v \in Work : /\ v = [w EXCEPT !.pc = "pass"] /\ v.pc = "pass" /\ v.user = w.user
                        /\ v.owned = w.owned /\ v.heirs = w.heirs /\ v.orphans = w.orphans
  BY <1>2, <1>3, Carried
<1>5. RowsTyped'
  BY <1>1, <1>3 DEF RowsTyped, people
<1>6. ASSUME ~met PROVE ProjectsAreOwned' /\ NoStrayRights' /\ FoundDeletion(v)'
  <2>1. ProjectsAreOwned' /\ NoStrayRights'
    BY <1>1, <1>3, <1>6 DEF ProjectsAreOwned, NoStrayRights, people
  <2>2. <<w.project, w.before>> \notin w.heirs /\ w.owned = {}
    BY <1>1, <1>3, <1>6 DEF FoundDeletion
  <2>3. ASSUME NEW x \in v.heirs PROVE <<x[1], x[2], ADMIN>> \in share'
    <3>1. x = <<x[1], x[2]>> /\ <<x[1], x[2], ADMIN>> \in share
      BY <1>3, <1>4, <1>6 DEF Work, Settled
    <3>2. <<x[1], x[2], ADMIN>> \notin Rows(w.project, w.before)
      BY <1>4, <2>2, <3>1 DEF Rows
    <3> QED
      BY <1>1, <3>1, <3>2
  <2>4. Settled(v)'
    BY <1>1, <1>3, <1>4, <1>6, <2>3 DEF Settled, people
  <2> QED
    BY <1>4, <2>1, <2>2, <2>4 DEF FoundDeletion
<1>7. v.pc \in DeletionSteps /\ Filled(v)
  BY <1>3, <1>4 DEF Filled, DeletionSteps, SharingSteps, OwnerSteps
<1> QED
  BY <1>1, <1>4, <1>5, <1>6, <1>7, DeletionFound, WorkKeeps DEF Keeps

LEMMA CascadeOwnedKeeps ==
  ASSUME AccessInv, NEW s \in Slots, CascadeOwned(s)
  PROVE  AccessInv'
<1> DEFINE w == hand[s]
<1>1. At(s, "cascade") /\ ~At(s, "idle") /\ w.pc = "cascade" /\ UNCHANGED <<people, role, met>>
  BY DEF CascadeOwned, At
<1>2. w.pc \in DeletionSteps /\ "cascade" \in Steps /\ "close" \in Steps
  BY <1>1 DEF DeletionSteps, Steps
<1>3. /\ w \in Work /\ w.user \in Users /\ RowsTyped
      /\ ~met => FoundDeletion(w) /\ Settled(w) /\ ProjectsAreOwned /\ NoStrayRights
  BY <1>2, InDeletion
<1>4. CASE w.orphans = {} /\ Goto(s, "close") /\ UNCHANGED <<owner, share, team_share>>
  <2>1. PICK v \in Work : /\ v = [w EXCEPT !.pc = "close"] /\ v.pc = "close" /\ v.user = w.user
                          /\ v.owned = w.owned /\ v.heirs = w.heirs /\ v.orphans = w.orphans
    BY <1>2, <1>3, Carried
  <2>2. ~met => FoundDeletion(v)
    BY <1>1, <1>3, <1>4, <2>1 DEF FoundDeletion, Settled, DeletionSteps
  <2>3. v.pc \in DeletionSteps /\ Filled(v)
    BY <1>3, <2>1 DEF Filled, DeletionSteps, SharingSteps, OwnerSteps
  <2> QED
    BY <1>1, <1>4, <2>1, <2>2, <2>3, DeletionFound, LookKeeps DEF Goto, rights
<1>5. ASSUME NEW p \in w.orphans, DeleteProject(p), Become(s, [w EXCEPT !.orphans = @ \ {p}])
      PROVE  AccessInv'
  <2>1. p \in Projects
    BY <1>3 DEF Work
  <2>2. PICK v \in Work : v = [w EXCEPT !.orphans = @ \ {p}]
    BY <1>3 DEF Work
  <2>3. /\ v.pc = "cascade" /\ v.user = w.user /\ v.owned = w.owned /\ v.heirs = w.heirs
        /\ v.orphans = w.orphans \ {p}
    BY <1>1, <1>3, <2>2 DEF Work
  <2>4. v.pc \in DeletionSteps /\ Filled(v)
    BY <1>3, <2>3 DEF Filled, DeletionSteps, SharingSteps, OwnerSteps
  <2>5. RowsTyped' /\ (~met => ProjectsAreOwned' /\ NoStrayRights')
    BY <1>1, <1>5, <2>1, DeleteProjectKeeps
  <2>6. ASSUME ~met PROVE FoundDeletion(v)'
    <3>1. w.heirs = {} /\ w.owned = {}
      BY <1>1, <1>3, <2>6 DEF FoundDeletion
    <3>2. \A q \in Projects : owner'[q] = w.user => q # p /\ owner[q] = w.user
      BY <1>3, <1>5, AccessAssumption DEF DeleteProject, RowsTyped
    <3>3. \A q \in Projects : owner'[q] = w.user => q \in v.orphans
      BY <1>3, <2>3, <2>6, <3>1, <3>2 DEF Settled
    <3>4. \A q \in v.orphans, u \in Users \ {w.user} : <<q, u, ADMIN>> \notin share'
      BY <1>3, <1>5, <2>3, <2>6 DEF DeleteProject, Settled
    <3>5. Settled(v)'
      BY <2>3, <3>1, <3>3, <3>4 DEF Settled
    <3> QED
      BY <2>3, <3>1, <3>5 DEF FoundDeletion
  <2> QED
    BY <1>1, <1>5, <2>2, <2>4, <2>5, <2>6, DeletionFound, WorkKeeps DEF Keeps
<1> QED
  BY <1>4, <1>5 DEF CascadeOwned

LEMMA CloseAccountKeeps ==
  ASSUME AccessInv, NEW s \in Slots, CloseAccount(s)
  PROVE  AccessInv'
<1> DEFINE w == hand[s]
           u == w.user
           rest == w.due \ {u}
<1>1. At(s, "close") /\ ~At(s, "idle") /\ w.pc = "close" /\ UNCHANGED <<owner, team_share, met>>
  BY DEF CloseAccount, At
<1>2. /\ account' = account \ {u} /\ administrator' = administrator \ {u}
      /\ scheduled' = scheduled \ {u} /\ share' = {x \in share : x[2] # u}
      /\ role' = [x \in Team |-> IF x[2] = u THEN "none" ELSE role[x]]
  BY DEF CloseAccount
<1>3. w.pc \in DeletionSteps
  BY <1>1 DEF DeletionSteps
<1>4. /\ w \in Work /\ w.user \in Users /\ RowsTyped
      /\ ~met => FoundDeletion(w) /\ Settled(w) /\ ProjectsAreOwned /\ NoStrayRights
  BY <1>3, InDeletion
<1>5. RowsTyped'
  BY <1>1, <1>2, <1>4 DEF RowsTyped
<1>6. ASSUME ~met PROVE ProjectsAreOwned' /\ NoStrayRights'
  <2>1. \A p \in Projects : owner[p] # u
    BY <1>1, <1>4, <1>6 DEF FoundDeletion, Settled
  <2>2. ProjectsAreOwned'
    BY <1>1, <1>2, <1>4, <1>6, <2>1 DEF ProjectsAreOwned
  <2>3. NoStrayRights'
    BY <1>1, <1>2, <1>4, <1>6 DEF NoStrayRights
  <2> QED
    BY <2>2, <2>3
<1>7. CASE Finish(s)
  BY <1>1, <1>5, <1>6, <1>7, FinishKeeps
<1>8. ASSUME NEW v \in rest,
             Become(s, [Idle EXCEPT !.pc = "owned", !.by = w.by, !.user = v, !.due = rest])
      PROVE  AccessInv'
  <2>1. v \in Users /\ rest \in SUBSET Users /\ w.by \in Users \cup {Nobody} /\ "owned" \in Steps
    BY <1>4 DEF Work, Steps
  <2>2. PICK x \in Work : x = [Idle EXCEPT !.pc = "owned", !.by = w.by, !.user = v, !.due = rest]
    BY <2>1, IdleWork DEF Work
  <2>3. x.pc = "owned" /\ x.user = v /\ x.heirs = {} /\ x.orphans = {}
    BY <2>2, IdleWork DEF Work
  <2> QED
    BY <1>1, <1>5, <1>6, <1>8, <2>1, <2>2, <2>3, OwnedFound, WorkKeeps DEF Keeps
<1> QED
  BY <1>7, <1>8 DEF CloseAccount

-----------------------------------------------------------------------------
(* The steps that are taken whole.                                         *)

(* With every slot free there is nothing that could have been found.       *)
LEMMA FreeKeeps ==
  ASSUME AccessInv, RowsTyped', hand' \in [Slots -> Work], met' \in BOOLEAN,
         \A s \in Slots : Filled(hand'[s]),
         ~met' => ProjectsAreOwned' /\ NoStrayRights' /\ \A s \in Slots : hand'[s].pc = "idle"
  PROVE  AccessInv'
<1>1. (\A s \in Slots : Filled(hand[s]))'
  BY DEF Filled
<1>2. ASSUME ~met' PROVE OneAtWork' /\ \A s \in Slots : Found(hand[s])'
  BY <1>2 DEF OneAtWork, At, Found, FoundSharing, FoundOwner, FoundDeletion, SharingSteps,
              OwnerSteps, DeletionSteps
<1> QED
  BY <1>1, <1>2 DEF AccessInv, ProjectsAreOwned, NoStrayRights

(* A request that is asked for and answered at once.                       *)
LEMMA AskKeeps ==
  ASSUME AccessInv, Ask(Slots), UNCHANGED hand, RowsTyped',
         ~met => ProjectsAreOwned' /\ NoStrayRights'
  PROVE  AccessInv'
<1>1. ~met /\ met' = (met \/ \E o \in Slots : ~At(o, "idle"))
  BY DEF Ask, Met
<1>2. met' \in BOOLEAN /\ (~met' => \A o \in Slots : hand'[o].pc = "idle")
  BY <1>1 DEF At
<1>3. hand' \in [Slots -> Work] /\ \A s \in Slots : Filled(hand'[s])
  BY DEF AccessInv
<1> QED
  BY <1>1, <1>2, <1>3, FreeKeeps

LEMMA ChangeMemberKeeps ==
  ASSUME AccessInv, ChangeMember
  PROVE  AccessInv'
<1>1. PICK t \in Teams, u \in account, as \in {"none", "member", "admin"} :
        role' = [role EXCEPT ![<<t, u>>] = as]
  BY DEF ChangeMember
<1>2. Ask(Slots) /\ UNCHANGED <<people, owner, share, team_share, hand>>
  BY DEF ChangeMember
<1>3. RowsTyped /\ RowsTyped'
  BY <1>1, <1>2 DEF AccessInv, RowsTyped, people
<1>4. <<t, u>>[2] = u /\ u \in Users
  BY <1>3 DEF RowsTyped
<1>5. \A m \in Team : role'[m] # role[m] => m[2] \in account
  BY <1>1, <1>3, <1>4 DEF RowsTyped
<1>6. ~met => ProjectsAreOwned' /\ NoStrayRights'
  BY <1>2, <1>5 DEF AccessInv, ProjectsAreOwned, NoStrayRights, people
<1> QED
  BY <1>2, <1>3, <1>6, AskKeeps

LEMMA ScheduleKeeps ==
  ASSUME AccessInv, ScheduleDeletion \/ CancelDeletion
  PROVE  AccessInv'
<1>1. Ask(Slots) /\ UNCHANGED <<account, administrator, rights, hand>>
  BY DEF ScheduleDeletion, CancelDeletion
<1>2. RowsTyped'
  BY <1>1 DEF AccessInv, RowsTyped, rights, ScheduleDeletion, CancelDeletion
<1>3. ~met => ProjectsAreOwned' /\ NoStrayRights'
  BY <1>1 DEF AccessInv, ProjectsAreOwned, NoStrayRights, rights
<1> QED
  BY <1>1, <1>2, <1>3, AskKeeps

LEMMA CrashKeeps ==
  ASSUME AccessInv, Crash
  PROVE  AccessInv'
<1>1. hand' = [s \in Slots |-> Idle] /\ UNCHANGED <<people, rights, met>>
  BY DEF Crash
<1>2. RowsTyped' /\ met' \in BOOLEAN
  BY <1>1 DEF AccessInv, RowsTyped, people, rights
<1>3. ~met' => ProjectsAreOwned' /\ NoStrayRights'
  BY <1>1 DEF AccessInv, ProjectsAreOwned, NoStrayRights, people, rights
<1>4. hand' \in [Slots -> Work] /\ \A s \in Slots : Filled(hand'[s]) /\ hand'[s].pc = "idle"
  BY <1>1, IdleWork, IdleFound
<1> QED
  BY <1>2, <1>3, <1>4, FreeKeeps

-----------------------------------------------------------------------------
(* The theorems.                                                           *)

LEMMA SharingKeeps ==
  ASSUME AccessInv, NEW r \in Requests, Sharing(r)
  PROVE  AccessInv'
BY FindUserKeeps, NotTheOwnerKeeps, PutShareKeeps, SetShareKeeps, DropShareKeeps,
   PutTeamShareKeeps, DropTeamShareKeeps, FindNewOwnerKeeps, SetOwnerKeeps,
   DropRedundantShareKeeps, SharePreviousKeeps, DropProjectKeeps DEF Sharing

LEMMA DeletionKeeps ==
  ASSUME AccessInv, NEW s \in Slots, Deletion(s)
  PROVE  AccessInv'
BY ReadOwnedKeeps, FindHeirKeeps, PassOnKeeps, DropHeirsShareKeeps, CascadeOwnedKeeps,
   CloseAccountKeeps DEF Deletion

LEMMA AccessNextInv == AccessInv /\ [AccessNext]_accessVars => AccessInv'
<1> SUFFICES ASSUME AccessInv, [AccessNext]_accessVars PROVE AccessInv'
  OBVIOUS
<1>1. CASE UNCHANGED accessVars
  <2>1. /\ UNCHANGED <<account, administrator, scheduled, owner, share, team_share, role>>
        /\ UNCHANGED <<hand, met>>
    BY <1>1 DEF accessVars
  <2>2. RowsTyped' /\ ProjectsAreOwned' /\ NoStrayRights'
    BY <2>1 DEF AccessInv, RowsTyped, ProjectsAreOwned, NoStrayRights
  <2>3. \A s \in Slots : Filled(hand'[s])
    BY <2>1 DEF AccessInv
  <2>4. (\A s \in Slots : Filled(hand[s]))'
    BY <2>3 DEF Filled
  <2>5. ASSUME NEW s \in Slots, Found(hand[s]) PROVE Found(hand[s])'
    <3>1. PICK x : x = hand[s] /\ x = hand'[s]
      BY <2>1
    <3>2. Found(x)'
      BY <2>1, <2>5, <3>1 DEF Found, FoundSharing, FoundOwner, FoundDeletion, Settled, Allowed, Grants
    <3> QED
      BY <3>1, <3>2 DEF Found, FoundSharing, FoundOwner, FoundDeletion, Settled
  <2> QED
    BY <2>1, <2>2, <2>4, <2>5 DEF AccessInv, OneAtWork, At
<1>2. ASSUME NEW r \in Requests,
             \/ StartShare(r) \/ StartTeamShare(r) \/ StartChangeOwner(r)
             \/ StartDeleteProject(r) \/ StartDeleteAccount(r) \/ Sharing(r)
      PROVE  AccessInv'
  BY <1>2, StartShareKeeps, StartTeamShareKeeps, StartChangeOwnerKeeps, StartDeleteProjectKeeps,
     StartDeleteAccountKeeps, SharingKeeps
<1>3. CASE AccessNext
  BY <1>2, <1>3, ChangeMemberKeeps, ScheduleKeeps, StartJobKeeps, DeletionKeeps, CrashKeeps
     DEF AccessNext
<1> QED
  BY <1>1, <1>3

LEMMA AccessAlways == AccessSpec => []AccessInv
<1> QED
  BY AccessInitInv, AccessNextInv, PTL DEF AccessSpec

(* A project that is there belongs to an account that is there, whatever   *)
(* is transferred, cascades or is cut off (account.js:278).                *)
THEOREM EveryProjectIsOwned == AccessSpec => []ProjectsAreOwned
<1>1. AccessInv => ProjectsAreOwned
  BY DEF AccessInv
<1> QED
  BY <1>1, AccessAlways, PTL

(* No share or membership outlives its project or its account              *)
(* (account.js:292, project.js).                                           *)
THEOREM NoRightOutlivesItsRows == AccessSpec => []NoStrayRights
<1>1. AccessInv => NoStrayRights
  BY DEF AccessInv
<1> QED
  BY <1>1, AccessAlways, PTL

(* The deletion of an account takes with it no project in which another    *)
(* user has an administrator's share of their own (account.js:264).        *)
THEOREM DeletionsSpareAdministeredWork == AccessSpec => AdministeredWorkIsPassedOn
<1>1. ASSUME AccessInv, NEW s \in Slots, NEW p \in Projects,
             At(s, "cascade"), ~met, owner[p] = hand[s].user
      PROVE  ~\E u \in Users \ {hand[s].user} : <<p, u, ADMIN>> \in share
  <2>1. hand[s].pc = "cascade" /\ hand[s].pc \in DeletionSteps
    BY <1>1 DEF At, DeletionSteps
  <2>2. FoundDeletion(hand[s]) /\ Settled(hand[s])
    BY <1>1, <2>1, InDeletion
  <2>3. p \in hand[s].orphans
    BY <1>1, <2>1, <2>2 DEF FoundDeletion, Settled
  <2> QED
    BY <2>2, <2>3 DEF Settled
<1>2. AccessInv => \A s \in Slots, p \in Projects :
        TakesAway(s, p) /\ ~met =>
          ~\E u \in Users \ {hand[s].user} : <<p, u, ADMIN>> \in share
  BY <1>1 DEF TakesAway
<1> QED
  BY <1>2, AccessAlways, PTL DEF AdministeredWorkIsPassedOn

-----------------------------------------------------------------------------
(* Whose request a new permission is.                                      *)

(* Who gains a permission gains a grant.                                   *)
LEMMA NewGrant ==
  ASSUME NEW u, NEW p, NEW l, account' \subseteq account, Allowed(u, p, l)', ~Allowed(u, p, l)
  PROVE  \E k : k \in Grants(u, p)' /\ k \notin Grants(u, p) /\ k >= l
BY DEF Allowed

(* No rows more, no grant more.                                            *)
LEMMA FewerRows ==
  ASSUME NEW u, NEW p, share' \subseteq share, team_share' \subseteq team_share,
         owner'[p] = u => owner[p] = u,
         \A t \in Teams : role'[<<t, u>>] # "none" => role[<<t, u>>] # "none"
  PROVE  Grants(u, p)' \subseteq Grants(u, p)
BY DEF Grants

(* A step of a handler that changes rows and gives somebody a permission.  *)
Gains(u, p, l) == u \in Users /\ p \in Projects /\ l \in {READ, WRITE, ADMIN}
                    /\ Allowed(u, p, l)' /\ ~Allowed(u, p, l)

LEMMA NoGain ==
  ASSUME NEW u, NEW p, NEW l, Gains(u, p, l), account' \subseteq account,
         share' \subseteq share, team_share' \subseteq team_share,
         owner'[p] = u => owner[p] = u,
         \A t \in Teams : role'[<<t, u>>] # "none" => role[<<t, u>>] # "none"
  PROVE  FALSE
BY NewGrant, FewerRows DEF Gains

LEMMA PutShareGain ==
  ASSUME AccessInv, NEW r \in Requests, PutShare(r) \/ SetShare(r), ~met',
         NEW u, NEW p, NEW l, Gains(u, p, l)
  PROVE  Entitled(p)
<1> DEFINE w == hand[r]
           old == Rows(w.project, w.user)
<1>1. /\ r \in Slots /\ w.pc \in {"put_row", "set_row"} /\ ~met
      /\ UNCHANGED <<people, owner, team_share, role>>
  BY DEF PutShare, SetShare, Slots, At
<1>2. \A x \in share' : x \in share \/ x[1] = w.project
  <2>1. CASE PutShare(r)
    BY <2>1 DEF PutShare
  <2>2. CASE SetShare(r)
    BY <2>2 DEF SetShare, Rows
  <2> QED
    BY <2>1, <2>2
<1>3. Allowed(w.by, w.project, ADMIN)
  BY <1>1, AtWork DEF Found, FoundSharing, SharingSteps
<1>4. CASE p = w.project
  BY <1>1, <1>3, <1>4 DEF Entitled
<1>5. CASE p # w.project
  <2>1. \A k : <<p, u, k>> \in share' => <<p, u, k>> \in share
    BY <1>2, <1>5
  <2>2. Grants(u, p)' \subseteq Grants(u, p)
    BY <1>1, <2>1 DEF Grants
  <2> QED
    BY <1>1, <2>2, NewGrant DEF Gains, people
<1> QED
  BY <1>4, <1>5

LEMMA PutTeamShareGain ==
  ASSUME AccessInv, NEW r \in Requests, PutTeamShare(r), ~met',
         NEW u, NEW p, NEW l, Gains(u, p, l)
  PROVE  Entitled(p)
<1> DEFINE w == hand[r]
<1>1. /\ r \in Slots /\ w.pc = "put_team" /\ ~met /\ UNCHANGED <<people, owner, share, role>>
      /\ team_share' = team_share \cup {<<w.project, w.team, w.level>>}
  BY DEF PutTeamShare, Slots, At
<1>2. Allowed(w.by, w.project, ADMIN)
  BY <1>1, AtWork DEF Found, FoundSharing, SharingSteps
<1>3. CASE p = w.project
  BY <1>1, <1>2, <1>3 DEF Entitled
<1>4. CASE p # w.project
  <2>1. \A t, k : <<p, t, k>> \in team_share' => <<p, t, k>> \in team_share
    BY <1>1, <1>4
  <2>2. Grants(u, p)' \subseteq Grants(u, p)
    BY <1>1, <2>1 DEF Grants
  <2> QED
    BY <1>1, <2>2, NewGrant DEF Gains, people
<1> QED
  BY <1>3, <1>4

(* A change of owner is asked for by an administrator of the instance.     *)
LEMMA ChangeOwnerGain ==
  ASSUME AccessInv, NEW r \in Requests, SetOwner(r) \/ SharePrevious(r), ~met', NEW p
  PROVE  Entitled(p)
<1>1. r \in Slots /\ hand[r].pc \in OwnerSteps /\ ~met
  BY DEF SetOwner, SharePrevious, Slots, At, OwnerSteps
<1>2. hand[r].by \in administrator
  BY <1>1, AtWork DEF Found, FoundOwner
<1> QED
  BY <1>1, <1>2 DEF Entitled

(* Whoever a project is passed on to administered it before.               *)
LEMMA PassOnGain ==
  ASSUME AccessInv, NEW s \in Slots, PassOn(s), ~met', NEW u, NEW p, NEW l, Gains(u, p, l)
  PROVE  FALSE
<1>1. /\ hand[s].pc = "pass" /\ hand[s].pc \in DeletionSteps /\ ~met
      /\ UNCHANGED <<people, share, team_share, role>>
  BY DEF PassOn, At, DeletionSteps
<1>2. account' \subseteq account
  BY <1>1 DEF people
<1>3. owner'[p] = u /\ owner[p] # u
  BY <1>1, <1>2, NoGain
<1>4. PICK heir \in hand[s].heirs :
        owner' = IF owner[heir[1]] = Nobody THEN owner ELSE [owner EXCEPT ![heir[1]] = heir[2]]
  BY <1>3 DEF PassOn
<1>5. heir[1] = p /\ heir[2] = u
  BY <1>1, <1>3, <1>4, InDeletion DEF RowsTyped, Gains
<1>6. u \in account /\ <<p, u, ADMIN>> \in share
  BY <1>1, <1>5, InDeletion DEF Settled
<1>7. Allowed(u, p, l)
  BY <1>6 DEF Allowed, Grants, Gains, READ, WRITE, ADMIN
<1> QED
  BY <1>7 DEF Gains

(* A member gains what their team reaches, by an administrator of it.      *)
LEMMA ChangeMemberGain ==
  ASSUME AccessInv, ChangeMember, NEW u, NEW p, NEW l, Gains(u, p, l)
  PROVE  Entitled(p)
<1>1. PICK t \in Teams, v \in Users, as \in {"none", "member", "admin"} :
        /\ \E a \in account : role[<<t, a>>] = "admin"
        /\ role' = [role EXCEPT ![<<t, v>>] = as]
  BY DEF ChangeMember
<1>2. UNCHANGED <<people, owner, share, team_share>>
  BY DEF ChangeMember
<1>3. PICK k : k \in Grants(u, p)' /\ k \notin Grants(u, p)
  BY <1>2, NewGrant DEF Gains, people
<1>4. PICK x \in Teams : /\ k \in {READ, WRITE, ADMIN} /\ <<p, x, k>> \in team_share
                         /\ role'[<<x, u>>] # "none" /\ role[<<x, u>>] = "none"
  BY <1>2, <1>3 DEF Grants
<1>5. x = t /\ role' # role
  BY <1>1, <1>4, AtWork DEF AccessInv, RowsTyped, Gains, Team
<1> QED
  BY <1>1, <1>4, <1>5 DEF Entitled

LEMMA RightsRise ==
  ASSUME AccessInv, AccessNext, ~met', NEW u, NEW p, NEW l, Gains(u, p, l)
  PROVE  Entitled(p)
<1>1. CASE UNCHANGED <<account, rights>>
  BY <1>1, NoGain DEF rights
<1>2. ASSUME NEW r \in Requests,
             \/ StartShare(r) \/ StartTeamShare(r) \/ StartChangeOwner(r)
             \/ StartDeleteProject(r) \/ StartDeleteAccount(r)
      PROVE  UNCHANGED <<account, rights>>
  BY <1>2 DEF StartShare, StartTeamShare, StartChangeOwner, StartDeleteProject, StartDeleteAccount,
              Start, people
<1>3. ASSUME NEW r \in Requests, FindUser(r) \/ NotTheOwner(r) \/ FindNewOwner(r)
      PROVE  UNCHANGED <<account, rights>>
  BY <1>3 DEF FindUser, NotTheOwner, FindNewOwner, people
<1>4. ScheduleDeletion \/ CancelDeletion \/ StartJob \/ Crash => UNCHANGED <<account, rights>>
  BY DEF ScheduleDeletion, CancelDeletion, StartJob, Start, Crash, people
<1>5. ASSUME NEW s \in Slots, ReadOwned(s) \/ FindHeir(s)
      PROVE  UNCHANGED <<account, rights>>
  BY <1>5 DEF ReadOwned, FindHeir, people
<1>6. ASSUME NEW r \in Requests, DropShare(r) \/ DropTeamShare(r) \/ DropRedundantShare(r)
      PROVE  FALSE
  BY <1>6, NoGain DEF DropShare, DropTeamShare, DropRedundantShare, people
<1>7. ASSUME NEW q \in Projects, DeleteProject(q), UNCHANGED <<people, role>>
      PROVE  FALSE
  <2>1. owner'[p] = u => owner[p] = u
    BY <1>7, AccessAssumption DEF DeleteProject, Gains, AccessInv, RowsTyped
  <2> QED
    BY <1>7, <2>1, NoGain DEF DeleteProject, people
<1>8. ASSUME NEW s \in Slots, CascadeOwned(s) PROVE FALSE
  <2>1. hand[s].orphans \subseteq Projects
    BY AtWork DEF Work
  <2> QED
    BY <1>7, <1>8, <2>1, NoGain DEF CascadeOwned, people
<1>9. ASSUME NEW r \in Requests, DropProject(r) PROVE FALSE
  <2>1. hand[r].project \in Projects
    BY <1>9, AtWork DEF DropProject, At, Slots, Filled, SharingSteps
  <2> QED
    BY <1>7, <1>9, <2>1 DEF DropProject
<1>10. ASSUME NEW s \in Slots, DropHeirsShare(s) PROVE FALSE
  BY <1>10, NoGain DEF DropHeirsShare, people
<1>11. ASSUME NEW s \in Slots, CloseAccount(s) PROVE FALSE
  BY <1>11, NoGain DEF CloseAccount, Team, Gains
<1>12. ASSUME NEW r \in Requests, Sharing(r) PROVE Entitled(p)
  BY <1>1, <1>3, <1>6, <1>9, <1>12, PutShareGain, PutTeamShareGain, ChangeOwnerGain DEF Sharing
<1>13. ASSUME NEW s \in Slots, Deletion(s) PROVE Entitled(p)
  BY <1>1, <1>5, <1>8, <1>10, <1>11, <1>13, PassOnGain DEF Deletion
<1> QED
  BY <1>1, <1>2, <1>4, <1>12, <1>13, ChangeMemberGain DEF AccessNext

(* Nobody's permission on a project rises but by a request of someone who  *)
(* administers it, of an administrator of the instance, or of a team's     *)
(* administrator (sharing.js:32).                                          *)
THEOREM PermissionsComeFromAdmins == AccessSpec => RightsComeFromAdmins
<1>1. AccessInv /\ [AccessNext]_accessVars =>
        [~met' => \A p \in Projects, u \in Users :
           (\E l \in {READ, WRITE, ADMIN} : Allowed(u, p, l)' /\ ~Allowed(u, p, l)) => Entitled(p)
        ]_accessVars
  BY RightsRise DEF Gains
<1> QED
  BY <1>1, AccessAlways, PTL DEF AccessSpec, RightsComeFromAdmins

=============================================================================
