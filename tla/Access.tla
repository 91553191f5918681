------------------------------- MODULE Access -------------------------------
(***************************************************************************)
(* Who may do what on a project: its owner, the shares given to users and  *)
(* teams (routes/sharing.js), the change of owner (routes/admin.js), and   *)
(* the deletion of an account, scheduled or at once (routes/account.js,    *)
(* lib/cron.js), which passes projects on or takes them with it.  A        *)
(* permission is the strongest of the grants (lib/permissions.js).         *)
(*                                                                         *)
(* One action per awaited statement; handlers and the hourly job           *)
(* interleave between any two, and the server may die.  A step that adds   *)
(* or drops a member of a team is taken whole: Teams models its races.     *)
(***************************************************************************)
EXTENDS Integers, FiniteSets

CONSTANTS
  Users, Projects, Teams,
  Administrators, (* the instance's administrators at the start            *)
  Leavers,    (* users whose account is deleted in this instance           *)
  Levels,     (* the permissions clients give in this instance             *)
  Requests,   (* slots for HTTP handlers in flight                         *)
  Job,        (* the hourly job, a slot of its own                         *)
  MaxCrashes  (* bound on server restarts                                  *)

READ == 0
WRITE == 1
ADMIN == 2
Nobody == "nobody"

ASSUME AccessAssumption ==
  /\ Leavers \subseteq Users /\ Administrators \subseteq Users
  /\ Levels \subseteq {READ, WRITE, ADMIN}
  /\ Job \notin Requests
  /\ Nobody \notin Users
  /\ MaxCrashes \in Nat

VARIABLES
  account,       (* rows of users                                          *)
  administrator, (* of them, those with is_admin                           *)
  scheduled,     (* of them, those with deletion_scheduled_at              *)
  owner,         (* owner_id of a project, Nobody when it is not there     *)
  share,         (* users_projects: project, user, level; no key but id    *)
  team_share,    (* team_projects: project, team, level                    *)
  role,          (* team_members: none, member or admin                    *)
  hand,          (* the handlers in flight and the job                     *)
  crashes,
  met            (* history: two of them were once in flight together      *)

rights == <<owner, share, team_share, role>>
people == <<account, administrator, scheduled>>
accessVars == <<account, administrator, scheduled, owner, share, team_share, role,
                hand, crashes, met>>

Slots == Requests \cup {Job}
Team == Teams \X Users
Shares == Projects \X Users \X {READ, WRITE, ADMIN}
TeamShares == Projects \X Teams \X {READ, WRITE, ADMIN}

(* by: who asks; project, user, team, level: the request; owned: projects  *)
(* not yet looked at, heirs, orphans: transferred and removable; before:   *)
(* the owner read; due: the job's accounts still to delete.                *)
Idle == [pc |-> "idle", by |-> Nobody, project |-> Nobody, user |-> Nobody, team |-> Nobody,
         level |-> READ, before |-> Nobody, owned |-> {}, heirs |-> {}, orphans |-> {}, due |-> {}]

At(s, pc) == hand[s].pc = pc
Become(s, w) == hand' = [hand EXCEPT ![s] = w]
Goto(s, pc) == Become(s, [hand[s] EXCEPT !.pc = pc])
Finish(s) == Become(s, Idle)
(* Bound: clients ask for nothing more once two handlers have overlapped.  *)
Met(others) == met' = (met \/ \E o \in others : ~At(o, "idle"))
Ask(others) == ~met /\ Met(others)
Start(s, w) ==
  /\ At(s, "idle")
  /\ Become(s, w)
  /\ s = Job \/ ~met
  /\ Met(Slots \ {s})
  /\ UNCHANGED <<people, rights, crashes>>

Grants(u, p) ==
  {l \in {ADMIN} : owner[p] = u}
    \cup {l \in {READ, WRITE, ADMIN} :
            \/ <<p, u, l>> \in share
            \/ \E t \in Teams : <<p, t, l>> \in team_share /\ role[<<t, u>>] # "none"}

Allowed(u, p, level) == u \in account /\ \E l \in Grants(u, p) : l >= level
Rows(p, u) == {s \in share : s[1] = p /\ s[2] = u}

AccessInit ==
  /\ account = Users
  /\ administrator = Administrators
  /\ scheduled = {}
  /\ owner \in [Projects -> Users]
  /\ share = {}
  /\ team_share = {}
  /\ \E creator \in [Teams -> Users] :
       role = [m \in Team |-> IF m[2] = creator[m[1]] THEN "admin" ELSE "none"]
  /\ hand = [s \in Slots |-> Idle]
  /\ crashes = 0
  /\ met = FALSE

-----------------------------------------------------------------------------
(* Shares of a project, changed by its administrators.                     *)

(* Mutant: permission to write is enough.                                  *)
StartShareAsWriter(r) ==
  \E a \in Users, u \in Users, p \in Projects, l \in Levels :
    /\ Allowed(a, p, WRITE)
    /\ Start(r, [Idle EXCEPT !.pc = "put_user", !.by = a, !.project = p, !.user = u, !.level = l])

StartShare(r) ==
  \E a \in Users, u \in Users, p \in Projects :
    LET w == [Idle EXCEPT !.by = a, !.project = p, !.user = u] IN
    /\ Allowed(a, p, ADMIN)
    /\ \/ Start(r, [w EXCEPT !.pc = "drop_user"])
       \/ \E l \in Levels, pc \in {"put_user", "set_user"} :
            Start(r, [w EXCEPT !.pc = pc, !.level = l])

FindUser(r) ==
  /\ \E way \in {<<"put_user", "put_owner">>, <<"set_user", "set_row">>, <<"drop_user", "drop_row">>} :
       /\ At(r, way[1])
       /\ IF hand[r].user \in account THEN Goto(r, way[2]) ELSE Finish(r)
  /\ UNCHANGED <<people, rights, crashes, met>>

NotTheOwner(r) ==
  /\ At(r, "put_owner")
  /\ IF owner[hand[r].project] = hand[r].user THEN Finish(r) ELSE Goto(r, "put_row")
  /\ UNCHANGED <<people, rights, crashes, met>>

(* ON DUPLICATE KEY finds none: a second row.                              *)
PutShare(r) ==
  /\ At(r, "put_row")
  /\ share' = share \cup {<<hand[r].project, hand[r].user, hand[r].level>>}
  /\ Finish(r)
  /\ UNCHANGED <<people, owner, team_share, role, crashes, met>>

SetShare(r) ==
  LET w == hand[r]  old == Rows(w.project, w.user) IN
  /\ At(r, "set_row")
  /\ share' = (share \ old) \cup {<<s[1], s[2], w.level>> : s \in old}
  /\ Finish(r)
  /\ UNCHANGED <<people, owner, team_share, role, crashes, met>>

DropShare(r) ==
  /\ At(r, "drop_row")
  /\ share' = share \ Rows(hand[r].project, hand[r].user)
  /\ Finish(r)
  /\ UNCHANGED <<people, owner, team_share, role, crashes, met>>

StartTeamShare(r) ==
  \E a \in Users, p \in Projects, t \in Teams :
    LET w == [Idle EXCEPT !.by = a, !.project = p, !.team = t] IN
    /\ Allowed(a, p, ADMIN)
    /\ \/ Start(r, [w EXCEPT !.pc = "drop_team"])
       \/ \E l \in Levels : Start(r, [w EXCEPT !.pc = "put_team", !.level = l])

PutTeamShare(r) ==
  /\ At(r, "put_team")
  /\ team_share' = team_share \cup {<<hand[r].project, hand[r].team, hand[r].level>>}
  /\ Finish(r)
  /\ UNCHANGED <<people, owner, share, role, crashes, met>>

DropTeamShare(r) ==
  /\ At(r, "drop_team")
  /\ team_share' = {s \in team_share : s[1] # hand[r].project \/ s[2] # hand[r].team}
  /\ Finish(r)
  /\ UNCHANGED <<people, owner, share, role, crashes, met>>

(* A team's administrator adds, drops, promotes or demotes a member, but   *)
(* not the last administrator.                                             *)
ChangeMember ==
  \E t \in Teams, u \in Users, as \in {"none", "member", "admin"} :
    /\ u \in account
    /\ \E a \in account : role[<<t, a>>] = "admin"
    /\ as = "admin" \/ \E o \in Users \ {u} : role[<<t, o>>] = "admin"
    /\ role' = [role EXCEPT ![<<t, u>>] = as]
    /\ Ask(Slots)
    /\ UNCHANGED <<people, owner, share, team_share, hand, crashes>>

-----------------------------------------------------------------------------
(* PATCH /admin/projects/:id/owner                                         *)

StartChangeOwner(r) ==
  \E a \in administrator, p \in Projects, u \in Users :
    /\ owner[p] # Nobody
    /\ Start(r, [Idle EXCEPT !.pc = "new_owner", !.by = a, !.project = p, !.user = u,
                             !.before = owner[p]])

FindNewOwner(r) ==
  /\ At(r, "new_owner")
  /\ IF hand[r].user \in account \ {hand[r].before} THEN Goto(r, "owner") ELSE Finish(r)
  /\ UNCHANGED <<people, rights, crashes, met>>

SetOwner(r) ==
  LET w == hand[r] IN
  /\ At(r, "owner")
  /\ owner' = IF owner[w.project] = Nobody THEN owner ELSE [owner EXCEPT ![w.project] = w.user]
  /\ Goto(r, "redundant")
  /\ UNCHANGED <<people, share, team_share, role, crashes, met>>

DropRedundantShare(r) ==
  /\ At(r, "redundant")
  /\ share' = share \ Rows(hand[r].project, hand[r].user)
  /\ Goto(r, "previous")
  /\ UNCHANGED <<people, owner, team_share, role, crashes, met>>

SharePrevious(r) ==
  /\ At(r, "previous")
  /\ share' = share \cup {<<hand[r].project, hand[r].before, ADMIN>>}
  /\ Finish(r)
  /\ UNCHANGED <<people, owner, team_share, role, crashes, met>>

-----------------------------------------------------------------------------
(* DELETE /projects/:project (its own steps are ProjectTree's)             *)

DeleteProject(p) ==
  /\ owner' = [owner EXCEPT ![p] = Nobody]
  /\ share' = {s \in share : s[1] # p}
  /\ team_share' = {s \in team_share : s[1] # p}

StartDeleteProject(r) ==
  \E a \in Users, p \in Projects :
    /\ owner[p] # Nobody
    /\ Allowed(a, p, ADMIN)
    /\ Start(r, [Idle EXCEPT !.pc = "drop_project", !.by = a, !.project = p])

DropProject(r) ==
  /\ At(r, "drop_project")
  /\ DeleteProject(hand[r].project)
  /\ Finish(r)
  /\ UNCHANGED <<people, role, crashes, met>>

-----------------------------------------------------------------------------
(* Deleting an account: asked for by its user or an administrator, called  *)
(* off by its user, carried out by the job or at once.                     *)

ScheduleDeletion ==
  /\ \E u \in account \cap Leavers : scheduled' = scheduled \cup {u}
  /\ Ask(Slots)
  /\ UNCHANGED <<account, administrator, rights, hand, crashes>>

CancelDeletion ==
  /\ \E u \in scheduled : scheduled' = scheduled \ {u}
  /\ Ask(Slots)
  /\ UNCHANGED <<account, administrator, rights, hand, crashes>>

(* An administrator deletes another account at once.                       *)
StartDeleteAccount(r) ==
  \E a \in administrator : \E u \in (account \cap Leavers) \ {a} :
    Start(r, [Idle EXCEPT !.pc = "owned", !.by = a, !.user = u, !.due = {u}])

(* The accounts whose seven days have run out, in one list.                *)
StartJob ==
  \E due \in (SUBSET scheduled) \ {{}} : \E u \in due :
    Start(Job, [Idle EXCEPT !.pc = "owned", !.user = u, !.due = due])

ReadOwned(s) ==
  /\ At(s, "owned")
  /\ Become(s, [hand[s] EXCEPT !.pc = "heirs", !.owned = {p \in Projects : owner[p] = hand[s].user}])
  /\ UNCHANGED <<people, rights, crashes, met>>

(* Mutant: the projects of the account are transferred to nobody.          *)
FindNoHeir(s) ==
  LET w == hand[s] IN
  /\ At(s, "heirs")
  /\ Become(s, [w EXCEPT !.pc = "pass", !.owned = {}, !.orphans = w.owned])
  /\ UNCHANGED <<people, rights, crashes, met>>

(* One project: someone it is shared with as administrator (the statement  *)
(* orders them by user and takes the first; here any), or nobody.          *)
FindHeir(s) ==
  LET w == hand[s]
      Others(p) == {u \in Users \ {w.user} : <<p, u, ADMIN>> \in share} IN
  /\ At(s, "heirs")
  /\ \/ w.owned = {} /\ Goto(s, "pass")
     \/ \E p \in w.owned :
          LET rest == [w EXCEPT !.owned = @ \ {p}] IN
          \/ \E h \in Others(p) : Become(s, [rest EXCEPT !.heirs = @ \cup {<<p, h>>}])
          \/ Others(p) = {} /\ Become(s, [rest EXCEPT !.orphans = @ \cup {p}])
  /\ UNCHANGED <<people, rights, crashes, met>>

PassOn(s) ==
  LET w == hand[s] IN
  /\ At(s, "pass")
  /\ \/ /\ w.heirs = {}
        /\ Goto(s, "cascade")
        /\ UNCHANGED owner
     \/ \E heir \in w.heirs :
          /\ owner' = IF owner[heir[1]] = Nobody THEN owner ELSE [owner EXCEPT ![heir[1]] = heir[2]]
          /\ Become(s, [w EXCEPT !.pc = "passed", !.project = heir[1], !.before = heir[2],
                                 !.heirs = @ \ {heir}])
  /\ UNCHANGED <<people, share, team_share, role, crashes, met>>

DropHeirsShare(s) ==
  /\ At(s, "passed")
  /\ share' = share \ Rows(hand[s].project, hand[s].before)
  /\ Goto(s, "pass")
  /\ UNCHANGED <<people, owner, team_share, role, crashes, met>>

(* Mutant: the projects nobody takes over are left.                        *)
CascadeNothing(s) ==
  At(s, "cascade") /\ Goto(s, "close") /\ UNCHANGED <<people, rights, crashes, met>>

CascadeOwned(s) ==
  LET w == hand[s] IN
  /\ At(s, "cascade")
  /\ \/ /\ w.orphans = {}
        /\ Goto(s, "close")
        /\ UNCHANGED <<owner, share, team_share>>
     \/ \E p \in w.orphans :
          /\ DeleteProject(p)
          /\ Become(s, [w EXCEPT !.orphans = @ \ {p}])
  /\ UNCHANGED <<people, role, crashes, met>>

(* Mutant: what others shared with the account is left.                    *)
CloseKeepingShares(s) ==
  LET u == hand[s].user IN
  /\ At(s, "close")
  /\ account' = account \ {u}
  /\ administrator' = administrator \ {u}
  /\ scheduled' = scheduled \ {u}
  /\ role' = [x \in Team |-> IF x[2] = u THEN "none" ELSE role[x]]
  /\ Finish(s)
  /\ UNCHANGED <<owner, share, team_share, crashes, met>>

(* The account's own rows, in one transaction; then the job's next one.    *)
CloseAccount(s) ==
  LET w == hand[s]  u == w.user  rest == w.due \ {u} IN
  /\ At(s, "close")
  /\ account' = account \ {u}
  /\ administrator' = administrator \ {u}
  /\ scheduled' = scheduled \ {u}
  /\ share' = {x \in share : x[2] # u}
  /\ role' = [x \in Team |-> IF x[2] = u THEN "none" ELSE role[x]]
  /\ \/ rest = {} /\ Finish(s)
     \/ \E v \in rest : Become(s, [Idle EXCEPT !.pc = "owned", !.by = w.by, !.user = v, !.due = rest])
  /\ UNCHANGED <<owner, team_share, crashes, met>>

(* Mutant: the job that was running is taken to be running still.          *)
CrashLeavesMark ==
  /\ crashes < MaxCrashes
  /\ \E s \in Slots : ~At(s, "idle")
  /\ crashes' = crashes + 1
  /\ hand' = [s \in Slots |-> IF s = Job /\ ~At(s, "idle") THEN [Idle EXCEPT !.pc = "running"] ELSE Idle]
  /\ UNCHANGED <<people, rights, met>>

(* The server dies; what was committed stays.                              *)
Crash ==
  /\ crashes < MaxCrashes
  /\ \E s \in Slots : ~At(s, "idle")
  /\ crashes' = crashes + 1
  /\ hand' = [s \in Slots |-> Idle]
  /\ UNCHANGED <<people, rights, met>>

-----------------------------------------------------------------------------
Deletion(s) ==
  \/ ReadOwned(s) \/ FindHeir(s) \/ PassOn(s) \/ DropHeirsShare(s) \/ CascadeOwned(s)
  \/ CloseAccount(s)

Sharing(r) ==
  \/ FindUser(r) \/ NotTheOwner(r) \/ PutShare(r) \/ SetShare(r) \/ DropShare(r)
  \/ PutTeamShare(r) \/ DropTeamShare(r)
  \/ FindNewOwner(r) \/ SetOwner(r) \/ DropRedundantShare(r) \/ SharePrevious(r)
  \/ DropProject(r)

AccessNext ==
  \/ \E r \in Requests :
       \/ StartShare(r) \/ StartTeamShare(r) \/ StartChangeOwner(r)
       \/ StartDeleteProject(r) \/ StartDeleteAccount(r)
       \/ Sharing(r)
  \/ ChangeMember \/ ScheduleDeletion \/ CancelDeletion
  \/ StartJob
  \/ \E s \in Slots : Deletion(s)
  \/ Crash

(* The job runs again every hour; a statement that was issued is answered. *)
AccessSpec ==
  /\ AccessInit /\ [][AccessNext]_accessVars
  /\ WF_accessVars(StartJob)
  /\ WF_accessVars(Deletion(Job))
  /\ \A r \in Requests : WF_accessVars(Sharing(r) \/ Deletion(r))
=============================================================================
