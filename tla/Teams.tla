------------------------------- MODULE Teams -------------------------------
(***************************************************************************)
(* Who runs a team: the handlers of routes/teams.js that create and delete *)
(* a team and add, remove, promote and demote its members.  Two of them    *)
(* refuse to take away the last admin, by a count that precedes the write. *)
(*                                                                         *)
(* One action per awaited statement; between two of them another handler   *)
(* may run or the server may die.  Accounts are not deleted here (Access   *)
(* does that), so looking one up has no step of its own.                   *)
(***************************************************************************)
EXTENDS Naturals, FiniteSets

CONSTANTS
  Users, Teams,
  TeamClerks     (* slots for HTTP handlers in flight                      *)

VARIABLES
  team,          (* rows of teams                                          *)
  creator,       (* created_by_id                                          *)
  role,          (* team_members: none, member or admin                    *)
  team_desk,     (* the handlers in flight                                 *)
  demote_met,    (* history: two handlers that may demote have overlapped  *)
  torn           (* history: a team's deletion has met another request, a  *)
                 (* request has come for a team before its creation was    *)
                 (* answered, or a restart has cut one of the two short    *)

ASSUME TeamAssumption ==
  /\ IsFiniteSet(Users)
  /\ "nobody" \notin Users \cup Teams

teamVars == <<team, creator, role, team_desk, demote_met, torn>>
rosters == <<team, creator, role>>

Nobody == "nobody"
TeamFree == [op |-> "none", pc |-> "free", team |-> Nobody, user |-> Nobody, as |-> "none", others |-> 0]
Demotions == {"remove", "toggle"}
Endings == {"end"}

TeamInit ==
  /\ team = {}
  /\ creator = [t \in Teams |-> Nobody]
  /\ role = [m \in Teams \X Users |-> "none"]
  /\ team_desk = [c \in TeamClerks |-> TeamFree]
  /\ demote_met = FALSE
  /\ torn = FALSE

TeamAt(c, pc) == team_desk[c].pc = pc
TeamBecome(c, w) == team_desk' = [team_desk EXCEPT ![c] = w]
TeamGoto(c, pc) == TeamBecome(c, [team_desk[c] EXCEPT !.pc = pc])
TeamFinish(c) == TeamBecome(c, TeamFree)
TeamOthers(c) == {team_desk[o].op : o \in {x \in TeamClerks \ {c} : team_desk[x].pc # "free"}}

(* The teams whose creation has been answered or cut short.                *)
Known == {t \in team : \A o \in TeamClerks : team_desk[o].op = "create" => team_desk[o].team # t}

TeamStart(c, w) ==
  /\ TeamAt(c, "free")
  /\ TeamBecome(c, w)
  /\ demote_met' = (demote_met \/ (w.op \in Demotions /\ TeamOthers(c) \cap Demotions # {}))
  /\ torn' = \/ torn
             \/ TeamOthers(c) # {} /\ (TeamOthers(c) \cup {w.op}) \cap Endings # {}
             \/ w.team \in team \ Known
  /\ UNCHANGED rosters

(* teamRole: an admin of the team, or its creator.                         *)
Leads(u, t) == t \in team /\ (role[<<t, u>>] = "admin" \/ creator[t] = u)
Admins(t) == {u \in Users : role[<<t, u>>] = "admin"}
Roster(c) == <<team_desk[c].team, team_desk[c].user>>

-----------------------------------------------------------------------------
StartCreate(c) ==
  \E t \in Teams \ team, u \in Users :
    /\ creator[t] = Nobody
    /\ \A o \in TeamClerks : team_desk[o].team # t
    /\ TeamStart(c, [TeamFree EXCEPT !.op = "create", !.pc = "insert_team", !.team = t, !.user = u])

InsertTeam(c) ==
  /\ TeamAt(c, "insert_team")
  /\ team' = team \cup {team_desk[c].team}
  /\ creator' = [creator EXCEPT ![team_desk[c].team] = team_desk[c].user]
  /\ TeamGoto(c, "insert_creator")
  /\ UNCHANGED <<role, demote_met, torn>>

InsertCreator(c) ==
  /\ TeamAt(c, "insert_creator")
  /\ role' = [role EXCEPT ![Roster(c)] = "admin"]
  /\ TeamFinish(c)
  /\ UNCHANGED <<team, creator, demote_met, torn>>

StartEnd(c) ==
  \E t \in team : \E a \in Users :
    /\ Leads(a, t)
    /\ TeamStart(c, [TeamFree EXCEPT !.op = "end", !.pc = "drop_members", !.team = t])

(* Mutant: the members are left to the schema.                             *)
DropNoMembers(c) ==
  TeamAt(c, "drop_members") /\ TeamGoto(c, "drop_team") /\ UNCHANGED <<rosters, demote_met, torn>>

(* The statement before it drops the team's shares, which are Access's.    *)
DropMembers(c) ==
  /\ TeamAt(c, "drop_members")
  /\ role' = [m \in Teams \X Users |-> IF m[1] = team_desk[c].team THEN "none" ELSE role[m]]
  /\ TeamGoto(c, "drop_team")
  /\ UNCHANGED <<team, creator, demote_met, torn>>

DropTeam(c) ==
  /\ TeamAt(c, "drop_team")
  /\ team' = team \ {team_desk[c].team}
  /\ TeamFinish(c)
  /\ UNCHANGED <<creator, role, demote_met, torn>>

-----------------------------------------------------------------------------
StartMember(c) ==
  \E t \in team : \E a, u \in Users :
    LET w == [TeamFree EXCEPT !.team = t, !.user = u] IN
    /\ Leads(a, t)
    /\ \/ \E as \in {"member", "admin"} :
            TeamStart(c, [w EXCEPT !.op = "add", !.pc = "add", !.as = as])
       \/ TeamStart(c, [w EXCEPT !.op = "remove", !.pc = "count_admins"])
       \/ TeamStart(c, [w EXCEPT !.op = "toggle", !.pc = "read_member"])

(* INSERT ... WHERE NOT EXISTS: who is a member keeps the role they have.  *)
AddMember(c) ==
  /\ TeamAt(c, "add")
  /\ role' = [role EXCEPT ![Roster(c)] = IF @ = "none" THEN team_desk[c].as ELSE @]
  /\ TeamFinish(c)
  /\ UNCHANGED <<team, creator, demote_met, torn>>

CountOtherAdmins(c) ==
  /\ TeamAt(c, "count_admins")
  /\ TeamBecome(c, [team_desk[c] EXCEPT !.pc = "read_target",
                              !.others = Cardinality(Admins(team_desk[c].team) \ {team_desk[c].user})])
  /\ UNCHANGED <<rosters, demote_met, torn>>

ReadTarget(c) ==
  /\ TeamAt(c, "read_target")
  /\ IF role[Roster(c)] = "admin" /\ team_desk[c].others = 0 THEN TeamFinish(c) ELSE TeamGoto(c, "remove")
  /\ UNCHANGED <<rosters, demote_met, torn>>

RemoveMember(c) ==
  /\ TeamAt(c, "remove")
  /\ role' = [role EXCEPT ![Roster(c)] = "none"]
  /\ TeamFinish(c)
  /\ UNCHANGED <<team, creator, demote_met, torn>>

(* The client toggles: whoever is no admin becomes one.                    *)
ReadMember(c) ==
  /\ TeamAt(c, "read_member")
  /\ \/ role[Roster(c)] = "none" /\ TeamFinish(c)
     \/ role[Roster(c)] = "member" /\ TeamBecome(c, [team_desk[c] EXCEPT !.pc = "toggle", !.as = "admin"])
     \/ role[Roster(c)] = "admin" /\ TeamBecome(c, [team_desk[c] EXCEPT !.pc = "other_admins", !.as = "member"])
  /\ UNCHANGED <<rosters, demote_met, torn>>

(* Mutant: the count includes the member to be demoted.                    *)
KeepAnyAdmin(c) ==
  /\ TeamAt(c, "other_admins")
  /\ IF Admins(team_desk[c].team) = {} THEN TeamFinish(c) ELSE TeamGoto(c, "toggle")
  /\ UNCHANGED <<rosters, demote_met, torn>>

KeepAnotherAdmin(c) ==
  /\ TeamAt(c, "other_admins")
  /\ IF Admins(team_desk[c].team) \ {team_desk[c].user} = {} THEN TeamFinish(c) ELSE TeamGoto(c, "toggle")
  /\ UNCHANGED <<rosters, demote_met, torn>>

SetRole(c) ==
  /\ TeamAt(c, "toggle")
  /\ role' = [role EXCEPT ![Roster(c)] = IF @ = "none" THEN @ ELSE team_desk[c].as]
  /\ TeamFinish(c)
  /\ UNCHANGED <<team, creator, demote_met, torn>>

-----------------------------------------------------------------------------
(* The server dies: a team may be left without its creator's row, or       *)
(* without members and still there.                                        *)
TeamCrash ==
  /\ \E c \in TeamClerks : ~TeamAt(c, "free")
  /\ team_desk' = [c \in TeamClerks |-> TeamFree]
  /\ torn' = (torn \/ \E c \in TeamClerks : TeamAt(c, "insert_creator") \/ TeamAt(c, "drop_team"))
  /\ UNCHANGED <<rosters, demote_met>>

TeamNext ==
  \/ \E c \in TeamClerks :
       \/ StartCreate(c) \/ InsertTeam(c) \/ InsertCreator(c)
       \/ StartEnd(c) \/ DropMembers(c) \/ DropTeam(c)
       \/ StartMember(c) \/ AddMember(c)
       \/ CountOtherAdmins(c) \/ ReadTarget(c) \/ RemoveMember(c)
       \/ ReadMember(c) \/ KeepAnotherAdmin(c) \/ SetRole(c)
  \/ TeamCrash

TeamSpec == TeamInit /\ [][TeamNext]_teamVars

-----------------------------------------------------------------------------
(* A team with members has an admin among them, unless two handlers that   *)
(* may demote have overlapped, or its creation or deletion was torn        *)
(* ("Removing the last admin would leave the team unmanageable",           *)
(* teams.js:220).                                                          *)
LastAdminStays ==
  ~demote_met /\ ~torn =>
    \A t \in Teams : (\E u \in Users : role[<<t, u>>] # "none") => Admins(t) # {}

(* Members are of teams that are there, unless a team's deletion met       *)
(* another request or was cut short (teams.js:161).                        *)
NoStrayMembers ==
  ~torn => \A m \in Teams \X Users : role[m] # "none" => m[1] \in team
=============================================================================
