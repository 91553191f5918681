---------------------------- MODULE ServicesProofs ----------------------------
(***************************************************************************)
(* Proofs about teams and time entries, and about the parts of Services    *)
(* together.  Teams, for any number of users, teams and handlers: a team   *)
(* keeps an admin while no two handlers that may demote overlap, and       *)
(* members are of teams that are there, both across restarts, while no     *)
(* team's creation or deletion is torn.  Time entries, for any number of handlers and   *)
(* entries: one timer runs, and a stopped one stays stopped, while         *)
(* handlers do not overlap and no edit opens an entry again.  A behaviour  *)
(* of Services is one of each part, so what is proved of them holds there. *)
(***************************************************************************)
EXTENDS Services, ProjectViewsProofs, RemindersProofs, FiniteSetTheorems

Roles == {"none", "member", "admin"}
TeamSteps == {"free", "insert_team", "insert_creator", "drop_members", "drop_team", "add",
              "count_admins", "read_target", "remove", "read_member", "other_admins", "toggle"}
TeamWork == [op : {"none", "create", "end", "add", "remove", "toggle"}, pc : TeamSteps,
             team : Teams \cup {Nobody}, user : Users \cup {Nobody}, as : Roles, others : Nat]

(* Which operation a step belongs to, and what its record names.           *)
Labelled(w) ==
  /\ w.pc = "free" <=> w = TeamFree
  /\ w.pc \in {"insert_team", "insert_creator"} <=> w.op = "create"
  /\ w.pc \in {"drop_members", "drop_team"} <=> w.op = "end"
  /\ w.pc = "add" <=> w.op = "add"
  /\ w.pc \in {"count_admins", "read_target", "remove"} <=> w.op = "remove"
  /\ w.pc \in {"read_member", "other_admins", "toggle"} <=> w.op = "toggle"
  /\ w.pc # "free" => w.team \in Teams
  /\ w.pc \notin {"free", "drop_members", "drop_team"} => w.user \in Users
  /\ w.pc = "add" => w.as # "none"
  /\ w.pc \in {"other_admins", "toggle"} => w.as # "none"
  /\ w.pc = "other_admins" => w.as = "member"

TeamTyped ==
  /\ team \subseteq Teams
  /\ creator \in [Teams -> Users \cup {Nobody}]
  /\ role \in [Teams \X Users -> Roles]
  /\ team_desk \in [TeamClerks -> TeamWork]
  /\ demote_met \in BOOLEAN
  /\ torn \in BOOLEAN
  /\ \A c \in TeamClerks : Labelled(team_desk[c])

(* Handlers that do not overlap: one that may demote at a time, and a      *)
(* deletion by itself.                                                     *)
OneDemotion ==
  ~demote_met => \A c, o \in TeamClerks :
    team_desk[c].op \in Demotions /\ team_desk[o].op \in Demotions => c = o

EndAlone ==
  ~torn => \A c, o \in TeamClerks :
    team_desk[c].op = "end" /\ ~TeamAt(o, "free") => c = o

(* A team that is being created: it is new, and no other handler names it. *)
CreatedBy(c) ==
  /\ TeamAt(c, "insert_team") => team_desk[c].team \notin team /\ creator[team_desk[c].team] = Nobody
  /\ TeamAt(c, "insert_creator") => creator[team_desk[c].team] # Nobody
  /\ team_desk[c].op = "create" =>
       \A o \in TeamClerks \ {c} : team_desk[o].team # team_desk[c].team

Created == \A c \in TeamClerks : CreatedBy(c)

(* Without a deletion beside others: handlers in flight name a team that   *)
(* is there, and one being created or about to be dropped has no members.  *)
PresentFor(c) ==
  /\ team_desk[c].pc \notin {"free", "insert_team"} => team_desk[c].team \in team
  /\ team_desk[c].op = "create" \/ TeamAt(c, "drop_team") =>
       \A u \in Users : role[<<team_desk[c].team, u>>] = "none"

Present == ~torn => \A c \in TeamClerks : PresentFor(c)

Quiet == ~demote_met /\ ~torn

(* A team in use: neither being created nor down to its row.               *)
InUse(t) ==
  t \in team /\ \A c \in TeamClerks :
                  team_desk[c].op = "create" \/ TeamAt(c, "drop_team") => team_desk[c].team # t

AdminsLed == Quiet => \A t \in Teams : InUse(t) => Admins(t) # {}

(* What a handler that may demote has counted still holds.                 *)
Left(w) == Admins(w.team) \ {w.user}
Counted(w) ==
  /\ w.pc = "read_target" => Left(w) # {} \/ (w.others = 0 /\ role[<<w.team, w.user>>] = "admin")
  /\ w.pc = "remove" => Left(w) # {}
  /\ w.pc = "toggle" /\ w.as = "member" => Left(w) # {}

CountHolds == Quiet => \A c \in TeamClerks : Counted(team_desk[c])

(* What holds of a team nothing has torn, and what holds of any.           *)
TeamKept ==
  TeamTyped /\ OneDemotion /\ EndAlone /\ Created /\ Present /\ AdminsLed /\ CountHolds /\ NoStrayMembers
TeamInv == TeamTyped /\ (~torn => TeamKept)

-----------------------------------------------------------------------------
(* The idle record is well-typed.                                          *)
LEMMA FreeLabelled == TeamFree \in TeamWork /\ Labelled(TeamFree)
BY TeamAssumption DEF TeamFree, TeamWork, TeamSteps, Roles, Labelled, Nobody

(* Rewriting the record of one handler.                                    *)
LEMMA DeskAfter ==
  ASSUME TeamTyped, NEW c \in TeamClerks, NEW w \in TeamWork, TeamBecome(c, w)
  PROVE  /\ team_desk' \in [TeamClerks -> TeamWork]
         /\ \A o \in TeamClerks : team_desk'[o] = IF o = c THEN w ELSE team_desk[o]
BY DEF TeamTyped, TeamBecome

(* The initial state: no team, no handler.                                 *)
LEMMA TeamInitInv == TeamInit => TeamInv
<1> SUFFICES ASSUME TeamInit PROVE TeamInv
  OBVIOUS
<1>1. \A c \in TeamClerks : team_desk[c] = TeamFree
  BY DEF TeamInit
<1>2. TeamTyped
  BY <1>1, FreeLabelled DEF TeamInit, TeamTyped, Roles
<1>3. OneDemotion /\ EndAlone /\ Created /\ Present /\ AdminsLed /\ CountHolds /\ NoStrayMembers
  BY <1>1 DEF TeamInit, OneDemotion, EndAlone, Created, CreatedBy, Present, PresentFor, AdminsLed, CountHolds, Counted, InUse,
              NoStrayMembers, TeamFree, TeamAt, Demotions
<1> QED
  BY <1>2, <1>3 DEF TeamInv, TeamKept

(* A handler starts on a team in use, or creates one nobody names.         *)
LEMMA TeamStartKeeps ==
  ASSUME TeamKept, NEW c \in TeamClerks, NEW w \in TeamWork, Labelled(w), TeamStart(c, w),
         w.pc \in {"insert_team", "drop_members", "add", "count_admins", "read_member"},
         ~torn', w.op # "create" => w.team \in team,
         w.op = "create" => /\ w.team \notin team /\ creator[w.team] = Nobody
                            /\ \A o \in TeamClerks : team_desk[o].team # w.team
                            /\ w.team \in Teams
  PROVE  TeamKept'
<1> USE DEF TeamAt
<1>1. team_desk[c].pc = "free" /\ UNCHANGED <<team, creator, role>> /\ TeamBecome(c, w)
  BY DEF TeamStart, rosters
<1>2. /\ team_desk' \in [TeamClerks -> TeamWork]
      /\ \A o \in TeamClerks : team_desk'[o] = IF o = c THEN w ELSE team_desk[o]
  BY <1>1, DeskAfter DEF TeamKept
<1>3. /\ demote_met' = (demote_met \/ (w.op \in Demotions /\ TeamOthers(c) \cap Demotions # {}))
      /\ ~torn /\ ~(TeamOthers(c) # {} /\ (TeamOthers(c) \cup {w.op}) \cap Endings # {})
      /\ w.op # "create" => w.team \in Known
  BY DEF TeamStart
<1>4. TeamTyped'
  BY <1>1, <1>2, <1>3 DEF TeamKept, TeamTyped, TeamStart
<1>5. \A o \in TeamClerks : Labelled(team_desk[o])
  BY DEF TeamKept, TeamTyped
<1>6. ~demote_met' => ~demote_met /\ (w.op \in Demotions => \A o \in TeamClerks \ {c} : team_desk[o].op \notin Demotions)
  BY <1>3, <1>5 DEF TeamOthers, Labelled, TeamFree, Demotions
<1>7. /\ ~torn
      /\ w.op = "end" => \A o \in TeamClerks \ {c} : team_desk[o].pc = "free"
      /\ \A o \in TeamClerks \ {c} : team_desk[o].pc # "free" => team_desk[o].op # "end"
  BY <1>3 DEF TeamOthers, Endings
<1>8. OneDemotion'
  BY <1>2, <1>6 DEF TeamKept, OneDemotion
<1>9. EndAlone'
  <2>1. \A o, x \in TeamClerks : team_desk[o].op = "end" /\ team_desk[x].pc # "free" => o = x
    BY <1>7 DEF TeamKept, EndAlone
  <2>2. team_desk[c].op = "none"
    BY <1>1, <1>5 DEF Labelled, TeamFree
  <2> SUFFICES ASSUME NEW o \in TeamClerks, NEW x \in TeamClerks, o # x,
                      team_desk'[o].op = "end", team_desk'[x].pc # "free"
               PROVE  FALSE
    BY DEF EndAlone
  <2>3. CASE o = c
    BY <1>2, <1>7, <2>3
  <2>4. CASE x = c
    BY <1>2, <1>5, <1>7, <2>4 DEF Labelled, TeamFree
  <2>5. CASE o # c /\ x # c
    BY <1>2, <2>1, <2>5
  <2> QED
    BY <2>3, <2>4, <2>5
<1>10. Created'
  <2> SUFFICES ASSUME NEW o \in TeamClerks PROVE CreatedBy(o)'
    BY DEF Created
  <2>1. CASE o = c
    BY <1>1, <1>2, <2>1 DEF Labelled, CreatedBy
  <2>2. CASE o # c
    <3>1. team_desk'[o] = team_desk[o] /\ CreatedBy(o)
      BY <1>2, <2>2 DEF TeamKept, Created, CreatedBy
    <3>2. team_desk[o].op = "create" => w.team # team_desk[o].team
      BY <1>3, <2>2, <3>1 DEF Known, CreatedBy
    <3> QED
      BY <1>1, <1>2, <3>1, <3>2 DEF CreatedBy
  <2> QED
    BY <2>1, <2>2
<1>11. Present'
  <2>1. ~torn /\ w.op = "create" => \A u \in Users : role[<<w.team, u>>] = "none"
    BY DEF TeamKept, NoStrayMembers
  <2> QED
    BY <1>1, <1>2, <1>3, <1>7, <2>1 DEF TeamKept, Present, PresentFor, Known, Labelled
<1>12. \A t \in Teams : InUse(t)' => InUse(t)
  BY <1>1, <1>2, <1>5 DEF InUse, Labelled, TeamFree
<1>13. AdminsLed'
  <2> SUFFICES ASSUME Quiet', NEW t \in Teams, InUse(t)' PROVE Admins(t)' # {}
    BY DEF AdminsLed
  <2>1. Quiet /\ InUse(t)
    BY <1>6, <1>7, <1>12 DEF Quiet
  <2>2. Admins(t)' = Admins(t)
    BY <1>1 DEF Admins
  <2> QED
    BY <2>1, <2>2 DEF TeamKept, AdminsLed
<1>14. CountHolds'
  <2>1. Counted(w)
    BY DEF Counted
  <2>2. ASSUME NEW v PROVE Counted(v)' = Counted(v)
    BY <1>1 DEF Counted, Left, Admins
  <2>3. Quiet' => \A o \in TeamClerks : Counted(team_desk[o])
    BY <1>6, <1>7 DEF TeamKept, CountHolds, Quiet
  <2> QED
    BY <1>2, <2>1, <2>2, <2>3 DEF CountHolds
<1>15. NoStrayMembers'
  <2>1. \A m \in Teams \X Users : role[m] # "none" => m[1] \in team
    BY <1>7 DEF TeamKept, NoStrayMembers
  <2> QED
    BY <1>1, <2>1 DEF NoStrayMembers
<1> QED
  BY <1>4, <1>8, <1>9, <1>10, <1>11, <1>13, <1>14, <1>15 DEF TeamKept

(* A handler reads and goes on, or is refused: no row changes.             *)
LEMMA MoveOnKeeps ==
  ASSUME TeamKept, NEW c \in TeamClerks, NEW w \in TeamWork, Labelled(w), TeamBecome(c, w),
         UNCHANGED <<team, creator, role, demote_met, torn>>,
         team_desk[c].op \in Demotions,
         w = TeamFree \/ (w.op = team_desk[c].op /\ w.team = team_desk[c].team /\ w.user = team_desk[c].user),
         Quiet => Counted(w)
  PROVE  TeamKept'
<1> USE DEF TeamAt
<1>1. /\ team_desk' \in [TeamClerks -> TeamWork]
      /\ \A o \in TeamClerks : team_desk'[o] = IF o = c THEN w ELSE team_desk[o]
  BY DeskAfter DEF TeamKept
<1>2. TeamTyped'
  BY <1>1 DEF TeamKept, TeamTyped
<1>3. /\ team_desk[c].pc \notin {"free", "insert_team", "insert_creator", "drop_members", "drop_team"}
      /\ w.pc \notin {"insert_team", "insert_creator", "drop_members", "drop_team"}
      /\ w.op \notin {"create", "end"}
      /\ w.op # team_desk[c].op => w = TeamFree
  BY DEF TeamKept, TeamTyped, Labelled, TeamFree, Demotions
<1>4. OneDemotion'
  BY <1>1, <1>3 DEF TeamKept, OneDemotion, TeamFree, Demotions
<1>5. EndAlone'
  BY <1>1, <1>3 DEF TeamKept, EndAlone
<1>6. w.team = team_desk[c].team \/ w.team \notin Teams
  BY TeamAssumption DEF TeamFree, Nobody
<1>7. Created'
  BY <1>1, <1>3, <1>6 DEF TeamKept, TeamTyped, Labelled, Created, CreatedBy
<1>8. Present'
  BY <1>1, <1>3 DEF TeamKept, Present, PresentFor, TeamFree
<1>9. AdminsLed'
  BY <1>1, <1>3, <1>6 DEF TeamKept, TeamTyped, Labelled, AdminsLed, Quiet, InUse, Admins, Demotions
<1>10. CountHolds'
  <2>1. ASSUME NEW v PROVE Counted(v)' = Counted(v)
    BY DEF Counted, Left, Admins
  <2> QED
    BY <1>1, <2>1 DEF TeamKept, CountHolds, Quiet
<1>11. NoStrayMembers'
  BY DEF TeamKept, NoStrayMembers
<1> QED
  BY <1>2, <1>4, <1>5, <1>7, <1>8, <1>9, <1>10, <1>11 DEF TeamKept

(* A handler writes one role and is done.  Who takes the admin role away   *)
(* has counted another admin; nobody else may demote meanwhile.            *)
LEMMA RoleKeeps ==
  ASSUME TeamKept, NEW c \in TeamClerks, NEW s \in Roles, TeamFinish(c),
         team_desk[c].op \in {"add", "remove", "toggle"},
         role' = [role EXCEPT ![Roster(c)] = s],
         UNCHANGED <<team, creator, demote_met, torn>>,
         \/ s = "admin"
         \/ role[Roster(c)] # "admin" /\ s # "none"
         \/ /\ team_desk[c].op \in Demotions
            /\ Quiet => Admins(team_desk[c].team) \ {team_desk[c].user} # {}
  PROVE  TeamKept'
<1> USE DEF TeamAt
<1>0. PICK t, u : t = team_desk[c].team /\ u = team_desk[c].user
  OBVIOUS
<1>1. \A o \in TeamClerks : team_desk'[o] = IF o = c THEN TeamFree ELSE team_desk[o]
  BY <1>0, FreeLabelled, DeskAfter DEF TeamKept, TeamFinish
<1>2. /\ t \in Teams /\ u \in Users /\ team_desk[c] \in TeamWork
      /\ team_desk[c].pc \notin {"free", "insert_team", "insert_creator", "drop_members", "drop_team"}
  BY <1>0 DEF TeamKept, TeamTyped, Labelled
<1>3. /\ role \in [Teams \X Users -> Roles] /\ Roster(c) \in Teams \X Users
      /\ \A m \in Teams \X Users : role'[m] = IF m = Roster(c) THEN s ELSE role[m]
  BY <1>0, <1>2 DEF TeamKept, TeamTyped, Roster
<1>4. TeamTyped'
  <2>1. role' \in [Teams \X Users -> Roles]
    BY <1>0, <1>3
  <2>2. team_desk' \in [TeamClerks -> TeamWork]
    BY <1>0, FreeLabelled, DeskAfter DEF TeamKept, TeamFinish
  <2> QED
    BY <1>1, <2>1, <2>2, FreeLabelled DEF TeamKept, TeamTyped
<1>5. OneDemotion' /\ EndAlone'
  BY <1>0, <1>1 DEF TeamKept, OneDemotion, EndAlone, TeamFree, Demotions
<1>6. \A o \in TeamClerks \ {c} : team_desk[o].op = "create" => team_desk[o].team # t
  BY <1>0 DEF TeamKept, Created, CreatedBy
<1>7. Created'
  <2> SUFFICES ASSUME NEW o \in TeamClerks PROVE CreatedBy(o)'
    BY DEF Created
  <2>1. CASE o = c
    BY <1>0, <1>1, <2>1 DEF TeamFree, CreatedBy
  <2>2. CASE o # c
    <3>1. team_desk'[o] = team_desk[o] /\ CreatedBy(o)
      BY <1>0, <1>1, <2>2 DEF TeamKept, Created, CreatedBy
    <3>2. team_desk[o].op = "create" => team_desk[o].team \in Teams
      BY <1>0 DEF TeamKept, TeamTyped, Labelled, CreatedBy
    <3>4. \A x \in TeamClerks : team_desk'[x].team = team_desk[x].team \/ team_desk'[x].team = Nobody
      BY <1>0, <1>1 DEF TeamFree, CreatedBy
    <3> QED
      BY <3>1, <3>2, <3>4, TeamAssumption DEF Nobody, CreatedBy
  <2> QED
    BY <2>1, <2>2
<1>8. ~torn => t \in team /\ \A o \in TeamClerks : team_desk[o].op # "end"
  BY <1>0, <1>2 DEF TeamKept, Present, PresentFor, EndAlone, TeamTyped, Labelled
<1>9. Present'
  <2> SUFFICES ASSUME ~torn, NEW o \in TeamClerks PROVE PresentFor(o)'
    BY <1>0 DEF Present
  <2>1. CASE o = c
    BY <1>1, <2>1 DEF TeamFree, PresentFor
  <2>2. CASE o # c
    <3>1. PresentFor(o) /\ team_desk'[o] = team_desk[o] /\ team' = team
      BY <1>1, <2>2 DEF TeamKept, Present
    <3>2. team_desk[o].op = "create" \/ TeamAt(o, "drop_team") =>
            team_desk[o].op = "create" /\ team_desk[o].team \in Teams /\ team_desk[o].team # t
      BY <1>6, <1>8, <2>2 DEF TeamKept, TeamTyped, Labelled
    <3> QED
      BY <1>0, <1>3, <3>1, <3>2 DEF PresentFor, Roster
  <2> QED
    BY <2>1, <2>2
<1>10. NoStrayMembers'
  BY <1>0, <1>3, <1>8 DEF TeamKept, NoStrayMembers, Roster
<1>11. \A x \in Teams : InUse(x)' => InUse(x)
  BY <1>0, <1>1, <1>2, <1>6 DEF InUse, TeamFree, TeamKept, TeamTyped, Labelled
<1>12. \A x \in Teams : x # t => Admins(x)' = Admins(x)
  BY <1>0, <1>3 DEF Admins, Roster
<1>13. Admins(t) \ {u} \subseteq Admins(t)'
  BY <1>0, <1>2, <1>3 DEF Admins, Roster
<1>14. s = "admin" \/ role[Roster(c)] # "admin" => Admins(t) \subseteq Admins(t)'
  BY <1>0, <1>2, <1>3 DEF Admins, Roster
<1>15. AdminsLed'
  <2> SUFFICES ASSUME Quiet', NEW x \in Teams, InUse(x)' PROVE Admins(x)' # {}
    BY <1>0 DEF AdminsLed
  <2>1. Quiet /\ Admins(x) # {}
    BY <1>0, <1>11 DEF TeamKept, AdminsLed, Quiet
  <2>2. CASE x = t
    <3>1. s = "admin" \/ role[Roster(c)] # "admin" \/ Admins(t) \ {u} # {}
      BY <1>0, <2>1
    <3> QED
      BY <1>13, <1>14, <2>1, <2>2, <3>1
  <2> QED
    BY <1>12, <2>1, <2>2
<1>16. CountHolds'
  <2> SUFFICES ASSUME Quiet', NEW o \in TeamClerks PROVE Counted(team_desk[o])'
    BY <1>0 DEF CountHolds
  <2>1. Quiet /\ Counted(team_desk[o])
    BY <1>0 DEF TeamKept, CountHolds, Quiet
  <2>2. CASE o = c
    BY <1>0, <1>1, <2>2 DEF Counted, TeamFree
  <2>3. CASE o # c /\ team_desk[o].op \notin Demotions
    BY <1>0, <1>1, <2>3 DEF TeamKept, TeamTyped, Labelled, Counted, Demotions
  <2>4. CASE o # c /\ team_desk[o].op \in Demotions
    <3>1. s = "admin" \/ role[Roster(c)] # "admin"
      BY <1>0, <2>1, <2>4 DEF TeamKept, OneDemotion, Quiet
    <3>2. \A x \in Teams : Admins(x) \subseteq Admins(x)'
      BY <1>0, <1>12, <1>14, <3>1
    <3>3. team_desk[o].team \in Teams /\ team_desk[o].user \in Users
      BY <1>0, <2>4 DEF TeamKept, TeamTyped, Labelled, Demotions
    <3>4. Left(team_desk[o]) \subseteq Left(team_desk[o])'
      BY <1>0, <1>1, <2>4, <3>2, <3>3 DEF Left
    <3>5. role[<<team_desk[o].team, team_desk[o].user>>] = "admin"
            => role'[<<team_desk[o].team, team_desk[o].user>>] = "admin"
      BY <1>0, <1>3, <3>1, <3>3
    <3> QED
      BY <1>1, <2>1, <2>4, <3>4, <3>5 DEF Counted
  <2> QED
    BY <2>2, <2>3, <2>4
<1> QED
  BY <1>4, <1>5, <1>7, <1>9, <1>10, <1>15, <1>16 DEF TeamKept

-----------------------------------------------------------------------------
(* The steps of a creation and of a deletion.                              *)

(* The row of a new team, which nobody names yet.                          *)
LEMMA InsertTeamKeeps ==
  ASSUME TeamKept, NEW c \in TeamClerks, InsertTeam(c)
  PROVE  TeamKept'
<1> USE DEF TeamAt
<1>0. PICK t : t = team_desk[c].team
  OBVIOUS
<1> DEFINE w == [team_desk[c] EXCEPT !.pc = "insert_creator"]
<1>1. /\ team_desk[c].pc = "insert_team" /\ team_desk[c].op = "create"
      /\ t \in Teams /\ team_desk[c].user \in Users /\ team_desk[c] \in TeamWork
  BY <1>0 DEF InsertTeam, TeamKept, TeamTyped, Labelled
<1>2. /\ team' = team \cup {t} /\ creator' = [creator EXCEPT ![t] = team_desk[c].user]
      /\ UNCHANGED <<role, demote_met, torn>>
      /\ TeamBecome(c, w)
  BY <1>0 DEF InsertTeam, TeamGoto
<1>3. /\ w \in TeamWork /\ Labelled(w) /\ w.pc = "insert_creator" /\ w.op = "create"
      /\ w.team = t /\ w.user = team_desk[c].user /\ w # TeamFree
  BY <1>0, <1>1 DEF TeamWork, TeamSteps, TeamKept, TeamTyped, Labelled, TeamFree
<1> HIDE DEF w
<1>4. /\ team_desk' \in [TeamClerks -> TeamWork]
      /\ \A o \in TeamClerks : team_desk'[o] = IF o = c THEN w ELSE team_desk[o]
  BY <1>0, <1>2, <1>3, DeskAfter DEF TeamKept
<1>5. TeamTyped'
  BY <1>0, <1>1, <1>2, <1>3, <1>4 DEF TeamKept, TeamTyped
<1>6. OneDemotion' /\ EndAlone'
  BY <1>0, <1>1, <1>2, <1>3, <1>4 DEF TeamKept, OneDemotion, EndAlone, Demotions
<1>7. \A o \in TeamClerks \ {c} : team_desk[o].team # t
  BY <1>0, <1>1 DEF TeamKept, Created, CreatedBy
<1>8. Created'
  <2> SUFFICES ASSUME NEW o \in TeamClerks PROVE CreatedBy(o)'
    BY DEF Created
  <2>1. \A x \in TeamClerks : team_desk'[x].team = team_desk[x].team /\ team_desk'[x].op = team_desk[x].op
    BY <1>0, <1>1, <1>3, <1>4 DEF CreatedBy
  <2>2. CreatedBy(o) /\ creator \in [Teams -> Users \cup {Nobody}]
    BY <1>0 DEF TeamKept, Created, CreatedBy, TeamTyped
  <2>3. CASE o = c
    BY <1>0, <1>1, <1>2, <1>3, <1>4, <1>7, <2>1, <2>2, <2>3, TeamAssumption DEF Nobody, CreatedBy
  <2>4. CASE o # c
    <3>1. team_desk'[o] = team_desk[o] /\ team_desk[o].team # t
      BY <1>0, <1>4, <1>7, <2>4 DEF CreatedBy
    <3>2. team_desk[o].pc \in {"insert_team", "insert_creator"} => team_desk[o].team \in Teams
      BY <1>0 DEF TeamKept, TeamTyped, Labelled, CreatedBy
    <3> QED
      BY <1>2, <2>1, <2>2, <3>1, <3>2 DEF CreatedBy
  <2> QED
    BY <2>3, <2>4 DEF CreatedBy
<1>9. Present'
  BY <1>0, <1>1, <1>2, <1>3, <1>4 DEF TeamKept, Present, PresentFor
<1>10. \A x \in Teams : InUse(x)' => InUse(x)
  BY <1>0, <1>1, <1>2, <1>3, <1>4 DEF InUse
<1>11. AdminsLed'
  BY <1>0, <1>2, <1>10 DEF TeamKept, AdminsLed, Quiet, Admins
<1>12. ASSUME NEW v PROVE Counted(v)' = Counted(v)
  BY <1>0, <1>2 DEF Counted, Left, Admins
<1>13. CountHolds'
  BY <1>0, <1>2, <1>3, <1>4, <1>12 DEF TeamKept, CountHolds, Quiet, Counted
<1>14. NoStrayMembers'
  BY <1>0, <1>2 DEF TeamKept, NoStrayMembers
<1> QED
  BY <1>5, <1>6, <1>8, <1>9, <1>11, <1>13, <1>14 DEF TeamKept

(* The creator becomes the new team's first admin.                         *)
LEMMA InsertCreatorKeeps ==
  ASSUME TeamKept, NEW c \in TeamClerks, InsertCreator(c)
  PROVE  TeamKept'
<1> USE DEF TeamAt
<1>0. PICK t, u : t = team_desk[c].team /\ u = team_desk[c].user
  OBVIOUS
<1>1. /\ team_desk[c].pc = "insert_creator" /\ team_desk[c].op = "create"
      /\ t \in Teams /\ u \in Users
      /\ role' = [role EXCEPT ![<<t, u>>] = "admin"]
      /\ UNCHANGED <<team, creator, demote_met, torn>> /\ TeamBecome(c, TeamFree)
  BY <1>0 DEF InsertCreator, TeamFinish, Roster, TeamKept, TeamTyped, Labelled
<1>2. /\ team_desk' \in [TeamClerks -> TeamWork]
      /\ \A o \in TeamClerks : team_desk'[o] = IF o = c THEN TeamFree ELSE team_desk[o]
  BY <1>0, <1>1, FreeLabelled, DeskAfter DEF TeamKept
<1>3. /\ role \in [Teams \X Users -> Roles] /\ role' \in [Teams \X Users -> Roles]
      /\ \A m \in Teams \X Users : role'[m] = IF m = <<t, u>> THEN "admin" ELSE role[m]
  BY <1>0, <1>1 DEF TeamKept, TeamTyped, Roles
<1>4. TeamTyped'
  BY <1>0, <1>1, <1>2, <1>3, FreeLabelled DEF TeamKept, TeamTyped
<1>5. OneDemotion' /\ EndAlone'
  BY <1>0, <1>1, <1>2 DEF TeamKept, OneDemotion, EndAlone, TeamFree, Demotions
<1>6. \A o \in TeamClerks \ {c} : team_desk[o].team # t
  BY <1>0, <1>1 DEF TeamKept, Created, CreatedBy
<1>7. Created'
  <2> SUFFICES ASSUME NEW o \in TeamClerks PROVE CreatedBy(o)'
    BY DEF Created
  <2>1. CASE o = c
    BY <1>0, <1>2, <2>1 DEF TeamFree, CreatedBy
  <2>2. CASE o # c
    <3>1. team_desk'[o] = team_desk[o] /\ CreatedBy(o) /\ team_desk[o].team # t
      BY <1>0, <1>2, <1>6, <2>2 DEF TeamKept, Created, CreatedBy
    <3>2. team_desk[o].op = "create" => team_desk[o].team \in Teams
      BY <1>0 DEF TeamKept, TeamTyped, Labelled, CreatedBy
    <3>4. \A x \in TeamClerks : team_desk'[x].team = team_desk[x].team \/ team_desk'[x].team = Nobody
      BY <1>0, <1>2 DEF TeamFree, CreatedBy
    <3> QED
      BY <1>1, <3>1, <3>2, <3>4, TeamAssumption DEF Nobody, CreatedBy
  <2> QED
    BY <2>1, <2>2
<1>8. ~torn => t \in team
  BY <1>0, <1>1 DEF TeamKept, Present, PresentFor
<1>9. Present'
  <2> SUFFICES ASSUME ~torn, NEW o \in TeamClerks PROVE PresentFor(o)'
    BY <1>1 DEF Present
  <2>1. CASE o = c
    BY <1>2, <2>1 DEF TeamFree, PresentFor
  <2>2. CASE o # c
    <3>1. PresentFor(o) /\ team_desk'[o] = team_desk[o] /\ team_desk[o].team # t
      BY <1>2, <1>6, <2>2 DEF TeamKept, Present
    <3>2. team_desk[o].op = "create" \/ TeamAt(o, "drop_team") => team_desk[o].team \in Teams
      BY DEF TeamKept, TeamTyped, Labelled
    <3> QED
      BY <1>1, <1>3, <3>1, <3>2 DEF PresentFor
  <2> QED
    BY <2>1, <2>2
<1>10. NoStrayMembers'
  BY <1>0, <1>1, <1>3, <1>8 DEF TeamKept, NoStrayMembers
<1>11. Admins(t)' # {} /\ \A x \in Teams : x # t => Admins(x)' = Admins(x)
  BY <1>0, <1>1, <1>3 DEF Admins
<1>12. \A x \in Teams : x # t /\ InUse(x)' => InUse(x)
  BY <1>0, <1>1, <1>2 DEF InUse
<1>13. AdminsLed'
  BY <1>0, <1>1, <1>11, <1>12 DEF TeamKept, AdminsLed, Quiet
<1>14. CountHolds'
  <2> SUFFICES ASSUME Quiet', NEW o \in TeamClerks PROVE Counted(team_desk[o])'
    BY <1>0 DEF CountHolds
  <2>1. CASE o = c
    BY <1>0, <1>2, <2>1 DEF Counted, TeamFree
  <2>2. CASE o # c
    <3>1. Counted(team_desk[o]) /\ team_desk'[o] = team_desk[o] /\ team_desk[o].team # t
      BY <1>0, <1>1, <1>2, <1>6, <2>2 DEF TeamKept, CountHolds, Quiet
    <3>2. CASE team_desk[o].pc \in {"read_target", "remove", "toggle"}
      <4>1. team_desk[o].team \in Teams /\ team_desk[o].user \in Users
        BY <1>0, <3>2 DEF TeamKept, TeamTyped, Labelled
      <4> QED
        BY <1>3, <1>11, <3>1, <4>1 DEF Counted, Left
    <3>3. CASE team_desk[o].pc \notin {"read_target", "remove", "toggle"}
      BY <1>0, <3>1, <3>3 DEF Counted
    <3> QED
      BY <3>2, <3>3
  <2> QED
    BY <2>1, <2>2
<1> QED
  BY <1>4, <1>5, <1>7, <1>9, <1>10, <1>13, <1>14 DEF TeamKept

(* The members go: whoever else could hold the team is not there.          *)
LEMMA DropMembersKeeps ==
  ASSUME TeamKept, NEW c \in TeamClerks, DropMembers(c)
  PROVE  TeamKept'
<1> USE DEF TeamAt
<1>0. PICK t : t = team_desk[c].team
  OBVIOUS
<1> DEFINE w == [team_desk[c] EXCEPT !.pc = "drop_team"]
<1>1. /\ team_desk[c].pc = "drop_members" /\ team_desk[c].op = "end"
      /\ t \in Teams /\ team_desk[c] \in TeamWork
      /\ UNCHANGED <<team, creator, demote_met, torn>> /\ TeamBecome(c, w)
  BY <1>0 DEF DropMembers, TeamGoto, TeamKept, TeamTyped, Labelled
<1>2. w \in TeamWork /\ Labelled(w) /\ w.pc = "drop_team" /\ w.op = "end" /\ w.team = t
  BY <1>0, <1>1 DEF TeamWork, TeamSteps, TeamKept, TeamTyped, Labelled, TeamFree
<1> HIDE DEF w
<1>3. /\ team_desk' \in [TeamClerks -> TeamWork]
      /\ \A o \in TeamClerks : team_desk'[o] = IF o = c THEN w ELSE team_desk[o]
  BY <1>1, <1>2, DeskAfter DEF TeamKept
<1>4. /\ role \in [Teams \X Users -> Roles] /\ role' \in [Teams \X Users -> Roles]
      /\ \A x \in Teams, u \in Users : role'[<<x, u>>] = IF x = t THEN "none" ELSE role[<<x, u>>]
  BY <1>0 DEF DropMembers, TeamKept, TeamTyped, Roles
<1>5. TeamTyped'
  BY <1>1, <1>2, <1>3, <1>4 DEF TeamKept, TeamTyped
<1>6. OneDemotion' /\ EndAlone'
  BY <1>1, <1>2, <1>3 DEF TeamKept, OneDemotion, EndAlone, Demotions
<1>7. Created'
  <2> SUFFICES ASSUME NEW o \in TeamClerks PROVE CreatedBy(o)'
    BY DEF Created
  <2>1. \A x \in TeamClerks : team_desk'[x].team = team_desk[x].team /\ team_desk'[x].op = team_desk[x].op
    BY <1>0, <1>1, <1>2, <1>3
  <2>2. CreatedBy(o) /\ (team_desk[o].op = "create" => team_desk[o].team \in Teams)
    BY DEF TeamKept, Created, TeamTyped, Labelled
  <2>3. CASE o = c
    BY <1>2, <1>3, <2>3 DEF CreatedBy
  <2>4. CASE o # c
    BY <1>1, <1>3, <1>4, <2>1, <2>2, <2>4 DEF CreatedBy
  <2> QED
    BY <2>3, <2>4
<1>8. ~torn => t \in team /\ \A o \in TeamClerks \ {c} : team_desk[o].pc = "free"
  BY <1>0, <1>1 DEF TeamKept, Present, PresentFor, EndAlone
<1>9. Present'
  <2>1. \A o \in TeamClerks : team_desk[o].pc = "free" => team_desk[o].op = "none"
    BY DEF TeamKept, TeamTyped, Labelled, TeamFree
  <2>2. ASSUME ~torn, NEW o \in TeamClerks, o # c PROVE PresentFor(o)'
    BY <1>3, <1>8, <2>1, <2>2 DEF PresentFor
  <2>3. ~torn => PresentFor(c)'
    BY <1>0, <1>1, <1>2, <1>3, <1>4, <1>8 DEF PresentFor
  <2> QED
    BY <1>1, <2>2, <2>3 DEF Present
<1>10. AdminsLed'
  <2> SUFFICES ASSUME Quiet', NEW x \in Teams, InUse(x)' PROVE Admins(x)' # {}
    BY DEF AdminsLed
  <2>1. Quiet /\ x # t
    BY <1>1, <1>2, <1>3 DEF Quiet, InUse
  <2>2. InUse(x)
    BY <1>0, <1>1, <1>2, <1>3, <2>1 DEF InUse
  <2>3. Admins(x)' = Admins(x)
    BY <1>4, <2>1 DEF Admins
  <2> QED
    BY <2>1, <2>2, <2>3 DEF TeamKept, AdminsLed
<1>11. CountHolds'
  BY <1>1, <1>2, <1>3, <1>8 DEF CountHolds, Counted, Quiet
<1>12. NoStrayMembers'
  BY <1>1, <1>4 DEF TeamKept, NoStrayMembers
<1> QED
  BY <1>5, <1>6, <1>7, <1>9, <1>10, <1>11, <1>12 DEF TeamKept

(* The row goes: its members went before.                                  *)
LEMMA DropTeamKeeps ==
  ASSUME TeamKept, NEW c \in TeamClerks, DropTeam(c)
  PROVE  TeamKept'
<1> USE DEF TeamAt
<1>0. PICK t : t = team_desk[c].team
  OBVIOUS
<1>1. /\ team_desk[c].pc = "drop_team" /\ team_desk[c].op = "end" /\ t \in Teams
      /\ team' = team \ {t} /\ UNCHANGED <<creator, role, demote_met, torn>>
      /\ TeamBecome(c, TeamFree)
  BY <1>0 DEF DropTeam, TeamFinish, TeamKept, TeamTyped, Labelled
<1>2. /\ team_desk' \in [TeamClerks -> TeamWork]
      /\ \A o \in TeamClerks : team_desk'[o] = IF o = c THEN TeamFree ELSE team_desk[o]
  BY <1>1, FreeLabelled, DeskAfter DEF TeamKept
<1>3. TeamTyped'
  BY <1>1, <1>2, FreeLabelled DEF TeamKept, TeamTyped
<1>4. OneDemotion' /\ EndAlone'
  BY <1>1, <1>2 DEF TeamKept, OneDemotion, EndAlone, TeamFree, Demotions
<1>5. Created'
  <2> SUFFICES ASSUME NEW o \in TeamClerks PROVE CreatedBy(o)'
    BY DEF Created
  <2>1. \A x \in TeamClerks : team_desk'[x].team = team_desk[x].team \/ team_desk'[x].team = Nobody
    BY <1>2 DEF TeamFree
  <2>2. CreatedBy(o) /\ (team_desk[o].op = "create" => team_desk[o].team \in Teams)
    BY DEF TeamKept, Created, TeamTyped, Labelled
  <2>3. CASE o = c
    BY <1>2, <2>3 DEF CreatedBy, TeamFree
  <2>4. CASE o # c
    BY <1>1, <1>2, <2>1, <2>2, <2>4, TeamAssumption DEF CreatedBy, Nobody
  <2> QED
    BY <2>3, <2>4
<1>6. ~torn => /\ \A o \in TeamClerks \ {c} : team_desk[o].pc = "free"
               /\ \A u \in Users : role[<<t, u>>] = "none"
  BY <1>0, <1>1 DEF TeamKept, Present, PresentFor, EndAlone
<1>7. Present'
  <2>1. \A o \in TeamClerks : team_desk[o].pc = "free" => team_desk[o].op = "none"
    BY DEF TeamKept, TeamTyped, Labelled, TeamFree
  <2>2. ASSUME ~torn, NEW o \in TeamClerks PROVE PresentFor(o)'
    BY <1>2, <1>6, <2>1, <2>2 DEF PresentFor, TeamFree
  <2> QED
    BY <1>1, <2>2 DEF Present
<1>8. \A x \in Teams : InUse(x)' => InUse(x)
  BY <1>0, <1>1, <1>2 DEF InUse
<1>9. AdminsLed'
  BY <1>1, <1>8 DEF TeamKept, AdminsLed, Quiet, Admins
<1>10. CountHolds'
  BY <1>1, <1>2, <1>6 DEF CountHolds, Counted, Quiet, TeamFree
<1>11. NoStrayMembers'
  BY <1>1, <1>6 DEF TeamKept, NoStrayMembers
<1> QED
  BY <1>3, <1>4, <1>5, <1>7, <1>9, <1>10, <1>11 DEF TeamKept

-----------------------------------------------------------------------------
(* A restart, unless it tears a team: what was in flight is gone.          *)
LEMMA TeamCrashKeeps ==
  ASSUME TeamKept, TeamCrash, ~torn'
  PROVE  TeamKept'
<1> USE DEF TeamAt
<1>1. /\ team_desk' = [c \in TeamClerks |-> TeamFree] /\ UNCHANGED <<team, creator, role, demote_met>>
      /\ ~torn /\ \A c \in TeamClerks : team_desk[c].pc \notin {"insert_creator", "drop_team"}
  BY DEF TeamCrash, rosters
<1>2. \A c \in TeamClerks : team_desk'[c] = TeamFree
  BY <1>1
<1>3. TeamTyped'
  <2>1. team_desk' \in [TeamClerks -> TeamWork]
    BY <1>1, FreeLabelled
  <2>2. \A c \in TeamClerks : Labelled(team_desk[c])'
    BY <1>2, FreeLabelled DEF Labelled
  <2>3. /\ team \subseteq Teams /\ creator \in [Teams -> Users \cup {Nobody}]
        /\ role \in [Teams \X Users -> Roles] /\ demote_met \in BOOLEAN
    BY DEF TeamKept, TeamTyped
  <2>4. demote_met' \in BOOLEAN /\ torn' \in BOOLEAN
    BY <1>1, <2>3 DEF TeamCrash
  <2> QED
    BY <1>1, <2>1, <2>2, <2>3, <2>4 DEF TeamTyped
<1>4. OneDemotion' /\ EndAlone' /\ Created' /\ Present' /\ CountHolds'
  BY <1>2 DEF OneDemotion, EndAlone, Created, CreatedBy, Present, PresentFor, CountHolds, Counted, TeamFree, Demotions
<1>5. \A t \in Teams : InUse(t)' => InUse(t)
  <2> SUFFICES ASSUME NEW t \in Teams, InUse(t)', NEW c \in TeamClerks, team_desk[c].op = "create"
               PROVE  team_desk[c].team # t
    BY <1>1 DEF InUse
  <2>1. team_desk[c].pc = "insert_team"
    BY <1>1 DEF TeamKept, TeamTyped, Labelled
  <2> QED
    BY <1>1, <2>1 DEF TeamKept, Created, CreatedBy, InUse
<1>6. AdminsLed'
  BY <1>1, <1>5 DEF TeamKept, AdminsLed, Quiet, Admins
<1>7. NoStrayMembers'
  BY <1>1 DEF TeamKept, NoStrayMembers
<1> QED
  BY <1>3, <1>4, <1>6, <1>7 DEF TeamKept

(* Every step that tears no team keeps what holds of one.                  *)
LEMMA TeamStepKeeps ==
  ASSUME TeamKept, [TeamNext]_teamVars, ~torn'
  PROVE  TeamKept'
<1> USE DEF TeamAt
<1>0. ASSUME NEW c \in TeamClerks
      PROVE  team_desk[c] \in TeamWork /\ Labelled(team_desk[c])
  BY DEF TeamKept, TeamTyped
<1>1. ASSUME NEW c \in TeamClerks, StartCreate(c) PROVE TeamKept'
  <2>1. PICK t \in Teams \ team, u \in Users :
          /\ creator[t] = Nobody
          /\ \A o \in TeamClerks : team_desk[o].team # t
          /\ TeamStart(c, [TeamFree EXCEPT !.op = "create", !.pc = "insert_team", !.team = t, !.user = u])
    BY <1>1 DEF StartCreate
  <2> DEFINE w == [TeamFree EXCEPT !.op = "create", !.pc = "insert_team", !.team = t, !.user = u]
  <2>2. /\ w \in TeamWork /\ Labelled(w) /\ w.op = "create" /\ w.pc = "insert_team" /\ w.team = t
    BY DEF TeamFree, TeamWork, TeamSteps, Roles, Labelled
  <2>3. TeamStart(c, w)
    BY <2>1
  <2> HIDE DEF w
  <2> QED
    BY <2>1, <2>2, <2>3, TeamStartKeeps
<1>2. ASSUME NEW c \in TeamClerks, InsertTeam(c) PROVE TeamKept'
  BY <1>2, InsertTeamKeeps
<1>3. ASSUME NEW c \in TeamClerks, InsertCreator(c) PROVE TeamKept'
  BY <1>3, InsertCreatorKeeps
<1>4. ASSUME NEW c \in TeamClerks, StartEnd(c) PROVE TeamKept'
  <2>1. PICK t \in team : TeamStart(c, [TeamFree EXCEPT !.op = "end", !.pc = "drop_members", !.team = t])
    BY <1>4 DEF StartEnd
  <2> DEFINE w == [TeamFree EXCEPT !.op = "end", !.pc = "drop_members", !.team = t]
  <2>2. t \in Teams
    BY DEF TeamKept, TeamTyped
  <2>3. /\ w \in TeamWork /\ Labelled(w) /\ w.op = "end" /\ w.pc = "drop_members" /\ w.team = t
    BY <2>2 DEF TeamFree, TeamWork, TeamSteps, Roles, Labelled
  <2>4. TeamStart(c, w)
    BY <2>1
  <2> HIDE DEF w
  <2> QED
    BY <2>3, <2>4, TeamStartKeeps
<1>5. ASSUME NEW c \in TeamClerks, DropMembers(c) PROVE TeamKept'
  BY <1>5, DropMembersKeeps
<1>6. ASSUME NEW c \in TeamClerks, DropTeam(c) PROVE TeamKept'
  BY <1>6, DropTeamKeeps
<1>7. ASSUME NEW c \in TeamClerks, StartMember(c) PROVE TeamKept'
  <2>1. PICK t \in team, u \in Users : \E w \in
            {[TeamFree EXCEPT !.team = t, !.user = u, !.op = "add", !.pc = "add", !.as = "member"],
             [TeamFree EXCEPT !.team = t, !.user = u, !.op = "add", !.pc = "add", !.as = "admin"],
             [TeamFree EXCEPT !.team = t, !.user = u, !.op = "remove", !.pc = "count_admins"],
             [TeamFree EXCEPT !.team = t, !.user = u, !.op = "toggle", !.pc = "read_member"]} :
          TeamStart(c, w)
    BY <1>7 DEF StartMember
  <2>2. PICK w \in
            {[TeamFree EXCEPT !.team = t, !.user = u, !.op = "add", !.pc = "add", !.as = "member"],
             [TeamFree EXCEPT !.team = t, !.user = u, !.op = "add", !.pc = "add", !.as = "admin"],
             [TeamFree EXCEPT !.team = t, !.user = u, !.op = "remove", !.pc = "count_admins"],
             [TeamFree EXCEPT !.team = t, !.user = u, !.op = "toggle", !.pc = "read_member"]} :
          TeamStart(c, w)
    BY <2>1
  <2>3. t \in Teams
    BY DEF TeamKept, TeamTyped
  <2>4. /\ w \in TeamWork /\ Labelled(w) /\ w.op # "create" /\ w.team = t
        /\ w.pc \in {"add", "count_admins", "read_member"}
    <3> USE DEF TeamFree, TeamWork, TeamSteps, Roles, Labelled
    <3>1. CASE w = [TeamFree EXCEPT !.team = t, !.user = u, !.op = "add", !.pc = "add", !.as = "member"]
      BY <2>3, <3>1
    <3>2. CASE w = [TeamFree EXCEPT !.team = t, !.user = u, !.op = "add", !.pc = "add", !.as = "admin"]
      BY <2>3, <3>2
    <3>3. CASE w = [TeamFree EXCEPT !.team = t, !.user = u, !.op = "remove", !.pc = "count_admins"]
      BY <2>3, <3>3
    <3>4. CASE w = [TeamFree EXCEPT !.team = t, !.user = u, !.op = "toggle", !.pc = "read_member"]
      BY <2>3, <3>4
    <3> QED
      BY <2>2, <3>1, <3>2, <3>3, <3>4
  <2> QED
    BY <2>2, <2>4, TeamStartKeeps
<1>8. ASSUME NEW c \in TeamClerks, AddMember(c) PROVE TeamKept'
  <2> DEFINE s == IF role[Roster(c)] = "none" THEN team_desk[c].as ELSE role[Roster(c)]
  <2>1. /\ team_desk[c].op = "add" /\ TeamFinish(c) /\ UNCHANGED <<team, creator, demote_met, torn>>
        /\ team_desk[c].as \in Roles \ {"none"} /\ Roster(c) \in Teams \X Users
    BY <1>0, <1>8 DEF AddMember, Labelled, TeamWork, Roster
  <2>2. role' = [role EXCEPT ![Roster(c)] = s] /\ s \in Roles
    BY <1>8, <2>1 DEF AddMember, TeamKept, TeamTyped
  <2>3. s = "admin" \/ (role[Roster(c)] # "admin" /\ s # "none")
    BY <2>1
  <2> HIDE DEF s
  <2> QED
    BY <2>1, <2>2, <2>3, RoleKeeps
<1>9. ASSUME NEW c \in TeamClerks, CountOtherAdmins(c) PROVE TeamKept'
  <2> DEFINE n == Cardinality(Admins(team_desk[c].team) \ {team_desk[c].user})
             w == [team_desk[c] EXCEPT !.pc = "read_target", !.others = n]
  <2>1. IsFiniteSet(Admins(team_desk[c].team) \ {team_desk[c].user})
    BY TeamAssumption, FS_Subset DEF Admins
  <2>2. n \in Nat /\ (n = 0 <=> Admins(team_desk[c].team) \ {team_desk[c].user} = {})
    BY <2>1, FS_CardinalityType, FS_EmptySet
  <2> HIDE DEF n
  <2>3. /\ team_desk[c].pc = "count_admins" /\ team_desk[c].op = "remove" /\ TeamBecome(c, w)
        /\ UNCHANGED <<team, creator, role, demote_met, torn>>
    BY <1>0, <1>9 DEF CountOtherAdmins, rosters, Labelled, n
  <2>4. w \in TeamWork /\ Labelled(w)
    BY <1>0, <2>2, <2>3 DEF TeamWork, TeamSteps, Labelled, TeamFree
  <2>5. /\ w.op = "remove" /\ w.pc = "read_target" /\ w.others = n
        /\ w.team = team_desk[c].team /\ w.user = team_desk[c].user
    BY <1>0, <2>3 DEF TeamWork
  <2> HIDE DEF w
  <2>6. team_desk[c].team \in Teams /\ team_desk[c].user \in Users
    BY <1>0, <2>3 DEF Labelled
  <2>7. Quiet => InUse(team_desk[c].team)
    <3> SUFFICES ASSUME Quiet PROVE InUse(team_desk[c].team)
      OBVIOUS
    <3>1. team_desk[c].team \in team
      BY <2>3 DEF TeamKept, Present, PresentFor, Quiet
    <3>2. \A o \in TeamClerks : ~TeamAt(o, "drop_team")
      BY <1>0, <2>3 DEF TeamKept, EndAlone, Quiet, Labelled
    <3>3. \A o \in TeamClerks : team_desk[o].op = "create" => team_desk[o].team # team_desk[c].team
      BY <2>3 DEF TeamKept, Created, CreatedBy
    <3> QED
      BY <3>1, <3>2, <3>3 DEF InUse
  <2>8. Quiet => Counted(w)
    BY <2>2, <2>5, <2>6, <2>7 DEF Counted, Left, TeamKept, AdminsLed, Admins
  <2> QED
    BY <2>3, <2>4, <2>5, <2>8, MoveOnKeeps DEF Demotions
<1>10. ASSUME NEW c \in TeamClerks, ReadTarget(c) PROVE TeamKept'
  <2>1. /\ team_desk[c].pc = "read_target" /\ team_desk[c].op = "remove"
        /\ UNCHANGED <<team, creator, role, demote_met, torn>>
    BY <1>0, <1>10 DEF ReadTarget, rosters, Labelled
  <2>2. CASE TeamBecome(c, TeamFree)
    BY <2>1, <2>2, FreeLabelled, MoveOnKeeps DEF Demotions, Counted, TeamFree
  <2>3. CASE ~(role[Roster(c)] = "admin" /\ team_desk[c].others = 0)
    <3> DEFINE w == [team_desk[c] EXCEPT !.pc = "remove"]
    <3>1. w \in TeamWork /\ Labelled(w) /\ TeamBecome(c, w)
      BY <1>0, <1>10, <2>1, <2>3 DEF ReadTarget, TeamGoto, TeamWork, TeamSteps, Labelled, TeamFree
    <3>2. /\ w.op = "remove" /\ w.pc = "remove"
          /\ w.team = team_desk[c].team /\ w.user = team_desk[c].user
      BY <1>0, <2>1 DEF TeamWork
    <3> HIDE DEF w
    <3>3. Quiet => Counted(team_desk[c])
      BY DEF TeamKept, CountHolds
    <3>4. Quiet => Counted(w)
      BY <2>1, <2>3, <3>2, <3>3 DEF Counted, Left, Roster
    <3> QED
      BY <2>1, <3>1, <3>2, <3>4, MoveOnKeeps DEF Demotions
  <2> QED
    BY <1>10, <2>2, <2>3 DEF ReadTarget, TeamFinish
<1>11. ASSUME NEW c \in TeamClerks, RemoveMember(c) PROVE TeamKept'
  <2>1. /\ team_desk[c].pc = "remove" /\ team_desk[c].op = "remove" /\ TeamFinish(c)
        /\ role' = [role EXCEPT ![Roster(c)] = "none"] /\ UNCHANGED <<team, creator, demote_met, torn>>
    BY <1>0, <1>11 DEF RemoveMember, Labelled
  <2>2. Quiet => Admins(team_desk[c].team) \ {team_desk[c].user} # {}
    BY <2>1 DEF TeamKept, CountHolds, Counted, Left
  <2> QED
    BY <2>1, <2>2, RoleKeeps DEF Demotions, Roles
<1>12. ASSUME NEW c \in TeamClerks, ReadMember(c) PROVE TeamKept'
  <2>1. /\ team_desk[c].pc = "read_member" /\ team_desk[c].op = "toggle"
        /\ UNCHANGED <<team, creator, role, demote_met, torn>>
    BY <1>0, <1>12 DEF ReadMember, rosters, Labelled
  <2>2. CASE TeamBecome(c, TeamFree)
    BY <2>1, <2>2, FreeLabelled, MoveOnKeeps DEF Demotions, Counted, TeamFree
  <2>3. CASE TeamBecome(c, [team_desk[c] EXCEPT !.pc = "toggle", !.as = "admin"])
    <3> DEFINE w == [team_desk[c] EXCEPT !.pc = "toggle", !.as = "admin"]
    <3>1. w \in TeamWork /\ Labelled(w) /\ TeamBecome(c, w)
      BY <1>0, <2>1, <2>3 DEF TeamWork, TeamSteps, Roles, Labelled, TeamFree
    <3>2. /\ w.op = "toggle" /\ w.pc = "toggle" /\ w.as = "admin"
          /\ w.team = team_desk[c].team /\ w.user = team_desk[c].user
      BY <1>0, <2>1 DEF TeamWork
    <3> HIDE DEF w
    <3> QED
      BY <2>1, <3>1, <3>2, MoveOnKeeps DEF Demotions, Counted
  <2>4. CASE TeamBecome(c, [team_desk[c] EXCEPT !.pc = "other_admins", !.as = "member"])
    <3> DEFINE w == [team_desk[c] EXCEPT !.pc = "other_admins", !.as = "member"]
    <3>1. w \in TeamWork /\ Labelled(w) /\ TeamBecome(c, w)
      BY <1>0, <2>1, <2>4 DEF TeamWork, TeamSteps, Roles, Labelled, TeamFree
    <3>2. /\ w.op = "toggle" /\ w.pc = "other_admins"
          /\ w.team = team_desk[c].team /\ w.user = team_desk[c].user
      BY <1>0, <2>1 DEF TeamWork
    <3> HIDE DEF w
    <3> QED
      BY <2>1, <3>1, <3>2, MoveOnKeeps DEF Demotions, Counted
  <2> QED
    BY <1>12, <2>2, <2>3, <2>4 DEF ReadMember, TeamFinish
<1>13. ASSUME NEW c \in TeamClerks, KeepAnotherAdmin(c) PROVE TeamKept'
  <2>1. /\ team_desk[c].pc = "other_admins" /\ team_desk[c].op = "toggle"
        /\ UNCHANGED <<team, creator, role, demote_met, torn>>
    BY <1>0, <1>13 DEF KeepAnotherAdmin, rosters, Labelled
  <2>2. CASE TeamBecome(c, TeamFree)
    BY <2>1, <2>2, FreeLabelled, MoveOnKeeps DEF Demotions, Counted, TeamFree
  <2>3. CASE Admins(team_desk[c].team) \ {team_desk[c].user} # {}
    <3> DEFINE w == [team_desk[c] EXCEPT !.pc = "toggle"]
    <3>1. w \in TeamWork /\ Labelled(w) /\ TeamBecome(c, w)
      BY <1>0, <1>13, <2>1, <2>3 DEF KeepAnotherAdmin, TeamGoto, TeamWork, TeamSteps, Labelled, TeamFree
    <3>2. /\ w.op = "toggle" /\ w.pc = "toggle"
          /\ w.team = team_desk[c].team /\ w.user = team_desk[c].user
      BY <1>0, <2>1 DEF TeamWork
    <3> HIDE DEF w
    <3>3. Counted(w)
      BY <2>3, <3>2 DEF Counted, Left
    <3> QED
      BY <2>1, <3>1, <3>2, <3>3, MoveOnKeeps DEF Demotions
  <2> QED
    BY <1>13, <2>2, <2>3 DEF KeepAnotherAdmin, TeamFinish
<1>14. ASSUME NEW c \in TeamClerks, SetRole(c) PROVE TeamKept'
  <2> DEFINE s == IF role[Roster(c)] = "none" THEN "none" ELSE team_desk[c].as
  <2>1. /\ team_desk[c].pc = "toggle" /\ team_desk[c].op = "toggle" /\ TeamFinish(c)
        /\ UNCHANGED <<team, creator, demote_met, torn>>
        /\ team_desk[c].as \in {"member", "admin"} /\ Roster(c) \in Teams \X Users
    BY <1>0, <1>14 DEF SetRole, Labelled, TeamWork, Roster, Roles
  <2>2. role' = [role EXCEPT ![Roster(c)] = s] /\ s \in Roles
    BY <1>14, <2>1 DEF SetRole, TeamKept, TeamTyped, Roles
  <2>3. Quiet /\ team_desk[c].as = "member" => Admins(team_desk[c].team) \ {team_desk[c].user} # {}
    BY <2>1 DEF TeamKept, CountHolds, Counted, Left
  <2>4. CASE role[Roster(c)] = "none"
    <3>1. role' = role
      BY <2>1, <2>2, <2>4 DEF TeamKept, TeamTyped
    <3> QED
      BY <2>1, <3>1, FreeLabelled, MoveOnKeeps DEF TeamFinish, Demotions, Counted, TeamFree
  <2>5. CASE role[Roster(c)] # "none"
    BY <2>1, <2>2, <2>3, <2>5, RoleKeeps DEF Demotions
  <2> QED
    BY <2>4, <2>5
<1>15. CASE UNCHANGED teamVars
  <2>1. UNCHANGED <<team, creator, role, team_desk, demote_met, torn>>
    BY <1>15 DEF teamVars
  <2> QED
    BY ONLY TeamKept, <2>1
    DEF TeamKept, TeamTyped, OneDemotion, EndAlone, Created, CreatedBy, Present, PresentFor, AdminsLed,
        Quiet, InUse, Admins, CountHolds, Counted, Left, NoStrayMembers, TeamAt, Labelled
<1>16. CASE TeamCrash
  BY <1>16, TeamCrashKeeps
<1> QED
  BY <1>1, <1>2, <1>3, <1>4, <1>5, <1>6, <1>7, <1>8, <1>9, <1>10, <1>11, <1>12, <1>13, <1>14, <1>15, <1>16
     DEF TeamNext

-----------------------------------------------------------------------------
(* Types, which a torn team has too.                                       *)

LEMMA TypedAfter ==
  ASSUME TeamTyped, NEW c \in TeamClerks, NEW w \in TeamWork, Labelled(w), TeamBecome(c, w),
         team' \subseteq Teams, creator' \in [Teams -> Users \cup {Nobody}],
         role' \in [Teams \X Users -> Roles], demote_met' \in BOOLEAN, torn' \in BOOLEAN
  PROVE  TeamTyped'
BY DeskAfter DEF TeamTyped

(* A handler starts, or goes on without writing a row.                     *)
LEMMA TypedStart ==
  ASSUME TeamTyped, NEW c \in TeamClerks, NEW w \in TeamWork, Labelled(w), TeamStart(c, w)
  PROVE  TeamTyped'
<1>1. TeamBecome(c, w) /\ UNCHANGED <<team, creator, role>> /\ demote_met' \in BOOLEAN /\ torn' \in BOOLEAN
  BY DEF TeamStart, rosters, TeamTyped
<1> QED
  BY <1>1, TypedAfter DEF TeamTyped

LEMMA TypedRead ==
  ASSUME TeamTyped, NEW c \in TeamClerks, NEW w \in TeamWork, Labelled(w), TeamBecome(c, w),
         UNCHANGED <<team, creator, role, demote_met, torn>>
  PROVE  TeamTyped'
BY TypedAfter DEF TeamTyped

(* A handler writes the role of the member it names.                       *)
LEMMA TypedRole ==
  ASSUME TeamTyped, NEW c \in TeamClerks, TeamFinish(c), NEW s \in Roles,
         role' = [role EXCEPT ![Roster(c)] = s],
         UNCHANGED <<team, creator, demote_met, torn>>
  PROVE  TeamTyped'
<1>1. role' \in [Teams \X Users -> Roles]
  BY DEF TeamTyped
<1> QED
  BY <1>1, FreeLabelled, TypedAfter DEF TeamTyped, TeamFinish

(* Every step keeps the types, whatever it tears.                          *)
LEMMA TypedStep ==
  ASSUME TeamTyped, [TeamNext]_teamVars
  PROVE  TeamTyped'
<1> USE DEF TeamAt
<1>0. ASSUME NEW c \in TeamClerks
      PROVE  team_desk[c] \in TeamWork /\ Labelled(team_desk[c])
  BY DEF TeamTyped
<1>1. ASSUME NEW c \in TeamClerks, NEW t \in Teams, NEW u \in Users, NEW as \in {"member", "admin"},
             NEW w \in {[TeamFree EXCEPT !.op = "create", !.pc = "insert_team", !.team = t, !.user = u],
                        [TeamFree EXCEPT !.op = "end", !.pc = "drop_members", !.team = t],
                        [TeamFree EXCEPT !.team = t, !.user = u, !.op = "add", !.pc = "add", !.as = as],
                        [TeamFree EXCEPT !.team = t, !.user = u, !.op = "remove", !.pc = "count_admins"],
                        [TeamFree EXCEPT !.team = t, !.user = u, !.op = "toggle", !.pc = "read_member"]},
             TeamStart(c, w)
      PROVE  TeamTyped'
  <2> USE DEF TeamFree, TeamWork, TeamSteps, Roles, Labelled
  <2>1. CASE w = [TeamFree EXCEPT !.op = "create", !.pc = "insert_team", !.team = t, !.user = u]
    <3>1. w \in TeamWork /\ Labelled(w)
      BY <2>1
    <3> QED
      BY <1>1, <3>1, TypedStart
  <2>2. CASE w = [TeamFree EXCEPT !.op = "end", !.pc = "drop_members", !.team = t]
    <3>1. w \in TeamWork /\ Labelled(w)
      BY <2>2
    <3> QED
      BY <1>1, <3>1, TypedStart
  <2>3. CASE w = [TeamFree EXCEPT !.team = t, !.user = u, !.op = "add", !.pc = "add", !.as = as]
    <3>1. w \in TeamWork /\ Labelled(w)
      BY <2>3
    <3> QED
      BY <1>1, <3>1, TypedStart
  <2>4. CASE w = [TeamFree EXCEPT !.team = t, !.user = u, !.op = "remove", !.pc = "count_admins"]
    <3>1. w \in TeamWork /\ Labelled(w)
      BY <2>4
    <3> QED
      BY <1>1, <3>1, TypedStart
  <2>5. CASE w = [TeamFree EXCEPT !.team = t, !.user = u, !.op = "toggle", !.pc = "read_member"]
    <3>1. w \in TeamWork /\ Labelled(w)
      BY <2>5
    <3> QED
      BY <1>1, <3>1, TypedStart
  <2> QED
    BY <2>1, <2>2, <2>3, <2>4, <2>5
<1>2. ASSUME NEW c \in TeamClerks, StartCreate(c) PROVE TeamTyped'
  BY <1>1, <1>2 DEF StartCreate
<1>3. ASSUME NEW c \in TeamClerks, StartEnd(c) PROVE TeamTyped'
  BY <1>1, <1>3 DEF StartEnd, TeamTyped
<1>4. ASSUME NEW c \in TeamClerks, StartMember(c) PROVE TeamTyped'
  BY <1>1, <1>4 DEF StartMember, TeamTyped
<1>5. ASSUME NEW c \in TeamClerks, InsertTeam(c) PROVE TeamTyped'
  <2> DEFINE w == [team_desk[c] EXCEPT !.pc = "insert_creator"]
  <2>1. w \in TeamWork /\ Labelled(w) /\ TeamBecome(c, w)
    BY <1>0, <1>5 DEF InsertTeam, TeamGoto, TeamWork, TeamSteps, Labelled, TeamFree
  <2>2. /\ team' \subseteq Teams /\ creator' \in [Teams -> Users \cup {Nobody}]
        /\ UNCHANGED <<role, demote_met, torn>>
    BY <1>0, <1>5 DEF InsertTeam, TeamTyped, Labelled
  <2> HIDE DEF w
  <2> QED
    BY <2>1, <2>2, TypedAfter DEF TeamTyped
<1>6. ASSUME NEW c \in TeamClerks, InsertCreator(c) PROVE TeamTyped'
  BY <1>6, TypedRole DEF InsertCreator, Roles
<1>7. ASSUME NEW c \in TeamClerks, DropMembers(c) PROVE TeamTyped'
  <2> DEFINE w == [team_desk[c] EXCEPT !.pc = "drop_team"]
  <2>1. w \in TeamWork /\ Labelled(w) /\ TeamBecome(c, w)
    BY <1>0, <1>7 DEF DropMembers, TeamGoto, TeamWork, TeamSteps, Labelled, TeamFree
  <2>2. role' \in [Teams \X Users -> Roles] /\ UNCHANGED <<team, creator, demote_met, torn>>
    BY <1>7 DEF DropMembers, TeamTyped, Roles
  <2> HIDE DEF w
  <2> QED
    BY <2>1, <2>2, TypedAfter DEF TeamTyped
<1>8. ASSUME NEW c \in TeamClerks, DropTeam(c) PROVE TeamTyped'
  BY <1>8, FreeLabelled, TypedAfter DEF DropTeam, TeamFinish, TeamTyped
<1>9. ASSUME NEW c \in TeamClerks, AddMember(c) PROVE TeamTyped'
  <2> DEFINE s == IF role[Roster(c)] = "none" THEN team_desk[c].as ELSE role[Roster(c)]
  <2>1. Roster(c) \in Teams \X Users /\ team_desk[c].as \in Roles
    BY <1>0, <1>9 DEF AddMember, Labelled, TeamWork, Roster
  <2>2. role' = [role EXCEPT ![Roster(c)] = s] /\ s \in Roles
    BY <1>9, <2>1 DEF AddMember, TeamTyped
  <2> HIDE DEF s
  <2> QED
    BY <1>9, <2>2, TypedRole DEF AddMember
<1>10. ASSUME NEW c \in TeamClerks, CountOtherAdmins(c) PROVE TeamTyped'
  <2> DEFINE n == Cardinality(Admins(team_desk[c].team) \ {team_desk[c].user})
             w == [team_desk[c] EXCEPT !.pc = "read_target", !.others = n]
  <2>1. IsFiniteSet(Admins(team_desk[c].team) \ {team_desk[c].user})
    BY TeamAssumption, FS_Subset DEF Admins
  <2>2. n \in Nat
    BY <2>1, FS_CardinalityType
  <2>3. TeamBecome(c, w) /\ team_desk[c].pc = "count_admins" /\ UNCHANGED <<team, creator, role, demote_met, torn>>
    BY <1>10 DEF CountOtherAdmins, rosters
  <2> HIDE DEF n
  <2>4. w \in TeamWork /\ Labelled(w)
    BY <1>0, <2>2, <2>3 DEF TeamWork, TeamSteps, Labelled, TeamFree
  <2> HIDE DEF w
  <2> QED
    BY <2>3, <2>4, TypedRead
<1>11. ASSUME NEW c \in TeamClerks, NEW w,
              (w \in TeamWork /\ Labelled(w) /\ TeamBecome(c, w)) \/ TeamFinish(c),
              UNCHANGED <<rosters, demote_met, torn>>
       PROVE  TeamTyped'
  BY <1>11, FreeLabelled, TypedRead DEF TeamFinish, rosters
<1>12. ASSUME NEW c \in TeamClerks, ReadTarget(c) PROVE TeamTyped'
  <2> DEFINE w == [team_desk[c] EXCEPT !.pc = "remove"]
  <2>1. w \in TeamWork /\ Labelled(w)
    BY <1>0, <1>12 DEF ReadTarget, TeamWork, TeamSteps, Labelled, TeamFree
  <2>2. (TeamBecome(c, w) \/ TeamFinish(c)) /\ UNCHANGED <<rosters, demote_met, torn>>
    BY <1>12 DEF ReadTarget, TeamGoto
  <2> HIDE DEF w
  <2> QED
    BY <1>11, <2>1, <2>2
<1>13. ASSUME NEW c \in TeamClerks, RemoveMember(c) PROVE TeamTyped'
  BY <1>13, TypedRole DEF RemoveMember, Roles
<1>14. ASSUME NEW c \in TeamClerks, ReadMember(c) PROVE TeamTyped'
  <2>0. /\ team_desk[c] \in TeamWork /\ Labelled(team_desk[c]) /\ team_desk[c].pc = "read_member"
        /\ team_desk[c].op = "toggle" /\ team_desk[c].team \in Teams /\ team_desk[c].user \in Users
    BY <1>0, <1>14 DEF ReadMember, Labelled
  <2>1. ASSUME NEW w \in {[team_desk[c] EXCEPT !.pc = "toggle", !.as = "admin"],
                         [team_desk[c] EXCEPT !.pc = "other_admins", !.as = "member"]}
        PROVE  w \in TeamWork /\ Labelled(w)
    <3>1. CASE w = [team_desk[c] EXCEPT !.pc = "toggle", !.as = "admin"]
      BY <2>0, <3>1 DEF TeamWork, TeamSteps, Roles, Labelled, TeamFree
    <3>2. CASE w = [team_desk[c] EXCEPT !.pc = "other_admins", !.as = "member"]
      BY <2>0, <3>2 DEF TeamWork, TeamSteps, Roles, Labelled, TeamFree
    <3> QED
      BY <3>1, <3>2
  <2>2. PICK w \in {[team_desk[c] EXCEPT !.pc = "toggle", !.as = "admin"],
                   [team_desk[c] EXCEPT !.pc = "other_admins", !.as = "member"]} :
          TeamBecome(c, w) \/ TeamFinish(c)
    BY <1>14 DEF ReadMember
  <2>3. UNCHANGED <<rosters, demote_met, torn>>
    BY <1>14 DEF ReadMember
  <2> QED
    BY <1>11, <2>1, <2>2, <2>3
<1>15. ASSUME NEW c \in TeamClerks, KeepAnotherAdmin(c) PROVE TeamTyped'
  <2> DEFINE w == [team_desk[c] EXCEPT !.pc = "toggle"]
  <2>1. w \in TeamWork /\ Labelled(w)
    BY <1>0, <1>15 DEF KeepAnotherAdmin, TeamWork, TeamSteps, Labelled, TeamFree
  <2>2. (TeamBecome(c, w) \/ TeamFinish(c)) /\ UNCHANGED <<rosters, demote_met, torn>>
    BY <1>15 DEF KeepAnotherAdmin, TeamGoto
  <2> HIDE DEF w
  <2> QED
    BY <1>11, <2>1, <2>2
<1>16. ASSUME NEW c \in TeamClerks, SetRole(c) PROVE TeamTyped'
  <2> DEFINE s == IF role[Roster(c)] = "none" THEN role[Roster(c)] ELSE team_desk[c].as
  <2>1. Roster(c) \in Teams \X Users /\ team_desk[c].as \in Roles
    BY <1>0, <1>16 DEF SetRole, Labelled, TeamWork, Roster
  <2>2. role' = [role EXCEPT ![Roster(c)] = s] /\ s \in Roles
    BY <1>16, <2>1 DEF SetRole, TeamTyped
  <2> HIDE DEF s
  <2> QED
    BY <1>16, <2>2, TypedRole DEF SetRole
<1>17. CASE TeamCrash
  <2>1. /\ team_desk' = [c \in TeamClerks |-> TeamFree]
        /\ UNCHANGED <<team, creator, role, demote_met>> /\ torn' \in BOOLEAN
    BY <1>17 DEF TeamCrash, rosters, TeamTyped
  <2> QED
    BY <2>1, FreeLabelled DEF TeamTyped
<1>18. CASE UNCHANGED teamVars
  BY <1>18 DEF teamVars, TeamTyped
<1> QED
  BY <1>2, <1>3, <1>4, <1>5, <1>6, <1>7, <1>8, <1>9, <1>10, <1>12, <1>13, <1>14, <1>15, <1>16, <1>17, <1>18
     DEF TeamNext

(* A team once torn counts as torn.                                        *)
LEMMA TornStays == ASSUME TeamTyped, [TeamNext]_teamVars, torn PROVE torn'
<1>1. ASSUME NEW c \in TeamClerks, NEW w, TeamStart(c, w) PROVE torn'
  BY <1>1 DEF TeamStart
<1>2. ASSUME NEW c \in TeamClerks, StartCreate(c) \/ StartEnd(c) \/ StartMember(c) PROVE torn'
  BY <1>1, <1>2 DEF StartCreate, StartEnd, StartMember
<1>3. CASE TeamCrash
  BY <1>3 DEF TeamCrash
<1>4. CASE UNCHANGED torn
  BY <1>4
<1>5. [TeamNext]_teamVars =>
        \/ \E c \in TeamClerks : StartCreate(c) \/ StartEnd(c) \/ StartMember(c)
        \/ TeamCrash \/ UNCHANGED torn
  BY DEF TeamNext, teamVars, InsertTeam, InsertCreator, DropMembers, DropTeam, AddMember, CountOtherAdmins,
         ReadTarget, RemoveMember, ReadMember, KeepAnotherAdmin, SetRole
<1> QED
  BY <1>2, <1>3, <1>4, <1>5

(* The invariant.                                                          *)
LEMMA TeamStep ==
  ASSUME TeamInv, [TeamNext]_teamVars
  PROVE  TeamInv'
<1>1. TeamTyped'
  BY TypedStep DEF TeamInv
<1>2. ASSUME ~torn' PROVE TeamKept'
  BY <1>2, TornStays, TeamStepKeeps DEF TeamInv
<1> QED
  BY <1>1, <1>2 DEF TeamInv

(* The invariant holds throughout.                                         *)
LEMMA TeamInvHolds == TeamSpec => []TeamInv
BY TeamInitInv, TeamStep, PTL DEF TeamSpec

(* Members are of teams that are there, unless a team's deletion met       *)
(* another request or was cut short (teams.js:161).                        *)
THEOREM MembersAreOfTeams == TeamSpec => []NoStrayMembers
<1>1. TeamInv => NoStrayMembers
  BY DEF TeamInv, TeamKept, NoStrayMembers
<1> QED
  BY <1>1, TeamInvHolds, PTL

(* A team with members keeps an admin, however many users and teams there  *)
(* are, unless two handlers that may demote have overlapped, or its        *)
(* creation or deletion was torn (teams.js:220).                           *)
THEOREM LastAdminIsKept == TeamSpec => []LastAdminStays
<1>1. TeamInv => LastAdminStays
  <2> SUFFICES ASSUME TeamInv, ~demote_met, ~torn, NEW t \in Teams, NEW u \in Users,
                      role[<<t, u>>] # "none"
               PROVE  Admins(t) # {}
    BY DEF LastAdminStays
  <2>1. t \in team
    BY DEF TeamInv, TeamKept, NoStrayMembers
  <2>2. InUse(t)
    BY <2>1 DEF InUse, TeamInv, TeamKept, Present, PresentFor
  <2> QED
    BY <2>2 DEF TeamInv, TeamKept, AdminsLed, Quiet
<1> QED
  BY <1>1, TeamInvHolds, PTL

-----------------------------------------------------------------------------
(* Time entries.                                                           *)

EntryStates == {"none", "running", "ended", "gone"}
Ends == {"none", "keep", "running", "ended"}
TimerOps == {"none", "log", "stop", "edit"}
TimerSteps == {"free", "look", "insert", "find", "stop", "read", "edit"}
TimerWork == [op : TimerOps, pc : TimerSteps, id : EntryIds \cup {0}, end : Ends]

(* What the record of a handler holds at the steps that use it.            *)
Filled(w) ==
  /\ w.pc \in {"stop", "read", "edit"} => w.id \in EntryIds
  /\ w.pc \in {"look", "insert", "edit"} => w.end \in {"running", "ended"}
  /\ w.pc = "read" => w.end # "none"

TimerTyped ==
  /\ entry \in [EntryIds -> EntryStates]
  /\ timer_desk \in [TimerClerks -> TimerWork]
  /\ timer_met \in BOOLEAN
  /\ reopened \in BOOLEAN
  /\ \A c \in TimerClerks : Filled(timer_desk[c])

(* Without overlap at most one handler is at work.                         *)
OneAtWork ==
  ~timer_met => \A c, o \in TimerClerks : ~TimerAt(c, "free") /\ ~TimerAt(o, "free") => c = o

(* What a handler about to write has read still holds: no timer ran, or    *)
(* the entry it writes back as running is the running one.                 *)
StillSo ==
  ~timer_met /\ ~reopened =>
    \A c \in TimerClerks :
      /\ TimerAt(c, "insert") /\ timer_desk[c].end = "running" => Running = {}
      /\ TimerAt(c, "edit") /\ timer_desk[c].end = "running" => timer_desk[c].id \in Running

TimerInv == TimerTyped /\ OneAtWork /\ StillSo /\ OneTimerRuns

-----------------------------------------------------------------------------
(* The initial state: no entry, no handler.                                *)
LEMMA TimerInitInv == TimerInit => TimerInv
<1> SUFFICES ASSUME TimerInit PROVE TimerInv
  OBVIOUS
<1>1. TimerTyped
  BY DEF TimerInit, TimerTyped, TimerFree, TimerWork, EntryStates, TimerOps, TimerSteps, Ends, Filled
<1>2. Running = {}
  BY DEF TimerInit, Running
<1>3. \A c \in TimerClerks : TimerAt(c, "free")
  BY DEF TimerInit, TimerAt, TimerFree
<1> QED
  BY <1>1, <1>2, <1>3 DEF TimerInv, OneAtWork, StillSo, OneTimerRuns, AtMostOne, TimerAt

(* A handler starts: it meets nobody, or the overlap is noted.             *)
LEMMA TimerStartKeeps ==
  ASSUME TimerInv, NEW c \in TimerClerks, NEW w \in TimerWork, Filled(w),
         w.pc \notin {"insert", "edit"}, TimerStart(c, w)
  PROVE  TimerInv'
<1>1. timer_desk' = [timer_desk EXCEPT ![c] = w] /\ timer_desk[c].pc = "free"
  BY DEF TimerStart, TimerBecome, TimerAt
<1>2. UNCHANGED <<entry, reopened>> /\ Running' = Running
  BY DEF TimerStart, Running
<1>3. \A o \in TimerClerks : timer_desk'[o] = IF o = c THEN w ELSE timer_desk[o]
  BY <1>1 DEF TimerInv, TimerTyped
<1>4. TimerTyped'
  BY <1>1, <1>2, <1>3 DEF TimerInv, TimerTyped, TimerStart
<1>5. timer_met' = (timer_met \/ \E o \in TimerClerks \ {c} : timer_desk[o].pc # "free")
  BY DEF TimerStart, TimerAt
<1>6. ~timer_met' => ~timer_met /\ \A o \in TimerClerks \ {c} : timer_desk'[o].pc = "free"
  BY <1>3, <1>5
<1>9. OneAtWork'
  BY <1>6 DEF OneAtWork, TimerAt
<1>7. StillSo'
  BY <1>2, <1>3, <1>5 DEF TimerInv, StillSo, TimerAt
<1>8. OneTimerRuns'
  BY <1>2, <1>5 DEF TimerInv, OneTimerRuns, AtMostOne
<1> QED
  BY <1>4, <1>9, <1>7, <1>8 DEF TimerInv

(* A handler reads and goes on, or is refused: no entry changes.           *)
LEMMA ReadKeeps ==
  ASSUME TimerInv, NEW c \in TimerClerks, NEW w \in TimerWork, Filled(w),
         timer_desk[c].pc # "free", TimerBecome(c, w),
         UNCHANGED <<entry, timer_met>>, reopened' \in BOOLEAN, reopened => reopened',
         w.pc = "insert" /\ w.end = "running" => Running = {},
         ~reopened' /\ w.pc = "edit" /\ w.end = "running" => w.id \in Running
  PROVE  TimerInv'
<1>1. \A o \in TimerClerks : timer_desk'[o] = IF o = c THEN w ELSE timer_desk[o]
  BY DEF TimerBecome, TimerInv, TimerTyped
<1>2. Running' = Running
  BY DEF Running
<1>3. TimerTyped'
  BY <1>1 DEF TimerBecome, TimerInv, TimerTyped
<1>4. OneAtWork'
  BY <1>1 DEF TimerInv, OneAtWork, TimerAt
<1>5. StillSo'
  BY <1>1, <1>2 DEF TimerInv, StillSo, TimerAt
<1>6. OneTimerRuns'
  BY <1>2 DEF TimerInv, OneTimerRuns, AtMostOne
<1> QED
  BY <1>3, <1>4, <1>5, <1>6 DEF TimerInv

(* A handler writes one entry and is done.  Nobody else is at work, and    *)
(* the entry runs only if no other does.                                   *)
LEMMA WriteKeeps ==
  ASSUME TimerInv, NEW c \in TimerClerks, NEW e \in EntryIds, NEW s \in EntryStates,
         timer_desk[c].pc # "free", TimerBecome(c, TimerFree),
         entry' = [entry EXCEPT ![e] = s], UNCHANGED <<timer_met, reopened>>,
         ~timer_met /\ ~reopened /\ s = "running" => Running \subseteq {e}
  PROVE  TimerInv'
<1>1. TimerFree \in TimerWork /\ Filled(TimerFree) /\ TimerFree.pc = "free"
  BY DEF TimerFree, TimerWork, TimerOps, TimerSteps, Ends, Filled
<1>2. \A o \in TimerClerks : timer_desk'[o] = IF o = c THEN TimerFree ELSE timer_desk[o]
  BY DEF TimerBecome, TimerInv, TimerTyped
<1>3. TimerTyped'
  BY <1>1, <1>2 DEF TimerBecome, TimerInv, TimerTyped
<1>4. ~timer_met => \A o \in TimerClerks : timer_desk'[o].pc = "free"
  BY <1>1, <1>2 DEF TimerInv, OneAtWork, TimerAt
<1>5. OneAtWork' /\ StillSo'
  BY <1>4 DEF OneAtWork, StillSo, TimerAt
<1>6. Running' \subseteq IF s = "running" THEN Running \cup {e} ELSE Running
  BY DEF Running, TimerInv, TimerTyped
<1>7. OneTimerRuns'
  BY <1>6 DEF TimerInv, OneTimerRuns, AtMostOne
<1> QED
  BY <1>3, <1>5, <1>7 DEF TimerInv

(* Deleting an entry takes from the running ones at most.                  *)
LEMMA DeleteKeeps ==
  ASSUME TimerInv, DeleteEntry
  PROVE  TimerInv'
<1>1. PICK e \in Kept : entry' = [entry EXCEPT ![e] = "gone"]
  BY DEF DeleteEntry
<1>2. e \in EntryIds
  BY DEF Kept
<1>3. UNCHANGED <<timer_desk, reopened>>
      /\ timer_met' = (timer_met \/ \E c \in TimerClerks : timer_desk[c].pc # "free")
  BY DEF DeleteEntry, TimerAt
<1>4. TimerTyped'
  BY <1>1, <1>2, <1>3 DEF TimerInv, TimerTyped, EntryStates
<1>5. Running' \subseteq Running
  BY <1>1, <1>2 DEF Running, TimerInv, TimerTyped
<1>6. OneAtWork' /\ StillSo'
  BY <1>3 DEF OneAtWork, StillSo, TimerAt
<1>7. OneTimerRuns'
  BY <1>3, <1>5 DEF TimerInv, OneTimerRuns, AtMostOne
<1> QED
  BY <1>4, <1>6, <1>7 DEF TimerInv

-----------------------------------------------------------------------------
(* Every step keeps the invariant.                                         *)
LEMMA TimerStep ==
  ASSUME TimerInv, [TimerNext]_timerVars
  PROVE  TimerInv'
<1> USE DEF TimerWork, EntryStates, Ends, TimerOps, TimerSteps, Filled
<1>1. TimerFree \in TimerWork /\ Filled(TimerFree) /\ TimerFree.pc = "free"
  BY DEF TimerFree
<1>2. ASSUME NEW c \in TimerClerks PROVE timer_desk[c] \in TimerWork /\ Filled(timer_desk[c])
  BY <1>2 DEF TimerInv, TimerTyped
<1>3. ASSUME NEW c \in TimerClerks, StartEntry(c) PROVE TimerInv'
  <2>1. PICK end \in {"running", "ended"} :
          TimerStart(c, [TimerFree EXCEPT !.op = "log", !.pc = "look", !.end = end])
    BY <1>3 DEF StartEntry
  <2> QED
    BY <2>1, TimerStartKeeps DEF TimerFree
<1>4. ASSUME NEW c \in TimerClerks, LookForRunning(c) PROVE TimerInv'
  <2>1. CASE timer_desk[c].end = "running" /\ Running # {}
    BY <1>1, <1>4, <2>1, ReadKeeps DEF LookForRunning, TimerAt, TimerInv, TimerTyped
  <2>2. CASE ~(timer_desk[c].end = "running" /\ Running # {})
    <3> DEFINE w == [timer_desk[c] EXCEPT !.pc = "insert"]
    <3>1. w \in TimerWork /\ Filled(w) /\ w.pc = "insert" /\ w.end = timer_desk[c].end
      BY <1>2, <1>4 DEF LookForRunning, TimerAt
    <3>2. TimerBecome(c, w) /\ UNCHANGED <<entry, timer_met, reopened>> /\ timer_desk[c].pc # "free"
      BY <1>4, <2>2 DEF LookForRunning, TimerAt
    <3> HIDE DEF w
    <3> QED
      BY <2>2, <3>1, <3>2, ReadKeeps DEF TimerInv, TimerTyped
  <2> QED
    BY <2>1, <2>2
<1>5. ASSUME NEW c \in TimerClerks, InsertEntry(c) PROVE TimerInv'
  <2>1. PICK e \in EntryIds : entry' = [entry EXCEPT ![e] = timer_desk[c].end]
    BY <1>5 DEF InsertEntry
  <2>2. timer_desk[c].pc = "insert" /\ TimerBecome(c, TimerFree) /\ UNCHANGED <<timer_met, reopened>>
    BY <1>5 DEF InsertEntry, TimerAt
  <2>3. timer_desk[c].end \in EntryStates
    BY <1>2, <2>2
  <2>4. ~timer_met /\ ~reopened /\ timer_desk[c].end = "running" => Running = {}
    BY <2>2 DEF TimerInv, StillSo, TimerAt
  <2> QED
    BY <2>1, <2>2, <2>3, <2>4, WriteKeeps
<1>6. ASSUME NEW c \in TimerClerks, StartStop(c) PROVE TimerInv'
  BY <1>6, TimerStartKeeps DEF StartStop, TimerFree
<1>7. ASSUME NEW c \in TimerClerks, FindRunning(c) PROVE TimerInv'
  <2>1. UNCHANGED <<entry, timer_met, reopened>> /\ timer_desk[c].pc # "free"
    BY <1>7 DEF FindRunning, TimerAt
  <2>2. CASE TimerBecome(c, TimerFree)
    BY <1>1, <2>1, <2>2, ReadKeeps DEF TimerInv, TimerTyped
  <2>3. CASE \E e \in Running : TimerBecome(c, [timer_desk[c] EXCEPT !.pc = "stop", !.id = e])
    <3>1. PICK e \in Running : TimerBecome(c, [timer_desk[c] EXCEPT !.pc = "stop", !.id = e])
      BY <2>3
    <3> DEFINE w == [timer_desk[c] EXCEPT !.pc = "stop", !.id = e]
    <3>2. w \in TimerWork /\ Filled(w) /\ w.pc = "stop"
      BY <1>2 DEF Running
    <3>3. TimerBecome(c, w)
      BY <3>1
    <3> HIDE DEF w
    <3> QED
      BY <2>1, <3>2, <3>3, ReadKeeps DEF TimerInv, TimerTyped
  <2> QED
    BY <1>7, <2>2, <2>3 DEF FindRunning
<1>8. ASSUME NEW c \in TimerClerks, Stop(c) PROVE TimerInv'
  <2> DEFINE e == timer_desk[c].id
             s == IF entry[e] = "gone" THEN "gone" ELSE "ended"
  <2>1. e \in EntryIds
    BY <1>2, <1>8 DEF Stop, TimerAt
  <2>2. entry' = [entry EXCEPT ![e] = s] /\ s \in EntryStates /\ s # "running"
    BY <1>8 DEF Stop
  <2>3. timer_desk[c].pc # "free" /\ TimerBecome(c, TimerFree) /\ UNCHANGED <<timer_met, reopened>>
    BY <1>8 DEF Stop, TimerAt
  <2> HIDE DEF e, s
  <2> QED
    BY <2>1, <2>2, <2>3, WriteKeeps
<1>9. ASSUME NEW c \in TimerClerks, StartEdit(c) PROVE TimerInv'
  <2>1. PICK e \in Kept, end \in {"keep", "ended", "running"} :
          TimerStart(c, [TimerFree EXCEPT !.op = "edit", !.pc = "read", !.id = e, !.end = end])
    BY <1>9 DEF StartEdit
  <2> DEFINE w == [TimerFree EXCEPT !.op = "edit", !.pc = "read", !.id = e, !.end = end]
  <2>2. w \in TimerWork /\ Filled(w) /\ w.pc = "read"
    BY DEF TimerFree, Kept
  <2>3. TimerStart(c, w)
    BY <2>1
  <2> HIDE DEF w
  <2> QED
    BY <2>2, <2>3, TimerStartKeeps
<1>10. ASSUME NEW c \in TimerClerks, ReadEntry(c) PROVE TimerInv'
  <2>1. UNCHANGED <<entry, timer_met>> /\ timer_desk[c].pc = "read"
        /\ reopened' = (reopened \/ (timer_desk[c].end = "running" /\ timer_desk[c].id \notin Running))
    BY <1>10 DEF ReadEntry, TimerAt
  <2>2. CASE timer_desk[c].id \notin Kept
    BY <1>1, <1>10, <2>1, <2>2, ReadKeeps DEF ReadEntry
  <2>3. CASE timer_desk[c].id \in Kept
    <3> DEFINE end == IF timer_desk[c].end = "keep" THEN entry[timer_desk[c].id] ELSE timer_desk[c].end
               w == [timer_desk[c] EXCEPT !.pc = "edit", !.end = end]
    <3>1. end \in {"running", "ended"}
      BY <1>2, <2>1, <2>3 DEF Kept
    <3>2. TimerBecome(c, w)
      BY <1>10, <2>3 DEF ReadEntry
    <3>3. ~reopened' /\ end = "running" => timer_desk[c].id \in Running
      BY <2>1, <2>3 DEF Running, Kept
    <3> HIDE DEF end
    <3>4. w \in TimerWork /\ Filled(w) /\ w.pc = "edit" /\ w.end = end /\ w.id = timer_desk[c].id
      BY <1>2, <2>1, <3>1
    <3> HIDE DEF w
    <3> QED
      BY <2>1, <3>2, <3>3, <3>4, ReadKeeps
  <2> QED
    BY <2>2, <2>3
<1>11. ASSUME NEW c \in TimerClerks, WriteEntry(c) PROVE TimerInv'
  <2> DEFINE e == timer_desk[c].id
             s == IF entry[e] = "gone" THEN "gone" ELSE timer_desk[c].end
  <2>1. timer_desk[c].pc = "edit" /\ TimerBecome(c, TimerFree) /\ UNCHANGED <<timer_met, reopened>>
    BY <1>11 DEF WriteEntry, TimerAt
  <2>2. e \in EntryIds /\ entry' = [entry EXCEPT ![e] = s] /\ s \in EntryStates
    BY <1>2, <1>11, <2>1 DEF WriteEntry
  <2>3. ~timer_met /\ ~reopened /\ s = "running" => e \in Running /\ AtMostOne
    BY <2>1 DEF TimerInv, StillSo, OneTimerRuns, TimerAt
  <2>4. ~timer_met /\ ~reopened /\ s = "running" => Running \subseteq {e}
    BY <2>3 DEF AtMostOne
  <2> HIDE DEF e, s
  <2> QED
    BY <2>1, <2>2, <2>4, WriteKeeps
<1>12. CASE UNCHANGED timerVars
  BY <1>12 DEF timerVars, TimerInv, TimerTyped, OneAtWork, StillSo, OneTimerRuns, AtMostOne, Running, TimerAt
<1> QED
  BY <1>3, <1>4, <1>5, <1>6, <1>7, <1>8, <1>9, <1>10, <1>11, <1>12, DeleteKeeps DEF TimerNext

(* The invariant holds throughout.                                         *)
LEMMA TimerInvHolds == TimerSpec => []TimerInv
<1> QED
  BY TimerInitInv, TimerStep, PTL DEF TimerSpec

(* At most one timer runs while handlers do not overlap and no edit opens  *)
(* an entry again, however many entries there are (extras2.js:390).        *)
THEOREM OneTimerAtATime == TimerSpec => []OneTimerRuns
<1>1. TimerInv => OneTimerRuns
  BY DEF TimerInv
<1> QED
  BY <1>1, TimerInvHolds, PTL

(* A step that sets a stopped entry running again was asked to, or         *)
(* overlapped another: an edit that does not name the end writes back the  *)
(* one it read (extras2.js:447).                                           *)
LEMMA StoppedStep ==
  ASSUME TimerInv, [TimerNext]_timerVars, NEW e \in EntryIds,
         entry[e] = "ended", entry'[e] = "running"
  PROVE  timer_met \/ reopened
<1>1. ASSUME NEW c \in TimerClerks, InsertEntry(c) PROVE FALSE
  BY <1>1 DEF InsertEntry, TimerInv, TimerTyped
<1>2. ASSUME NEW c \in TimerClerks, Stop(c) PROVE FALSE
  BY <1>2 DEF Stop, TimerInv, TimerTyped
<1>3. ASSUME NEW c \in TimerClerks, WriteEntry(c) PROVE timer_met \/ reopened
  <2>1. timer_desk[c].pc = "edit" /\ timer_desk[c].id = e /\ timer_desk[c].end = "running"
    BY <1>3 DEF WriteEntry, TimerAt, TimerInv, TimerTyped
  <2> QED
    BY <2>1 DEF TimerInv, StillSo, TimerAt, Running
<1>4. DeleteEntry => FALSE
  BY DEF DeleteEntry, TimerInv, TimerTyped
<1>5. entry' = entry => FALSE
  OBVIOUS
<1> QED
  BY <1>1, <1>2, <1>3, <1>4, <1>5 DEF TimerNext, timerVars, StartEntry, LookForRunning, StartStop,
     FindRunning, StartEdit, ReadEntry, TimerStart

(* The same of every behaviour.                                            *)
THEOREM StoppedEntriesStay == TimerSpec => StoppedStaysStopped
<1>1. TimerInv /\ [TimerNext]_timerVars =>
        [\A e \in EntryIds : entry[e] = "ended" /\ entry'[e] = "running" => timer_met \/ reopened]_timerVars
  BY StoppedStep
<1> QED
  BY <1>1, TimerInvHolds, PTL DEF TimerSpec, StoppedStaysStopped

-----------------------------------------------------------------------------
(* The parts together.                                                     *)

(* Each part, seen alone, behaves as its own specification says: the       *)
(* others change nothing of it.  (The job is fair only where it is at      *)
(* work, so of the reminders it is the steps that are shown.)              *)
THEOREM PartsStayApart ==
  Spec => TeamSpec /\ TimerSpec /\ ViewSpec /\ ReminderInit /\ [][ReminderNext]_reminderVars
<1> DEFINE all == <<part, teamVars, timerVars, viewVars, reminderVars>>
<1>1. Init => TeamInit /\ TimerInit /\ ViewInit /\ ReminderInit
  BY DEF Init
<1>2. [Next]_all => /\ [TeamNext]_teamVars /\ [TimerNext]_timerVars /\ [ViewNext]_viewVars
                    /\ [ReminderNext]_reminderVars
  BY DEF Next
<1> QED
  BY <1>1, <1>2, PTL DEF Spec, TeamSpec, TimerSpec, ViewSpec

(* What is proved of the parts holds of them together.                     *)
THEOREM ServicesKeepTheirPromises ==
  Spec => /\ [](LastAdminStays /\ NoStrayMembers)
          /\ []OneTimerRuns /\ StoppedStaysStopped
          /\ [](AViewRemains /\ EveryTaskHasItsPlace /\ NoPlaceOutlivesItsView)
          /\ []ReminderFollowsDueDate
<1> QED
  BY PartsStayApart, LastAdminIsKept, MembersAreOfTeams, OneTimerAtATime, StoppedEntriesStay,
     AViewIsKept, TasksGetTheirPlaces, PlacesGoWithTheirView, FollowSteps, PTL
=============================================================================
