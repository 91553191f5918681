---------------------------- MODULE AccessProps ----------------------------
(* What must hold of owners, shares and permissions.                       *)
EXTENDS Access

(* While nothing overlaps, a project that is there belongs to an account   *)
(* that is there, through transfers, cascades and a server that dies in    *)
(* the middle of them (account.js:278).                                    *)
ProjectsAreOwned == ~met => \A p \in Projects : owner[p] \in account \cup {Nobody}

(* While nothing overlaps, no share or membership outlives its project or  *)
(* its account: ids in these tables are not foreign keys.                  *)
NoStrayRights ==
  ~met => /\ \A s \in share : owner[s[1]] # Nobody /\ s[2] \in account
          /\ \A s \in team_share : owner[s[1]] # Nobody
          /\ \A m \in Team : role[m] # "none" => m[2] \in account

(* Someone in flight who administers the project or the instance, or a     *)
(* team that reaches the project.                                          *)
Entitled(p) ==
  \/ \E s \in Slots : Allowed(hand[s].by, p, ADMIN) \/ hand[s].by \in administrator
  \/ /\ role' # role
     /\ \E t \in Teams, a \in account, l \in {READ, WRITE, ADMIN} :
          role[<<t, a>>] = "admin" /\ <<p, t, l>> \in team_share

(* While nothing overlaps, nobody's permission on a project rises but by a *)
(* request of someone who administers it, of an administrator, or of a     *)
(* team's administrator ("Only admins may change who has access",          *)
(* sharing.js:32).                                                         *)
RightsComeFromAdmins ==
  [][~met' => \A p \in Projects, u \in Users :
       (\E l \in {READ, WRITE, ADMIN} : Allowed(u, p, l)' /\ ~Allowed(u, p, l)) => Entitled(p)
    ]_accessVars

(* A step of an account's deletion that takes a project of it away.        *)
TakesAway(s, p) == At(s, "cascade") /\ owner[p] = hand[s].user /\ owner'[p] # owner[p]

(* While nothing overlaps, the deletion of an account takes no project     *)
(* with it in which another user has an administrator's share of their     *)
(* own, as the query for heirs has it (account.js:264); other shares do    *)
(* not hold it back.                                                       *)
AdministeredWorkIsPassedOn ==
  [][\A s \in Slots, p \in Projects : TakesAway(s, p) /\ ~met =>
       ~\E u \in Users \ {hand[s].user} : <<p, u, ADMIN>> \in share]_accessVars

(* An account scheduled for deletion is deleted or called off, whatever    *)
(* restarts cut the job off (cron.js:148).                                 *)
ScheduledIsSettled == \A u \in Users : u \in scheduled ~> u \notin scheduled

-----------------------------------------------------------------------------
(* Stated by comments of the code and not kept by it.                      *)

(* "Projects shared with other people are transferred rather than deleted  *)
(* - one person leaving must not take the team's work with them"           *)
(* (account.js:255): shared in any way, with a user or with a team of      *)
(* theirs.                                                                 *)
SharedWorkIsPassedOn ==
  [][\A s \in Slots, p \in Projects : TakesAway(s, p) /\ ~met =>
       \A u \in account \ {hand[s].user} : Grants(u, p) = {}]_accessVars

(* Sharing with a user again sets the one permission they have             *)
(* ("ON DUPLICATE KEY UPDATE permission", sharing.js:60).                  *)
SharingSetsPermission ==
  [][\A r \in Requests :
       At(r, "put_row") /\ At(r, "idle")' /\ crashes' = crashes =>
         \A s \in share' : s[1] = hand[r].project /\ s[2] = hand[r].user =>
                            s[3] = hand[r].level]_accessVars

(* Some administrator remains ("Removing the last admin would leave nobody *)
(* able to restore one.", admin.js:184).                                   *)
AdministratorRemains == administrator # {}
=============================================================================
