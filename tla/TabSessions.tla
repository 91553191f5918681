---------------------------- MODULE TabSessions ----------------------------
(***************************************************************************)
(* The signed-in session of one browser: its tabs, the token each keeps in *)
(* memory and the one they share in local storage (helpers/auth.ts), the   *)
(* refreshes that renew it, which the tabs queue for under a Web Lock      *)
(* where the page has one, and signing in and out (stores/auth.ts), which  *)
(* ask the server who the token is for before the tab counts as signed in. *)
(* Tokens are numbered as the server issues them and do not expire here.   *)
(***************************************************************************)
EXTENDS Naturals, FiniteSets, Sequences, SequencesExt

CONSTANTS
  Tabs,       (* browser tabs of one profile                               *)
  Slots,      (* numbers for the refreshes of one tab that are under way   *)
  MaxToken,   (* bound on tokens the server issues                         *)
  MaxFaults   (* bound on requests that fail                               *)

ASSUME SessionAssumption == Slots \subseteq Nat \ {0}

VARIABLES
  secure,     (* whether the page has navigator.locks                      *)
  stored,     (* the token in local storage, 0 for none                    *)
  saved,      (* savedToken of each tab                                    *)
  authed,     (* authenticated of each tab                                 *)
  inflight,   (* inFlightRefresh of each tab: the slot, or 0               *)
  refresh,    (* the refreshes under way                                   *)
  holding,    (* the refresh that has the lock, if one has                 *)
  line,       (* those waiting for the lock                                *)
  joining,    (* tabs waiting for the answer to a sign-in                  *)
  asking,     (* tabs with GET user under way                              *)
  leaving,    (* tabs that have no token any more and still count as       *)
              (* signed in, their sign-out waiting for the router          *)
  issued,     (* the last token issued                                     *)
  faults,     (* requests that have failed                                 *)
  out,        (* history: the tab signed out and has not signed in since   *)
  crossed,    (* history: a sign-in has overlapped a refresh               *)
  overtaken   (* history: a sign-out has overlapped GET user, or a renewal *)
              (* has begun within a sign-out                               *)

signing == <<asking, leaving>>
vars == <<secure, stored, saved, authed, inflight, refresh, holding, line, joining,
          signing, issued, faults, out, crossed, overtaken>>

Refreshes == Tabs \X Slots
TabOf(o) == o[1]
Idle == [pc |-> "free", old |-> FALSE, before |-> 0, try |-> 1, token |-> 0]

Init ==
  /\ secure \in BOOLEAN
  /\ stored = 0
  /\ saved = [t \in Tabs |-> 0]
  /\ authed = [t \in Tabs |-> FALSE]
  /\ inflight = [t \in Tabs |-> 0]
  /\ refresh = [o \in Refreshes |-> Idle]
  /\ holding = {}
  /\ line = <<>>
  /\ joining = {}
  /\ asking = {}
  /\ leaving = {}
  /\ issued = 0
  /\ faults = 0
  /\ out = [t \in Tabs |-> TRUE]
  /\ crossed = FALSE
  /\ overtaken = FALSE

Busy == {o \in Refreshes : refresh[o].pc # "free"}
BusyOf(t) == {o \in Busy : TabOf(o) = t}
(* Bound: each request under way, and each retry, may have one token more. *)
Room == issued + Cardinality(Busy) + Cardinality(joining) + (MaxFaults - faults) < MaxToken

-----------------------------------------------------------------------------
(* A new refresh o of try n: it notes the stored token and queues for the  *)
(* lock, or posts at once where there is none.                             *)
BeginAs(o, n) ==
  /\ refresh' = [refresh EXCEPT ![o] =
       [pc |-> IF secure THEN "queued" ELSE "post", old |-> FALSE,
        before |-> stored, try |-> n, token |-> 0]]
  /\ line' = IF secure THEN Append(line, o) ELSE line
  /\ inflight' = [inflight EXCEPT ![TabOf(o)] = o[2]]
  /\ crossed' = (crossed \/ joining # {})

(* The first free slot of a tab.                                           *)
FirstFree(t, s) == /\ refresh[<<t, s>>].pc = "free"
                   /\ \A u \in Slots : u < s => refresh[<<t, u>>].pc # "free"

(* refreshTokenWithRetry of renewToken: the refresh in flight, or a new    *)
(* one.  Who joins one on its second try brings a try of its own.          *)
Renew(t) ==
  /\ authed[t] /\ Room
  /\ \/ /\ inflight[t] = 0
        /\ \E s \in Slots : FirstFree(t, s) /\ BeginAs(<<t, s>>, 1)
     \/ /\ inflight[t] # 0
        /\ refresh' = [refresh EXCEPT ![<<t, inflight[t]>>].try = 1]
        /\ UNCHANGED <<line, inflight, crossed>>
  /\ overtaken' = (overtaken \/ t \in leaving)
  /\ UNCHANGED <<secure, stored, saved, authed, holding, joining, signing, issued, faults, out>>

Granted(o) == holding = {} /\ line # <<>> /\ Head(line) = o

(* Mutant: a finished refresh clears inFlightRefresh whatever it names.    *)
SettleAny(o) ==
  /\ refresh' = [refresh EXCEPT ![o] = Idle]
  /\ holding' = holding \ {o}
  /\ inflight' = [inflight EXCEPT ![TabOf(o)] = 0]

(* Mutant: the lock is never given back.                                   *)
SettleHolding(o) ==
  /\ refresh' = [refresh EXCEPT ![o] = Idle]
  /\ UNCHANGED holding
  /\ inflight' = [inflight EXCEPT ![TabOf(o)] = IF @ = o[2] THEN 0 ELSE @]

(* Refresh o is over: it gives the lock back, and inFlightRefresh is       *)
(* cleared where it still is this one.                                     *)
Settle(o) ==
  /\ refresh' = [refresh EXCEPT ![o] = Idle]
  /\ holding' = holding \ {o}
  /\ inflight' = [inflight EXCEPT ![TabOf(o)] = IF @ = o[2] THEN 0 ELSE @]

Adopts(o) == stored # 0 /\ stored # refresh[o].before

(* Mutant: the lock is asked for and not waited for.                       *)
EnterAtOnce(o) ==
  /\ refresh[o].pc = "queued"
  /\ IF refresh[o].old \/ Adopts(o) THEN Settle(o)
     ELSE /\ refresh' = [refresh EXCEPT ![o].pc = "post"]
          /\ holding' = holding \cup {o}
          /\ UNCHANGED inflight
  /\ line' = Remove(line, o)
  /\ saved' = IF Adopts(o) /\ ~refresh[o].old
              THEN [saved EXCEPT ![TabOf(o)] = stored] ELSE saved
  /\ UNCHANGED <<secure, stored, authed, joining, signing, issued, faults, out, crossed, overtaken>>

(* The lock is granted: nothing to do after a sign-out, another tab's new  *)
(* token is adopted, and otherwise the request goes out.                   *)
Enter(o) ==
  /\ refresh[o].pc = "queued" /\ Granted(o)
  /\ IF refresh[o].old \/ Adopts(o) THEN Settle(o)
     ELSE /\ refresh' = [refresh EXCEPT ![o].pc = "post"]
          /\ holding' = {o}
          /\ UNCHANGED inflight
  /\ line' = Tail(line)
  /\ saved' = IF Adopts(o) /\ ~refresh[o].old
              THEN [saved EXCEPT ![TabOf(o)] = stored] ELSE saved
  /\ UNCHANGED <<secure, stored, authed, joining, signing, issued, faults, out, crossed, overtaken>>

(* POST /user/token/refresh: a new token for whoever has the cookie.       *)
Serve(o) ==
  /\ refresh[o].pc = "post"
  /\ issued' = issued + 1
  /\ refresh' = [refresh EXCEPT ![o].pc = "answer", ![o].token = issued + 1]
  /\ UNCHANGED <<secure, stored, saved, authed, inflight, holding, line, joining, signing,
                 faults, out, crossed, overtaken>>

(* Mutant: whether the user signed out meanwhile is not asked.             *)
DeliverAnyway(o) ==
  /\ refresh[o].pc = "answer"
  /\ stored' = refresh[o].token
  /\ saved' = [saved EXCEPT ![TabOf(o)] = refresh[o].token]
  /\ Settle(o)
  /\ UNCHANGED <<secure, authed, line, joining, signing, issued, faults, out, crossed, overtaken>>

(* The answer arrives; after a sign-out of this tab it is dropped.         *)
Deliver(o) ==
  /\ refresh[o].pc = "answer"
  /\ IF refresh[o].old THEN UNCHANGED <<stored, saved>>
     ELSE /\ stored' = refresh[o].token
          /\ saved' = [saved EXCEPT ![TabOf(o)] = refresh[o].token]
  /\ Settle(o)
  /\ UNCHANGED <<secure, authed, line, joining, signing, issued, faults, out, crossed, overtaken>>

(* The request fails, before the server saw it or after.  A first try asks *)
(* once more: of the refresh now in flight, or of a new one.               *)
Fail(o) ==
  /\ refresh[o].pc \in {"post", "answer"} /\ faults < MaxFaults
  /\ faults' = faults + 1
  /\ IF refresh[o].try = 1 /\ inflight[TabOf(o)] \in {0, o[2]}
     THEN BeginAs(o, 2) /\ holding' = holding \ {o}
     ELSE Settle(o) /\ UNCHANGED <<line, crossed>>
  /\ UNCHANGED <<secure, stored, saved, authed, joining, signing, issued, out, overtaken>>

-----------------------------------------------------------------------------
(* removeToken: no token left, and every refresh of this tab is outdated.  *)
RemoveToken(t) ==
  /\ stored' = 0
  /\ saved' = [saved EXCEPT ![t] = 0]
  /\ inflight' = [inflight EXCEPT ![t] = 0]
  /\ refresh' = [o \in Refreshes |-> IF o \in BusyOf(t)
                                     THEN [refresh[o] EXCEPT !.old = TRUE] ELSE refresh[o]]

(* checkAuth up to its request: the tab's token, or else the stored one.   *)
(* With a token the server is asked for its user (a tab that asks twice at *)
(* once may as well ask again when it has the first answer); without one   *)
(* the tab is signed out, and so a sign-out of it is complete.             *)
CheckAuth(t) ==
  LET token == IF saved[t] # 0 THEN saved[t] ELSE stored IN
  /\ saved' = [saved EXCEPT ![t] = token]
  /\ leaving' = leaving \ {t}
  /\ \/ /\ token # 0
        /\ asking' = asking \cup {t}
        /\ out' = [out EXCEPT ![t] = FALSE]
        /\ UNCHANGED authed
     \/ /\ token = 0
        /\ authed' = [authed EXCEPT ![t] = FALSE]
        /\ UNCHANGED <<asking, out>>
  /\ UNCHANGED <<secure, stored, inflight, refresh, holding, line, joining, issued, faults, crossed, overtaken>>

(* The user has come: the tab is signed in, as checkAuth decided before it *)
(* asked, whatever has become of the token since.                          *)
UserAnswered(t) ==
  /\ t \in asking
  /\ asking' = asking \ {t}
  /\ authed' = [authed EXCEPT ![t] = TRUE]
  /\ UNCHANGED <<secure, stored, saved, inflight, refresh, holding, line, joining, leaving,
                 issued, faults, out, crossed, overtaken>>

(* No user: an answer in the 400s signs the tab out, any other error is    *)
(* thrown.                                                                 *)
UserFailed(t) ==
  /\ t \in asking /\ faults < MaxFaults
  /\ asking' = asking \ {t}
  /\ faults' = faults + 1
  /\ \/ /\ RemoveToken(t)
        /\ leaving' = leaving \cup {t}
        /\ out' = [out EXCEPT ![t] = TRUE]
     \/ UNCHANGED <<stored, saved, inflight, refresh, leaving, out>>
  /\ UNCHANGED <<secure, authed, holding, line, joining, issued, crossed, overtaken>>

(* logout, from the answer to its request (the server has no such route)   *)
(* to the router: the tokens go.  The tab counts as signed in until the    *)
(* check that follows the router.                                          *)
Logout(t) ==
  /\ authed[t]
  /\ RemoveToken(t)
  /\ leaving' = leaving \cup {t}
  /\ out' = [out EXCEPT ![t] = TRUE]
  /\ overtaken' = (overtaken \/ t \in asking)
  /\ UNCHANGED <<secure, authed, holding, line, joining, asking, issued, faults, crossed>>

(* login, up to its request.                                               *)
Login(t) ==
  /\ ~authed[t] /\ t \notin joining /\ Room
  /\ RemoveToken(t)
  /\ joining' = joining \cup {t}
  /\ crossed' = (crossed \/ joining # {} \/ Busy # BusyOf(t))
  /\ UNCHANGED <<secure, authed, holding, line, signing, issued, faults, out, overtaken>>

(* The token is saved, and checkAuth asks for its user.                    *)
LoginAnswered(t) ==
  /\ t \in joining
  /\ joining' = joining \ {t}
  /\ issued' = issued + 1
  /\ stored' = issued + 1
  /\ saved' = [saved EXCEPT ![t] = issued + 1]
  /\ asking' = asking \cup {t}
  /\ leaving' = leaving \ {t}
  /\ out' = [out EXCEPT ![t] = FALSE]
  /\ UNCHANGED <<secure, authed, inflight, refresh, holding, line, faults, crossed, overtaken>>

LoginRefused(t) ==
  /\ t \in joining
  /\ joining' = joining \ {t}
  /\ UNCHANGED <<secure, stored, saved, authed, inflight, refresh, holding, line, signing, issued,
                 faults, out, crossed, overtaken>>

(* The page is loaded anew: what the tab had in memory is gone, with the   *)
(* lock, its place in the line and the answers it waited for.              *)
Reload(t) ==
  /\ saved' = [saved EXCEPT ![t] = 0]
  /\ authed' = [authed EXCEPT ![t] = FALSE]
  /\ inflight' = [inflight EXCEPT ![t] = 0]
  /\ refresh' = [o \in Refreshes |-> IF TabOf(o) = t THEN Idle ELSE refresh[o]]
  /\ holding' = {o \in holding : TabOf(o) # t}
  /\ line' = SelectSeq(line, LAMBDA o : TabOf(o) # t)
  /\ joining' = joining \ {t}
  /\ asking' = asking \ {t}
  /\ leaving' = leaving \ {t}
  /\ UNCHANGED <<secure, stored, issued, faults, out, crossed, overtaken>>

-----------------------------------------------------------------------------
Next ==
  \/ \E t \in Tabs : \/ Renew(t) \/ Logout(t) \/ Reload(t)
                     \/ CheckAuth(t) \/ UserAnswered(t) \/ UserFailed(t)
                     \/ Login(t) \/ LoginAnswered(t) \/ LoginRefused(t)
  \/ \E o \in Refreshes : Enter(o) \/ Serve(o) \/ Deliver(o) \/ Fail(o)

(* The browser grants the lock in turn, and a request is answered or fails. *)
Proceed(o) == Enter(o) \/ Serve(o) \/ Deliver(o)
Fairness == \A o \in Refreshes : WF_vars(Proceed(o))

Spec == Init /\ [][Next]_vars /\ Fairness

-----------------------------------------------------------------------------
SignedOut == \A t \in Tabs : out[t]
NoTokenLeft == stored = 0 /\ \A t \in Tabs : saved[t] = 0

(* Once the user has signed out of every tab no token is left or comes     *)
(* back, as long as no request fails, no tab is signed out while GET user  *)
(* is under way and none renews within its sign-out (auth.ts:49, "a        *)
(* refresh that resolves after a logout can't undo it").                   *)
SignedOutHasNoToken == SignedOut /\ faults = 0 /\ ~overtaken => NoTokenLeft

(* The same whatever request fails, as the comment has it.                 *)
LogoutIsFinal == SignedOut /\ ~overtaken => NoTokenLeft

(* A tab that has signed out is not counted as signed in: what a check     *)
(* decided before "doesn't override the auth state that logout() already   *)
(* set" (stores/auth.ts:398).                                              *)
SignOutStands == \A t \in Tabs : authed[t] /\ out[t] => t \in leaving

(* A tab has one refresh under way that may still save its token           *)
(* (auth.ts:43, "without this guard, refreshes firing close together each  *)
(* spend the single-use cookie").                                          *)
OneRefreshPerTab ==
  \A t \in Tabs : Cardinality({o \in BusyOf(t) : ~refresh[o].old}) <= 1

(* Under the lock the stored token is never put back to an older one by an *)
(* answer that comes late, unless a sign-in overlapped it.                 *)
StoredMovesForward ==
  [][secure /\ ~crossed' => stored' = 0 \/ stored' >= stored]_vars

(* Every refresh ends, whatever the other tabs do.                         *)
RefreshesSettle ==
  \A o \in Refreshes : refresh[o].pc # "free" ~> refresh[o].pc = "free"
=============================================================================
