---------------------------- MODULE ClientProofs ----------------------------
(***************************************************************************)
(* Proofs about the web client.  A browser session, for any number of      *)
(* tabs, refreshes and tokens: a tab has one refresh under way that may    *)
(* still save its token, a sign-out that nothing overlaps is not undone    *)
(* while no request fails, and under the Web Lock no late answer puts an   *)
(* older token back.  The live feed of a tab, for any number of events,    *)
(* connections and losses: it is subscribed to what the tab wants.         *)
(***************************************************************************)
EXTENDS Client, FiniteSetTheorems, TLAPS

Record == [pc : {"free", "queued", "post", "answer"}, old : BOOLEAN, before : Nat, try : Nat, token : Nat]

SessionTyped ==
  /\ stored \in Nat
  /\ saved \in [Tabs -> Nat]
  /\ authed \in [Tabs -> BOOLEAN]
  /\ inflight \in [Tabs -> Slots \cup {0}]
  /\ refresh \in [Refreshes -> Record]
  /\ issued \in Nat
  /\ faults \in Nat
  /\ out \in [Tabs -> BOOLEAN]

(* No request has failed, and no sign-out has overlapped GET user or a     *)
(* renewal that began in it.                                               *)
Orderly == faults = 0 /\ ~overtaken

(* A refresh that may save its token.                                      *)
Live(o) == refresh[o].pc # "free" /\ ~refresh[o].old

(* It is the one its tab remembers.                                        *)
Remembered == \A t \in Tabs, s \in Slots : Live(<<t, s>>) => inflight[t] = s

(* Who has signed out is not signed in, once the sign-out is complete, nor *)
(* about to be; they hold no token, and no refresh of theirs may bring     *)
(* one; a stored token is of someone signed in.                            *)
SignedOutIsOut == Orderly =>
  /\ \A t \in Tabs : authed[t] => ~out[t] \/ t \in leaving
  /\ \A t \in Tabs : t \in asking => ~out[t]
  /\ \A t \in Tabs : out[t] => saved[t] = 0
  /\ \A t \in Tabs, s \in Slots : Live(<<t, s>>) => ~out[t]
  /\ stored # 0 => \E t \in Tabs : ~out[t]

SessionInv == SessionTyped /\ Remembered /\ SignedOutIsOut

-----------------------------------------------------------------------------
(* The record of no refresh.                                               *)
LEMMA IdleRecord == Idle \in Record /\ Idle.pc = "free"
BY DEF Idle, Record

(* At the start nobody is signed in and no refresh is under way.           *)
LEMMA SessionInitInv == Init => SessionInv
<1> SUFFICES ASSUME Init PROVE SessionInv
  OBVIOUS
<1>1. \A t \in Tabs, s \in Slots : ~Live(<<t, s>>)
  BY IdleRecord DEF Init, Live, Refreshes
<1>2. SessionTyped
  BY IdleRecord DEF Init, SessionTyped
<1>3. Remembered /\ SignedOutIsOut
  BY <1>1 DEF Init, Remembered, SignedOutIsOut
<1> QED
  BY <1>2, <1>3 DEF SessionInv

(* A refresh is begun by its tab, which remembers no other.                *)
LEMMA BeginKeeps ==
  ASSUME SessionInv, NEW t \in Tabs, NEW s \in Slots, NEW n \in Nat,
         BeginAs(<<t, s>>, n), inflight[t] \in {0, s},
         UNCHANGED <<stored, saved, authed, asking, leaving, issued, out>>, faults' \in Nat,
         Orderly' => Orderly /\ ~out[t]
  PROVE  SessionInv'
<1> DEFINE w == [pc |-> IF secure THEN "queued" ELSE "post", old |-> FALSE,
                 before |-> stored, try |-> n, token |-> 0]
<1>1. w \in Record /\ w.pc # "free" /\ ~w.old
  BY DEF SessionInv, SessionTyped, Record
<1>2. refresh' = [refresh EXCEPT ![<<t, s>>] = w] /\ inflight' = [inflight EXCEPT ![t] = s]
  BY DEF BeginAs, TabOf
<1> HIDE DEF w
<1>3. SessionTyped'
  BY <1>1, <1>2 DEF SessionInv, SessionTyped, Refreshes
<1>4. \A x \in Tabs, y \in Slots :
        /\ refresh'[<<x, y>>] = IF x = t /\ y = s THEN w ELSE refresh[<<x, y>>]
        /\ inflight'[x] = IF x = t THEN s ELSE inflight[x]
  BY <1>2 DEF SessionInv, SessionTyped, Refreshes
<1>5. Remembered'
  BY <1>1, <1>4, SessionAssumption DEF SessionInv, Remembered, Live
<1>6. SignedOutIsOut'
  BY <1>1, <1>4 DEF SessionInv, SignedOutIsOut, Live
<1> QED
  BY <1>3, <1>5, <1>6 DEF SessionInv

(* A refresh ends, and saves its token only if it is a live one.           *)
LEMMA SettleKeeps ==
  ASSUME SessionInv, NEW t \in Tabs, NEW s \in Slots, Settle(<<t, s>>),
         stored' \in Nat, NEW n \in Nat,
         UNCHANGED <<authed, asking, leaving, issued, out>>, faults' \in Nat, Orderly' => Orderly,
         \/ UNCHANGED <<stored, saved>>
         \/ Live(<<t, s>>) /\ saved' = [saved EXCEPT ![t] = n]
  PROVE  SessionInv'
<1>1. /\ refresh' = [refresh EXCEPT ![<<t, s>>] = Idle]
      /\ inflight' = [inflight EXCEPT ![t] = IF inflight[t] = s THEN 0 ELSE inflight[t]]
  BY DEF Settle, TabOf
<1>2. SessionTyped'
  BY <1>1, IdleRecord DEF SessionInv, SessionTyped, Refreshes
<1>3. \A x \in Tabs, y \in Slots :
        /\ refresh'[<<x, y>>] = IF x = t /\ y = s THEN Idle ELSE refresh[<<x, y>>]
        /\ inflight'[x] = IF x = t /\ inflight[t] = s THEN 0 ELSE inflight[x]
  BY <1>1 DEF SessionInv, SessionTyped, Refreshes
<1>4. Remembered'
  BY <1>3, IdleRecord DEF SessionInv, Remembered, Live
<1>5. SignedOutIsOut'
  <2>1. \A x \in Tabs, y \in Slots : Live(<<x, y>>)' => Live(<<x, y>>)
    BY <1>3, IdleRecord DEF Live
  <2>2. CASE UNCHANGED <<stored, saved>>
    BY <2>1, <2>2 DEF SessionInv, SignedOutIsOut
  <2>3. CASE Live(<<t, s>>) /\ saved' = [saved EXCEPT ![t] = n]
    BY <2>1, <2>3 DEF SessionInv, SignedOutIsOut, SessionTyped
  <2> QED
    BY <2>2, <2>3
<1> QED
  BY <1>2, <1>4, <1>5 DEF SessionInv

(* A refresh goes on.                                                      *)
LEMMA GoOnKeeps ==
  ASSUME SessionInv, NEW t \in Tabs, NEW s \in Slots, NEW w \in Record,
         refresh' = [refresh EXCEPT ![<<t, s>>] = w],
         w.pc # "free" /\ ~w.old => Live(<<t, s>>), issued' \in Nat,
         UNCHANGED <<stored, saved, authed, asking, leaving, inflight, faults, out>>, Orderly' => Orderly
  PROVE  SessionInv'
<1>1. SessionTyped'
  BY DEF SessionInv, SessionTyped, Refreshes
<1>2. \A x \in Tabs, y \in Slots : Live(<<x, y>>)' => Live(<<x, y>>)
  BY DEF SessionInv, SessionTyped, Refreshes, Live
<1>3. Remembered' /\ SignedOutIsOut'
  BY <1>2 DEF SessionInv, Remembered, SignedOutIsOut
<1> QED
  BY <1>1, <1>3 DEF SessionInv

(* A tab forgets its refreshes: none of them is live any more.             *)
LEMMA ForgetKeeps ==
  ASSUME SessionInv, NEW t \in Tabs, refresh' \in [Refreshes -> Record],
         inflight' = [inflight EXCEPT ![t] = 0],
         \A s \in Slots : ~Live(<<t, s>>)',
         \A x \in Tabs \ {t}, s \in Slots : refresh'[<<x, s>>] = refresh[<<x, s>>],
         NEW o \in BOOLEAN, NEW a \in BOOLEAN, stored' \in {0, stored}, saved' = [saved EXCEPT ![t] = 0],
         authed' = [authed EXCEPT ![t] = a], out' = [out EXCEPT ![t] = o],
         asking' \ {t} \subseteq asking, leaving \ {t} \subseteq leaving',
         stored' = 0 \/ o = out[t], issued' = issued, faults' \in Nat, Orderly' => Orderly,
         Orderly' /\ o => (a => t \in leaving') /\ t \notin asking'
  PROVE  SessionInv'
<1>1. SessionTyped'
  BY DEF SessionInv, SessionTyped
<1>2. \A x \in Tabs, s \in Slots : Live(<<x, s>>)' => x # t /\ Live(<<x, s>>)
  BY DEF Live
<1>3. Remembered'
  BY <1>2 DEF SessionInv, SessionTyped, Remembered
<1>4. SignedOutIsOut'
  BY <1>2 DEF SessionInv, SessionTyped, SignedOutIsOut
<1> QED
  BY <1>1, <1>3, <1>4 DEF SessionInv

(* A tab has token n, or none, and is asked about.                         *)
LEMMA SignInKeeps ==
  ASSUME SessionInv, NEW t \in Tabs, NEW n \in Nat, issued' \in Nat, stored' \in Nat,
         saved' = [saved EXCEPT ![t] = n], NEW a \in BOOLEAN, authed' = [authed EXCEPT ![t] = a], n = 0 => ~a,
         asking' \ {t} \subseteq asking, n = 0 => asking' \subseteq asking, leaving' = leaving \ {t},
         out' = [out EXCEPT ![t] = out[t] /\ n = 0],
         stored' = stored \/ n # 0, UNCHANGED <<inflight, refresh, faults, overtaken>>
  PROVE  SessionInv'
<1>1. SessionTyped'
  BY DEF SessionInv, SessionTyped
<1>2. \A x \in Tabs, s \in Slots : Live(<<x, s>>)' = Live(<<x, s>>)
  BY DEF Live
<1>3. Remembered'
  BY <1>2 DEF SessionInv, Remembered
<1>4. SignedOutIsOut'
  BY <1>2 DEF SessionInv, SessionTyped, SignedOutIsOut, Orderly
<1> QED
  BY <1>1, <1>3, <1>4 DEF SessionInv

-----------------------------------------------------------------------------
(* Every step keeps the invariant.                                         *)
LEMMA SessionStep ==
  ASSUME SessionInv, [Next]_vars
  PROVE  SessionInv'
<1>0. /\ \A o \in Refreshes : refresh[o] \in Record
      /\ \A o \in Refreshes : \E t \in Tabs, s \in Slots : o = <<t, s>>
  BY DEF SessionInv, SessionTyped, Refreshes
<1>1. ASSUME NEW t \in Tabs, Renew(t) PROVE SessionInv'
  <2>1. /\ authed[t] = TRUE /\ UNCHANGED <<stored, saved, authed, asking, leaving, issued, faults, out>>
        /\ faults \in Nat
    BY <1>1 DEF Renew, SessionInv, SessionTyped, signing
  <2>0. Orderly' => Orderly /\ ~out[t]
    <3>1. overtaken' = (overtaken \/ t \in leaving)
      BY <1>1 DEF Renew
    <3>2. ~overtaken' => ~overtaken /\ t \notin leaving
      BY <3>1, Zenon
    <3> QED
      BY <2>1, <3>2 DEF Orderly, SessionInv, SignedOutIsOut
  <2>2. CASE \E s \in Slots : inflight[t] = 0 /\ BeginAs(<<t, s>>, 1)
    BY <2>0, <2>1, <2>2, BeginKeeps
  <2>3. CASE inflight[t] # 0 /\ refresh' = [refresh EXCEPT ![<<t, inflight[t]>>].try = 1]
             /\ UNCHANGED inflight
    <3>1. PICK s \in Slots : s = inflight[t]
      BY <2>3 DEF SessionInv, SessionTyped
    <3> DEFINE w == [refresh[<<t, s>>] EXCEPT !.try = 1]
    <3>2. /\ w \in Record /\ w.pc = refresh[<<t, s>>].pc /\ w.old = refresh[<<t, s>>].old
          /\ refresh' = [refresh EXCEPT ![<<t, s>>] = w]
      BY <1>0, <2>3, <3>1 DEF Record, Refreshes
    <3>3. issued' \in Nat /\ (w.pc # "free" /\ ~w.old => Live(<<t, s>>))
      BY <2>1, <3>2 DEF Live, SessionInv, SessionTyped
    <3>4. UNCHANGED <<stored, saved, authed, asking, leaving, inflight, faults, out>>
      BY <2>1, <2>3
    <3> HIDE DEF w
    <3> QED
      BY <2>0, <3>2, <3>3, <3>4, GoOnKeeps
  <2> QED
    BY <1>1, <2>2, <2>3 DEF Renew
<1>2. ASSUME NEW t \in Tabs, CheckAuth(t) PROVE SessionInv'
  <2>1. PICK n \in Nat : n = IF saved[t] # 0 THEN saved[t] ELSE stored
    BY DEF SessionInv, SessionTyped
  <2>2. /\ saved' = [saved EXCEPT ![t] = n] /\ UNCHANGED <<stored, inflight, refresh, issued, faults, overtaken>>
        /\ leaving' = leaving \ {t} /\ issued \in Nat /\ stored \in Nat /\ out[t] \in BOOLEAN
        /\ authed[t] \in BOOLEAN
    BY <1>2, <2>1 DEF CheckAuth, SessionInv, SessionTyped
  <2>3. CASE n # 0 /\ asking' = asking \cup {t} /\ out' = [out EXCEPT ![t] = FALSE] /\ UNCHANGED authed
    <3>1. (out[t] /\ n = 0) = FALSE
      BY <2>3
    <3>2. out' = [out EXCEPT ![t] = out[t] /\ n = 0] /\ authed' = [authed EXCEPT ![t] = authed[t]]
      BY <2>3, <3>1 DEF SessionInv, SessionTyped
    <3> QED
      BY <2>2, <2>3, <3>2, SignInKeeps
  <2>4. CASE n = 0 /\ authed' = [authed EXCEPT ![t] = FALSE] /\ UNCHANGED <<asking, out>>
    <3>1. (out[t] /\ n = 0) = out[t]
      BY <2>2, <2>4
    <3>2. out' = [out EXCEPT ![t] = out[t] /\ n = 0]
      BY <2>4, <3>1 DEF SessionInv, SessionTyped
    <3> QED
      BY <2>2, <2>4, <3>2, SignInKeeps
  <2> QED
    BY <1>2, <2>1, <2>3, <2>4 DEF CheckAuth
<1>3. ASSUME NEW t \in Tabs, RemoveToken(t)
      PROVE  /\ refresh' \in [Refreshes -> Record]
             /\ \A s \in Slots : ~Live(<<t, s>>)'
             /\ \A x \in Tabs \ {t}, s \in Slots : refresh'[<<x, s>>] = refresh[<<x, s>>]
             /\ stored' = 0 /\ saved' = [saved EXCEPT ![t] = 0]
             /\ inflight' = [inflight EXCEPT ![t] = 0]
  <2>1. \A o \in Refreshes : [refresh[o] EXCEPT !.old = TRUE] \in Record
    BY <1>0 DEF Record
  <2>2. refresh' \in [Refreshes -> Record]
    BY <1>0, <1>3, <2>1 DEF RemoveToken
  <2>3. \A s \in Slots : ~Live(<<t, s>>)'
    <3> SUFFICES ASSUME NEW s \in Slots PROVE ~Live(<<t, s>>)'
      OBVIOUS
    <3>1. <<t, s>> \in Refreshes
      BY DEF Refreshes
    <3>2. CASE refresh[<<t, s>>].pc = "free"
      BY <1>3, <3>1, <3>2 DEF RemoveToken, BusyOf, Busy, TabOf, Live
    <3>3. CASE refresh[<<t, s>>].pc # "free"
      <4>1. <<t, s>> \in BusyOf(t)
        BY <3>1, <3>3 DEF BusyOf, Busy, TabOf
      <4>2. refresh'[<<t, s>>] = [refresh[<<t, s>>] EXCEPT !.old = TRUE]
        BY <1>3, <3>1, <4>1 DEF RemoveToken
      <4> QED
        BY <1>0, <3>1, <4>2 DEF Live, Record
    <3> QED
      BY <3>2, <3>3
  <2>4. \A x \in Tabs \ {t}, s \in Slots : refresh'[<<x, s>>] = refresh[<<x, s>>]
    BY <1>3 DEF RemoveToken, BusyOf, Busy, TabOf, Refreshes
  <2> QED
    BY <1>3, <2>2, <2>3, <2>4 DEF RemoveToken
<1>4. ASSUME NEW t \in Tabs, Logout(t) PROVE SessionInv'
  <2>1. /\ RemoveToken(t) /\ out' = [out EXCEPT ![t] = TRUE] /\ leaving' = leaving \cup {t}
        /\ UNCHANGED <<authed, asking, issued, faults>> /\ faults \in Nat
        /\ authed' = [authed EXCEPT ![t] = authed[t]] /\ authed[t] \in BOOLEAN
    BY <1>4 DEF Logout, SessionInv, SessionTyped
  <2>2. ~overtaken' => ~overtaken /\ t \notin asking
    <3>1. overtaken' = (overtaken \/ t \in asking)
      BY <1>4 DEF Logout
    <3> QED
      BY <3>1, Zenon
  <2>3. /\ Orderly' => Orderly
        /\ Orderly' => t \in leaving' /\ t \notin asking'
    BY <2>1, <2>2 DEF Orderly
  <2> QED
    BY <1>3, <2>1, <2>3, ForgetKeeps
<1>5. ASSUME NEW t \in Tabs, Login(t) PROVE SessionInv'
  <2>1. /\ RemoveToken(t) /\ ~authed[t]
        /\ UNCHANGED <<authed, asking, leaving, out, issued, faults, overtaken>> /\ faults \in Nat
    BY <1>5 DEF Login, SessionInv, SessionTyped, signing
  <2>2. /\ authed' = [authed EXCEPT ![t] = FALSE] /\ out' = [out EXCEPT ![t] = out[t]]
        /\ out[t] \in BOOLEAN
    BY <2>1 DEF SessionInv, SessionTyped
  <2>3. /\ Orderly' => Orderly
        /\ Orderly' /\ out[t] => t \notin asking'
    BY <2>1 DEF Orderly, SessionInv, SignedOutIsOut
  <2> QED
    BY <1>3, <2>1, <2>2, <2>3, ForgetKeeps
<1>6. ASSUME NEW t \in Tabs, LoginAnswered(t) PROVE SessionInv'
  <2>1. PICK n : n = issued + 1
    OBVIOUS
  <2>2. /\ n \in Nat /\ n # 0 /\ issued' = n /\ stored' = n /\ saved' = [saved EXCEPT ![t] = n]
        /\ asking' = asking \cup {t} /\ leaving' = leaving \ {t}
        /\ UNCHANGED <<inflight, refresh, faults, overtaken>>
    BY <1>6, <2>1 DEF LoginAnswered, SessionInv, SessionTyped
  <2>3. authed' = [authed EXCEPT ![t] = authed[t]] /\ authed[t] \in BOOLEAN
        /\ out' = [out EXCEPT ![t] = FALSE]
    BY <1>6 DEF LoginAnswered, SessionInv, SessionTyped
  <2>4. (out[t] /\ n = 0) = FALSE
    BY <2>2
  <2>5. out' = [out EXCEPT ![t] = out[t] /\ n = 0]
    BY <2>3, <2>4, Zenon
  <2> QED
    BY <2>2, <2>3, <2>5, SignInKeeps
<1>7. ASSUME NEW t \in Tabs, Reload(t) PROVE SessionInv'
  <2>1. /\ refresh' \in [Refreshes -> Record]
        /\ \A s \in Slots : refresh'[<<t, s>>] = Idle
        /\ \A x \in Tabs \ {t}, s \in Slots : refresh'[<<x, s>>] = refresh[<<x, s>>]
    BY <1>0, <1>7, IdleRecord DEF Reload, TabOf, Refreshes
  <2>2. \A s \in Slots : ~Live(<<t, s>>)'
    BY <2>1, IdleRecord DEF Live
  <2>3. /\ inflight' = [inflight EXCEPT ![t] = 0] /\ saved' = [saved EXCEPT ![t] = 0]
        /\ authed' = [authed EXCEPT ![t] = FALSE] /\ out' = [out EXCEPT ![t] = out[t]]
        /\ UNCHANGED <<stored, issued, faults, overtaken>> /\ out[t] \in BOOLEAN /\ faults \in Nat
        /\ asking' = asking \ {t} /\ leaving' = leaving \ {t}
    BY <1>7 DEF Reload, SessionInv, SessionTyped
  <2>4. Orderly' => Orderly
    BY <2>3 DEF Orderly
  <2> QED
    BY <2>1, <2>2, <2>3, <2>4, ForgetKeeps
<1>8. ASSUME NEW t \in Tabs, NEW s \in Slots, Enter(<<t, s>>) PROVE SessionInv'
  <2>1. /\ refresh[<<t, s>>].pc = "queued" /\ <<t, s>> \in Refreshes
        /\ UNCHANGED <<stored, authed, asking, leaving, issued, faults, out>> /\ (Orderly' => Orderly)
        /\ stored \in Nat /\ faults \in Nat /\ issued \in Nat
    BY <1>8 DEF Enter, Refreshes, SessionInv, SessionTyped, signing, Orderly
  <2>2. CASE ~(refresh[<<t, s>>].old \/ Adopts(<<t, s>>))
    <3> DEFINE w == [refresh[<<t, s>>] EXCEPT !.pc = "post"]
    <3>1. w \in Record /\ w.old = refresh[<<t, s>>].old
      BY <1>0, <2>1 DEF Record
    <3>2. refresh' = [refresh EXCEPT ![<<t, s>>] = w] /\ UNCHANGED <<inflight, saved>>
      BY <1>8, <2>2 DEF Enter
    <3> HIDE DEF w
    <3> QED
      BY <2>1, <3>1, <3>2, GoOnKeeps DEF Live
  <2>3. CASE refresh[<<t, s>>].old \/ Adopts(<<t, s>>)
    <3>1. Settle(<<t, s>>)
      BY <1>8, <2>3 DEF Enter
    <3>2. \/ UNCHANGED saved
          \/ Live(<<t, s>>) /\ saved' = [saved EXCEPT ![t] = stored]
      BY <1>8, <2>1 DEF Enter, TabOf, Live
    <3> QED
      BY <2>1, <3>1, <3>2, SettleKeeps
  <2> QED
    BY <2>2, <2>3
<1>9. ASSUME NEW t \in Tabs, NEW s \in Slots, Serve(<<t, s>>) PROVE SessionInv'
  <2>0. PICK n : n = issued + 1
    OBVIOUS
  <2> DEFINE w == [refresh[<<t, s>>] EXCEPT !.pc = "answer", !.token = n]
  <2>1. refresh[<<t, s>>] \in Record /\ issued \in Nat /\ n \in Nat
    BY <1>0, <2>0 DEF Refreshes, SessionInv, SessionTyped
  <2>2. w \in Record /\ w.old = refresh[<<t, s>>].old
    BY <2>1 DEF Record
  <2>3. /\ refresh[<<t, s>>].pc = "post" /\ refresh' = [refresh EXCEPT ![<<t, s>>] = w]
        /\ issued' = n /\ UNCHANGED <<stored, saved, authed, asking, leaving, inflight, faults, out>>
        /\ (Orderly' => Orderly)
    BY <1>9, <2>0 DEF Serve, signing, Orderly
  <2> HIDE DEF w
  <2>4. w.pc # "free" /\ ~w.old => Live(<<t, s>>)
    BY <2>2, <2>3 DEF Live
  <2> QED
    BY <2>1, <2>2, <2>3, <2>4, GoOnKeeps
<1>10. ASSUME NEW t \in Tabs, NEW s \in Slots, Deliver(<<t, s>>) PROVE SessionInv'
  <2>1. PICK n : n = refresh[<<t, s>>].token
    OBVIOUS
  <2>2. n \in Nat /\ stored \in Nat /\ faults \in Nat
    BY <1>0, <2>1 DEF Refreshes, Record, SessionInv, SessionTyped
  <2>3. /\ refresh[<<t, s>>].pc = "answer" /\ Settle(<<t, s>>)
        /\ UNCHANGED <<authed, asking, leaving, issued, faults, out>> /\ (Orderly' => Orderly)
        /\ \/ UNCHANGED <<stored, saved>>
           \/ ~refresh[<<t, s>>].old /\ stored' = n /\ saved' = [saved EXCEPT ![t] = n]
    BY <1>10, <2>1 DEF Deliver, TabOf, signing, Orderly
  <2> QED
    BY <2>2, <2>3, SettleKeeps DEF Live
<1>11. ASSUME NEW t \in Tabs, NEW s \in Slots, Fail(<<t, s>>) PROVE SessionInv'
  <2>1. /\ UNCHANGED <<stored, saved, authed, asking, leaving, issued, out>>
        /\ faults' \in Nat /\ ~Orderly' /\ stored \in Nat
    BY <1>11 DEF Fail, SessionInv, SessionTyped, signing, Orderly
  <2>2. CASE inflight[t] \in {0, s} /\ BeginAs(<<t, s>>, 2)
    BY <2>1, <2>2, BeginKeeps
  <2>3. CASE Settle(<<t, s>>)
    BY <2>1, <2>3, SettleKeeps
  <2> QED
    BY <1>11, <2>2, <2>3 DEF Fail, TabOf
<1>12. CASE UNCHANGED <<stored, saved, authed, asking, leaving, inflight, refresh, issued, faults, out, overtaken>>
  BY <1>12 DEF SessionInv, SessionTyped, Remembered, SignedOutIsOut, Live, Orderly
<1>13. ASSUME NEW o \in Refreshes, Enter(o) \/ Serve(o) \/ Deliver(o) \/ Fail(o) PROVE SessionInv'
  <2>1. PICK t \in Tabs, s \in Slots : o = <<t, s>>
    BY <1>0
  <2> QED
    BY <1>8, <1>9, <1>10, <1>11, <1>13, <2>1
<1>14. ASSUME NEW t \in Tabs, UserAnswered(t) PROVE SessionInv'
  <2>1. /\ t \in asking /\ asking' = asking \ {t} /\ authed' = [authed EXCEPT ![t] = TRUE]
        /\ UNCHANGED <<stored, saved, leaving, inflight, refresh, issued, faults, out, overtaken>>
    BY <1>14 DEF UserAnswered
  <2>2. SessionTyped' /\ Remembered'
    BY <2>1 DEF SessionInv, SessionTyped, Remembered, Live
  <2>3. SignedOutIsOut'
    BY <2>1 DEF SessionInv, SessionTyped, SignedOutIsOut, Live, Orderly
  <2> QED
    BY <2>2, <2>3 DEF SessionInv
<1>15. ASSUME NEW t \in Tabs, UserFailed(t) PROVE SessionInv'
  <2>1. faults' \in Nat /\ ~Orderly' /\ issued' = issued /\ authed' = authed /\ asking' = asking \ {t}
    BY <1>15 DEF UserFailed, SessionInv, SessionTyped, Orderly
  <2>2. CASE RemoveToken(t) /\ leaving' = leaving \cup {t} /\ out' = [out EXCEPT ![t] = TRUE]
    <3>1. authed' = [authed EXCEPT ![t] = authed[t]] /\ authed[t] \in BOOLEAN
      BY <2>1 DEF SessionInv, SessionTyped
    <3> QED
      BY <1>3, <2>1, <2>2, <3>1, ForgetKeeps
  <2>3. CASE UNCHANGED <<stored, saved, inflight, refresh, leaving, out>>
    BY <2>1, <2>3 DEF SessionInv, SessionTyped, Remembered, Live, SignedOutIsOut
  <2> QED
    BY <1>15, <2>2, <2>3 DEF UserFailed
<1> QED
  BY <1>1, <1>2, <1>4, <1>5, <1>6, <1>7, <1>12, <1>13, <1>14, <1>15 DEF Next, vars, LoginRefused, signing

(* The invariant holds throughout.                                         *)
LEMMA SessionInvHolds == Init /\ [][Next]_vars => []SessionInv
BY SessionInitInv, SessionStep, PTL

(* Once the user has signed out of every tab no token is left or comes     *)
(* back, in any number of tabs (auth.ts:49), as long as no request fails,  *)
(* no tab is signed out while it asks for its user (stores/auth.ts:394)    *)
(* and none renews its token between the two ends of its sign-out.         *)
THEOREM SignedOutStaysOut == Spec => []SignedOutHasNoToken
<1>1. SessionInv => SignedOutHasNoToken
  BY DEF SessionInv, SignedOutIsOut, SignedOutHasNoToken, SignedOut, NoTokenLeft, Orderly
<1> QED
  BY <1>1, SessionInvHolds, PTL DEF Spec

(* A tab never has two refreshes under way that may save their token       *)
(* (auth.ts:43), whatever fails and however sign-outs and reloads fall.    *)
THEOREM RefreshesAreShared == Spec => []OneRefreshPerTab
<1>1. SessionInv => OneRefreshPerTab
  <2> SUFFICES ASSUME SessionInv, NEW t \in Tabs
               PROVE  Cardinality({o \in BusyOf(t) : ~refresh[o].old}) <= 1
    BY DEF OneRefreshPerTab
  <2> DEFINE L == {o \in BusyOf(t) : ~refresh[o].old}
             one == {<<t, inflight[t]>>}
  <2>1. L \subseteq one
    BY DEF BusyOf, Busy, TabOf, Refreshes, SessionInv, Remembered, Live
  <2>2. IsFiniteSet(one) /\ Cardinality(one) = 1
    BY FS_Singleton
  <2>3. Cardinality(L) <= Cardinality(one)
    BY <2>1, <2>2, FS_Subset
  <2> QED
    BY <2>2, <2>3
<1> QED
  BY <1>1, SessionInvHolds, PTL DEF Spec

-----------------------------------------------------------------------------
(* The lock.                                                               *)

(* Under the lock one refresh at a time has a request under way.           *)
LockTaken == secure =>
  /\ \A o, p \in holding : o = p
  /\ \A o \in Refreshes : refresh[o].pc \in {"post", "answer"} => o \in holding

(* Tokens are the server's; until a sign-in overlaps a refresh, no refresh *)
(* that counts is under way during a sign-in, and an answer on its way     *)
(* brings nothing older than what is stored.                               *)
NoneTooOld ==
  /\ stored <= issued
  /\ \A o \in Refreshes : refresh[o].token <= issued
  /\ secure /\ ~crossed =>
       /\ joining # {} => \A o \in Refreshes : refresh[o].pc = "free" \/ refresh[o].old
       /\ \A o \in Refreshes : refresh[o].pc = "answer" /\ ~refresh[o].old => stored <= refresh[o].token

LEMMA LockInit == Init => LockTaken /\ NoneTooOld
<1> SUFFICES ASSUME Init PROVE LockTaken /\ NoneTooOld
  OBVIOUS
<1>1. \A o \in Refreshes : refresh[o].pc = "free" /\ refresh[o].token = 0
  BY DEF Init, Idle
<1> QED
  BY <1>1 DEF Init, LockTaken, NoneTooOld

(* What a step does to the refresh it is about, and to the others.         *)
LEMMA OneRefreshStep ==
  ASSUME SessionInv, NEW o \in Refreshes, NEW w, refresh' = [refresh EXCEPT ![o] = w]
  PROVE  refresh'[o] = w /\ \A p \in Refreshes \ {o} : refresh'[p] = refresh[p]
BY DEF SessionInv, SessionTyped

LEMMA BegunAs ==
  ASSUME SessionInv, NEW o \in Refreshes, NEW n, BeginAs(o, n)
  PROVE  /\ secure => refresh'[o].pc = "queued"
         /\ refresh'[o].pc # "answer" /\ refresh'[o].token = 0
         /\ \A p \in Refreshes \ {o} : refresh'[p] = refresh[p]
         /\ ~crossed' => ~crossed /\ joining = {}
<1>1. refresh' = [refresh EXCEPT ![o] = [pc |-> IF secure THEN "queued" ELSE "post", old |-> FALSE,
                                         before |-> stored, try |-> n, token |-> 0]]
  BY DEF BeginAs
<1>2. /\ refresh'[o] = [pc |-> IF secure THEN "queued" ELSE "post", old |-> FALSE,
                        before |-> stored, try |-> n, token |-> 0]
      /\ \A p \in Refreshes \ {o} : refresh'[p] = refresh[p]
  BY <1>1, OneRefreshStep
<1>3. ~crossed' => ~crossed /\ joining = {}
  <2>1. crossed' = (crossed \/ joining # {})
    BY DEF BeginAs
  <2> QED
    BY <2>1, Zenon
<1> QED
  BY <1>2, <1>3

LEMMA Settled ==
  ASSUME SessionInv, NEW o \in Refreshes, Settle(o)
  PROVE  /\ refresh'[o].pc = "free" /\ refresh'[o].token = 0
         /\ \A p \in Refreshes \ {o} : refresh'[p] = refresh[p]
         /\ holding' = holding \ {o}
<1>1. refresh' = [refresh EXCEPT ![o] = Idle] /\ holding' = holding \ {o}
  BY DEF Settle
<1>2. refresh'[o] = Idle /\ \A p \in Refreshes \ {o} : refresh'[p] = refresh[p]
  BY <1>1, OneRefreshStep
<1> QED
  BY <1>1, <1>2 DEF Idle

(* A new try of the same refresh, or none.                                 *)
LEMMA Retried ==
  ASSUME SessionInv, NEW t \in Tabs, inflight[t] # 0,
         refresh' = [refresh EXCEPT ![<<t, inflight[t]>>].try = 1]
  PROVE  \A p \in Refreshes : /\ refresh'[p].pc = refresh[p].pc /\ refresh'[p].old = refresh[p].old
                              /\ refresh'[p].token = refresh[p].token
<1>1. PICK o \in Refreshes : o = <<t, inflight[t]>>
  BY DEF SessionInv, SessionTyped, Refreshes
<1>2. refresh[o] \in Record
  BY DEF SessionInv, SessionTyped
<1>3. PICK w : w = [refresh[o] EXCEPT !.try = 1]
  OBVIOUS
<1>4. w.pc = refresh[o].pc /\ w.old = refresh[o].old /\ w.token = refresh[o].token
  BY <1>2, <1>3 DEF Record
<1>5. refresh'[o] = w /\ \A p \in Refreshes \ {o} : refresh'[p] = refresh[p]
  BY <1>1, <1>3, OneRefreshStep
<1> QED
  BY <1>4, <1>5

LEMMA Outdated ==
  ASSUME SessionInv, NEW t \in Tabs, RemoveToken(t)
  PROVE  \A p \in Refreshes : /\ refresh'[p].pc = refresh[p].pc
                              /\ refresh'[p].token = refresh[p].token
                              /\ refresh[p].old => refresh'[p].old
                              /\ p \in BusyOf(t) => refresh'[p].old
<1> SUFFICES ASSUME NEW p \in Refreshes
             PROVE  /\ refresh'[p].pc = refresh[p].pc /\ refresh'[p].token = refresh[p].token
                    /\ refresh[p].old => refresh'[p].old
                    /\ p \in BusyOf(t) => refresh'[p].old
  OBVIOUS
<1>1. refresh[p] \in Record
  BY DEF SessionInv, SessionTyped
<1>2. CASE p \in BusyOf(t)
  <2>1. refresh'[p] = [refresh[p] EXCEPT !.old = TRUE]
    BY <1>2 DEF RemoveToken
  <2> QED
    BY <1>1, <2>1 DEF Record
<1>3. CASE p \notin BusyOf(t)
  BY <1>3 DEF RemoveToken
<1> QED
  BY <1>2, <1>3

LEMMA Moved ==
  ASSUME SessionInv, NEW o \in Refreshes, Enter(o) \/ Serve(o) \/ Deliver(o) \/ Fail(o)
  PROVE  \/ Settle(o)
         \/ Fail(o) /\ BeginAs(o, 2) /\ holding' = holding \ {o}
         \/ /\ \A p \in Refreshes \ {o} : refresh'[p] = refresh[p]
            /\ refresh'[o].old = refresh[o].old
            /\ \/ Enter(o) /\ refresh'[o].pc = "post" /\ refresh'[o].token = refresh[o].token /\ holding' = {o}
               \/ /\ Serve(o) /\ refresh'[o].pc = "answer" /\ refresh'[o].token = issued + 1
                  /\ holding' = holding
<1>1. refresh[o] \in Record
  BY DEF SessionInv, SessionTyped
<1>2. CASE Enter(o)
  <2>1. PICK w : w = [refresh[o] EXCEPT !.pc = "post"]
    OBVIOUS
  <2>2. w.pc = "post" /\ w.old = refresh[o].old /\ w.token = refresh[o].token
    BY <1>1, <2>1 DEF Record
  <2>3. CASE refresh' = [refresh EXCEPT ![o].pc = "post"] /\ holding' = {o}
    BY <1>2, <2>1, <2>2, <2>3, OneRefreshStep
  <2> QED
    BY <1>2, <2>3 DEF Enter
<1>3. CASE Serve(o)
  <2>1. PICK w : w = [refresh[o] EXCEPT !.pc = "answer", !.token = issued + 1]
    OBVIOUS
  <2>2. w.pc = "answer" /\ w.old = refresh[o].old /\ w.token = issued + 1
    BY <1>1, <2>1 DEF Record
  <2>3. refresh' = [refresh EXCEPT ![o] = w] /\ holding' = holding
    BY <1>3, <2>1 DEF Serve
  <2> QED
    BY <1>3, <2>2, <2>3, OneRefreshStep
<1>4. CASE Deliver(o) \/ Fail(o)
  BY <1>4 DEF Deliver, Fail
<1> QED
  BY <1>2, <1>3, <1>4

LEMMA LockStep ==
  ASSUME SessionInv, LockTaken, [Next]_vars
  PROVE  LockTaken'
<1>0. UNCHANGED secure
  BY DEF Next, vars, Renew, CheckAuth, UserAnswered, UserFailed, Logout, Reload, Login, LoginAnswered, LoginRefused,
         Enter, Serve, Deliver, Fail
<1> SUFFICES ASSUME secure PROVE LockTaken'
  BY <1>0 DEF LockTaken
<1>1. /\ \A o, p \in holding : o = p
      /\ \A o \in Refreshes : refresh[o].pc \in {"post", "answer"} => o \in holding
  BY DEF LockTaken
<1>2. ASSUME NEW t \in Tabs, Renew(t) PROVE LockTaken'
  <2>1. CASE \E s \in Slots : BeginAs(<<t, s>>, 1)
    <3>1. PICK o \in Refreshes : BeginAs(o, 1)
      BY <2>1 DEF Refreshes
    <3>2. refresh'[o].pc = "queued" /\ \A p \in Refreshes \ {o} : refresh'[p] = refresh[p]
      BY <3>1, BegunAs
    <3> QED
      BY <1>1, <1>2, <3>2 DEF LockTaken, Renew
  <2>2. CASE inflight[t] # 0 /\ refresh' = [refresh EXCEPT ![<<t, inflight[t]>>].try = 1]
    BY <1>1, <1>2, <2>2, Retried DEF LockTaken, Renew
  <2> QED
    BY <1>2, <2>1, <2>2 DEF Renew
<1>3. ASSUME NEW t \in Tabs, CheckAuth(t) \/ UserAnswered(t) \/ LoginAnswered(t) \/ LoginRefused(t) PROVE LockTaken'
  BY <1>1, <1>3 DEF LockTaken, CheckAuth, UserAnswered, LoginAnswered, LoginRefused
<1>4. ASSUME NEW t \in Tabs, Logout(t) \/ Login(t) PROVE LockTaken'
  <2>1. RemoveToken(t) /\ holding' = holding
    BY <1>4 DEF Logout, Login
  <2> QED
    BY <1>1, <2>1, Outdated DEF LockTaken
<1>5. ASSUME NEW t \in Tabs, Reload(t) PROVE LockTaken'
  <2>1. \A p \in Refreshes : refresh'[p] = IF TabOf(p) = t THEN Idle ELSE refresh[p]
    BY <1>5 DEF Reload
  <2>2. holding' = {p \in holding : TabOf(p) # t}
    BY <1>5 DEF Reload
  <2> QED
    BY <1>1, <2>1, <2>2 DEF LockTaken, Idle
<1>6. ASSUME NEW o \in Refreshes, Enter(o) \/ Serve(o) \/ Deliver(o) \/ Fail(o) PROVE LockTaken'
  <2>1. CASE Settle(o)
    BY <1>1, <2>1, Settled DEF LockTaken
  <2>2. CASE Fail(o) /\ BeginAs(o, 2) /\ holding' = holding \ {o}
    BY <1>1, <2>2, BegunAs DEF LockTaken
  <2>3. CASE /\ \A p \in Refreshes \ {o} : refresh'[p] = refresh[p]
             /\ Enter(o) /\ holding' = {o}
    BY <1>1, <2>3 DEF LockTaken, Enter, Granted
  <2>4. CASE /\ \A p \in Refreshes \ {o} : refresh'[p] = refresh[p]
             /\ Serve(o) /\ holding' = holding
    BY <1>1, <2>4 DEF LockTaken, Serve
  <2> QED
    BY <1>6, <2>1, <2>2, <2>3, <2>4, Moved
<1>7. ASSUME NEW t \in Tabs, UserFailed(t) PROVE LockTaken'
  <2>1. holding' = holding
    BY <1>7 DEF UserFailed
  <2>2. CASE RemoveToken(t)
    BY <1>1, <2>1, <2>2, Outdated DEF LockTaken
  <2>3. CASE refresh' = refresh
    BY <1>1, <2>1, <2>3 DEF LockTaken
  <2> QED
    BY <1>7, <2>2, <2>3 DEF UserFailed
<1>8. CASE UNCHANGED vars
  BY <1>1, <1>8 DEF LockTaken, vars
<1> QED
  BY <1>2, <1>3, <1>4, <1>5, <1>6, <1>7, <1>8 DEF Next

(* No step puts an older token back.                                       *)
Forward == secure /\ ~crossed' => stored' = 0 \/ stored' >= stored

LEMMA ForwardStep ==
  ASSUME SessionInv, LockTaken, NoneTooOld, [Next]_vars
  PROVE  NoneTooOld' /\ Forward
<1>0. UNCHANGED secure /\ (~crossed' => ~crossed)
  <2>1. ASSUME NEW o, NEW n, BeginAs(o, n) PROVE ~crossed' => ~crossed
    <3>1. crossed' = (crossed \/ joining # {})
      BY <2>1 DEF BeginAs
    <3> QED
      BY <3>1, Zenon
  <2>2. ASSUME NEW t \in Tabs, Login(t) PROVE ~crossed' => ~crossed
    <3>1. crossed' = (crossed \/ joining # {} \/ Busy # BusyOf(t))
      BY <2>2 DEF Login
    <3> QED
      BY <3>1, Zenon
  <2>3. ~crossed' => ~crossed
    BY <2>1, <2>2 DEF Next, vars, Renew, CheckAuth, UserAnswered, UserFailed, Logout, Reload, LoginAnswered, LoginRefused,
         Enter, Serve, Deliver, Fail
  <2>4. UNCHANGED secure
    BY DEF Next, vars, Renew, CheckAuth, UserAnswered, UserFailed, Logout, Reload, Login, LoginAnswered, LoginRefused,
           Enter, Serve, Deliver, Fail
  <2> QED
    BY <2>3, <2>4
<1>1. /\ stored \in Nat /\ issued \in Nat /\ stored <= issued
      /\ \A o \in Refreshes : refresh[o].token <= issued /\ refresh[o].token \in Nat
  BY DEF NoneTooOld, SessionInv, SessionTyped, Record
<1>2. ASSUME secure, ~crossed'
      PROVE  /\ joining # {} => \A o \in Refreshes : refresh[o].pc = "free" \/ refresh[o].old
             /\ \A o \in Refreshes : refresh[o].pc = "answer" /\ ~refresh[o].old => stored <= refresh[o].token
  BY <1>0, <1>2 DEF NoneTooOld
<1>3. ASSUME NEW t \in Tabs, Renew(t) PROVE NoneTooOld' /\ Forward
  <2>1. UNCHANGED <<stored, issued, joining>>
    BY <1>3 DEF Renew
  <2>2. CASE \E s \in Slots : BeginAs(<<t, s>>, 1)
    <3>1. PICK o \in Refreshes : BeginAs(o, 1)
      BY <2>2 DEF Refreshes
    <3>2. /\ refresh'[o].pc # "answer" /\ refresh'[o].token = 0
          /\ \A p \in Refreshes \ {o} : refresh'[p] = refresh[p]
          /\ ~crossed' => joining = {}
      BY <3>1, BegunAs
    <3> QED
      BY <1>0, <1>1, <1>2, <2>1, <3>2 DEF NoneTooOld, Forward
  <2>3. CASE inflight[t] # 0 /\ refresh' = [refresh EXCEPT ![<<t, inflight[t]>>].try = 1]
    BY <1>0, <1>1, <1>2, <2>1, <2>3, Retried DEF NoneTooOld, Forward
  <2> QED
    BY <1>3, <2>2, <2>3 DEF Renew
<1>4. ASSUME NEW t \in Tabs, CheckAuth(t) \/ UserAnswered(t) \/ LoginRefused(t) PROVE NoneTooOld' /\ Forward
  BY <1>0, <1>1, <1>2, <1>4 DEF NoneTooOld, Forward, CheckAuth, UserAnswered, LoginRefused
<1>5. ASSUME NEW t \in Tabs, LoginAnswered(t) PROVE NoneTooOld' /\ Forward
  <2>1. /\ joining # {} /\ joining' = joining \ {t} /\ issued' = issued + 1 /\ stored' = issued + 1
        /\ UNCHANGED refresh
    BY <1>5 DEF LoginAnswered
  <2> QED
    BY <1>0, <1>1, <1>2, <2>1 DEF NoneTooOld, Forward
<1>6. ASSUME NEW t \in Tabs, Logout(t) \/ Login(t) PROVE NoneTooOld' /\ Forward
  <2>1. RemoveToken(t) /\ issued' = issued /\ stored' = 0
    BY <1>6 DEF Logout, Login, RemoveToken
  <2>2. ASSUME NEW p \in Refreshes
        PROVE  /\ refresh'[p].pc = refresh[p].pc /\ refresh'[p].token = refresh[p].token
               /\ refresh[p].old => refresh'[p].old
               /\ p \in BusyOf(t) => refresh'[p].old
    BY <2>1, Outdated
  <2>3. ASSUME secure, ~crossed', joining' # {}, NEW p \in Refreshes
        PROVE  refresh'[p].pc = "free" \/ refresh'[p].old
    <3>1. CASE Logout(t)
      BY <1>2, <2>2, <2>3, <3>1 DEF Logout
    <3>2. CASE Login(t)
      <4>1. Busy = BusyOf(t)
        BY <2>3, <3>2 DEF Login
      <4> QED
        BY <2>2, <4>1 DEF Busy
    <3> QED
      BY <1>6, <3>1, <3>2
  <2> QED
    BY <1>0, <1>1, <2>1, <2>2, <2>3 DEF NoneTooOld, Forward
<1>7. ASSUME NEW t \in Tabs, Reload(t) PROVE NoneTooOld' /\ Forward
  <2>1. /\ \A p \in Refreshes : refresh'[p] = IF TabOf(p) = t THEN Idle ELSE refresh[p]
        /\ joining' \subseteq joining /\ UNCHANGED <<stored, issued>>
    BY <1>7 DEF Reload
  <2>2. Idle.pc = "free" /\ Idle.token = 0
    BY DEF Idle
  <2> QED
    BY <1>0, <1>1, <1>2, <2>1, <2>2 DEF NoneTooOld, Forward
<1>8. ASSUME NEW o \in Refreshes, Enter(o) \/ Serve(o) \/ Deliver(o) \/ Fail(o)
      PROVE  NoneTooOld' /\ Forward
  <2>1. UNCHANGED joining
    BY <1>8 DEF Enter, Serve, Deliver, Fail
  <2>2. CASE Settle(o) /\ UNCHANGED <<stored, issued>>
    BY <1>0, <1>1, <1>2, <2>1, <2>2, Settled DEF NoneTooOld, Forward
  <2>3. CASE Settle(o) /\ Deliver(o) /\ ~refresh[o].old /\ issued' = issued /\ stored' = refresh[o].token
    <3>1. /\ refresh'[o].pc = "free" /\ refresh'[o].token = 0
          /\ \A p \in Refreshes \ {o} : refresh'[p] = refresh[p]
      BY <2>3, Settled
    <3>2. refresh[o].pc = "answer"
      BY <2>3 DEF Deliver
    <3>3. secure => \A p \in Refreshes \ {o} : refresh[p].pc # "answer"
      BY <3>2 DEF LockTaken
    <3> QED
      BY <1>0, <1>1, <1>2, <2>1, <2>3, <3>1, <3>2, <3>3 DEF NoneTooOld, Forward
  <2>4. CASE Fail(o) /\ BeginAs(o, 2)
    <3>1. /\ refresh'[o].pc # "answer" /\ refresh'[o].token = 0
          /\ \A p \in Refreshes \ {o} : refresh'[p] = refresh[p]
          /\ ~crossed' => joining = {}
      BY <2>4, BegunAs
    <3>2. UNCHANGED <<stored, issued>>
      BY <2>4 DEF Fail
    <3> QED
      BY <1>0, <1>1, <1>2, <2>1, <3>1, <3>2 DEF NoneTooOld, Forward
  <2>5. CASE /\ \A p \in Refreshes \ {o} : refresh'[p] = refresh[p]
             /\ refresh'[o].old = refresh[o].old
             /\ Enter(o) /\ refresh'[o].pc = "post" /\ refresh'[o].token = refresh[o].token
    <3>1. UNCHANGED <<stored, issued>> /\ refresh[o].pc # "free"
      BY <2>5 DEF Enter
    <3> QED
      BY <1>0, <1>1, <1>2, <2>1, <2>5, <3>1 DEF NoneTooOld, Forward
  <2>6. CASE /\ \A p \in Refreshes \ {o} : refresh'[p] = refresh[p]
             /\ refresh'[o].old = refresh[o].old
             /\ Serve(o) /\ refresh'[o].pc = "answer" /\ refresh'[o].token = issued + 1
    <3>1. stored' = stored /\ issued' = issued + 1 /\ refresh[o].pc # "free"
      BY <2>6 DEF Serve
    <3> QED
      BY <1>0, <1>1, <1>2, <2>1, <2>6, <3>1 DEF NoneTooOld, Forward
  <2>7. CASE Settle(o) /\ ~Serve(o)
    BY <1>8, <2>2, <2>3, <2>7 DEF Enter, Deliver, Fail
  <2>8. Serve(o) => ~Settle(o)
    <3> SUFFICES ASSUME Serve(o), Settle(o) PROVE FALSE
      OBVIOUS
    <3>1. issued' = issued + 1 /\ refresh' = [refresh EXCEPT ![o].pc = "answer", ![o].token = issued + 1]
      BY DEF Serve
    <3>2. refresh'[o].pc = "answer"
      BY <3>1 DEF SessionInv, SessionTyped, Record
    <3> QED
      BY <3>2, Settled
  <2> QED
    BY <1>8, <2>4, <2>5, <2>6, <2>7, <2>8, Moved
<1>9. ASSUME NEW t \in Tabs, UserFailed(t) PROVE NoneTooOld' /\ Forward
  <2>1. issued' = issued /\ UNCHANGED joining
    BY <1>9 DEF UserFailed
  <2>2. CASE RemoveToken(t)
    <3>1. stored' = 0
      BY <2>2 DEF RemoveToken
    <3> QED
      BY <1>0, <1>1, <1>2, <2>1, <2>2, <3>1, Outdated DEF NoneTooOld, Forward
  <2>3. CASE UNCHANGED <<stored, refresh>>
    BY <1>0, <1>1, <1>2, <2>1, <2>3 DEF NoneTooOld, Forward
  <2> QED
    BY <1>9, <2>2, <2>3 DEF UserFailed
<1>10. CASE UNCHANGED vars
  BY <1>0, <1>1, <1>2, <1>10 DEF NoneTooOld, Forward, vars
<1> QED
  BY <1>3, <1>4, <1>5, <1>6, <1>7, <1>8, <1>9, <1>10 DEF Next

(* Under the lock an answer that comes late never puts an older token back *)
(* (auth.ts:101), for any number of tabs, refreshes and failures.          *)
THEOREM LateAnswersAreHarmless == Spec => StoredMovesForward
<1>1. SessionInv /\ LockTaken /\ NoneTooOld /\ [Next]_vars
        => [secure /\ ~crossed' => stored' = 0 \/ stored' >= stored]_vars
  BY ForwardStep DEF Forward
<1>2. Init /\ [][Next]_vars => [](SessionInv /\ LockTaken /\ NoneTooOld)
  BY SessionInitInv, SessionStep, LockInit, LockStep, ForwardStep, PTL
<1> QED
  BY <1>1, <1>2, PTL DEF Spec, StoredMovesForward

-----------------------------------------------------------------------------
(* The live feed.                                                          *)

Messages == {<<"auth", "good">>, <<"auth", "stale">>, <<"bye">>}
              \cup {<<"sub", e>> : e \in Events} \cup {<<"unsub", e>> : e \in Events}
Replies == {"success", "invalid_token", "auth_required", "bye"}

Ends == [client : {"none", "connecting", "open", "closing"}, server : {"none", "open", "closing"},
         known : BOOLEAN, subs : SUBSET Events, up : Seq(Messages), down : Seq(Replies)]
TabStates == [sock : Sockets \cup {NoSocket}, wanted : SUBSET Events, connected : BOOLEAN,
              authed : BOOLEAN, gone : BOOLEAN, timer : BOOLEAN, token : {"none", "good", "stale"}]

(* One connection: nothing has happened to it before it opens; while the   *)
(* client has it open nothing says goodbye, and a success under way is     *)
(* that of a server that knows the user; it subscribes nobody else.        *)
Sound(l) ==
  /\ l.client = "connecting" => l.server = "none" /\ l.up = <<>> /\ l.down = <<>> /\ ~l.known
  /\ l.client = "open" => /\ \A i \in 1..Len(l.up) : l.up[i] # <<"bye">>
                          /\ \A i \in 1..Len(l.down) : l.down[i] = "success" => l.known
  /\ l.known \/ l.subs = {}

(* The tab holds on to one connection at most, with no other closing, and  *)
(* will be subscribed there to no more than it has callbacks for, and to   *)
(* all of it once it counts as signed in.                                  *)
FeedSound ==
  /\ tab \in TabStates /\ link \in [Sockets -> Ends]
  /\ \A k \in Sockets :
       /\ Sound(link[k])
       /\ Held(link, k) => /\ k = tab.sock
                           /\ InTheEnd(k) \subseteq tab.wanted
                           /\ \A j \in Sockets : link[j].client # "closing"
  /\ tab.authed => /\ tab.sock \in Sockets /\ link[tab.sock].client = "open"
                   /\ link[tab.sock].known /\ InTheEnd(tab.sock) = tab.wanted

FeedInv == "late close" \notin spoilt => FeedSound

-----------------------------------------------------------------------------
(* The last word on each event.                                            *)

(* Nothing under way changes nothing.                                      *)
LEMMA HeardNothing ==
  ASSUME NEW subs \in SUBSET Events
  PROVE  Heard(subs, <<>>) = subs
BY DEF Heard, AskedFor, TakenBack

(* Of two parts of what is under way the later has the last word.          *)
LEMMA LastWord ==
  ASSUME NEW up \in Seq(Messages), NEW more \in Seq(Messages), NEW e
  PROVE  /\ AskedFor(up \o more, e) <=> AskedFor(more, e) \/ (AskedFor(up, e) /\ ~TakenBack(more, e))
         /\ TakenBack(up \o more, e) <=> TakenBack(up, e) \/ TakenBack(more, e)
<1> DEFINE all == up \o more
           n == Len(up)
<1>1. /\ Len(all) = n + Len(more) /\ n \in Nat /\ Len(more) \in Nat
      /\ \A i \in 1..n : all[i] = up[i]
      /\ \A i \in 1..Len(more) : all[n + i] = more[i]
  OBVIOUS
<1> HIDE DEF all, n
<1>2. \A i \in 1..Len(all) : i \notin 1..n => i - n \in 1..Len(more) /\ all[i] = more[i - n]
  <2> SUFFICES ASSUME NEW i \in 1..Len(all), i \notin 1..n
               PROVE  i - n \in 1..Len(more) /\ all[i] = more[i - n]
    OBVIOUS
  <2>1. i - n \in 1..Len(more) /\ n + (i - n) = i
    BY <1>1
  <2> QED
    BY <1>1, <2>1
<1>3. \A i \in 1..n : i \in 1..Len(all)
  BY <1>1
<1>4. \A i \in 1..Len(more) : n + i \in 1..Len(all) /\ n + i \notin 1..n
  BY <1>1
<1>5. TakenBack(all, e) <=> TakenBack(up, e) \/ TakenBack(more, e)
  <2>1. TakenBack(up, e) => TakenBack(all, e)
    BY <1>1, <1>3 DEF TakenBack, n
  <2>2. TakenBack(more, e) => TakenBack(all, e)
    BY <1>1, <1>4 DEF TakenBack
  <2>3. TakenBack(all, e) => TakenBack(up, e) \/ TakenBack(more, e)
    BY <1>1, <1>2 DEF TakenBack, n
  <2> QED
    BY <2>1, <2>2, <2>3
<1>6. ASSUME AskedFor(more, e) PROVE AskedFor(all, e)
  <2>1. PICK i \in 1..Len(more) : /\ more[i] = <<"sub", e>>
                                  /\ \A j \in 1..Len(more) : j > i => more[j] # <<"unsub", e>>
    BY <1>6 DEF AskedFor
  <2>2. n + i \in 1..Len(all) /\ all[n + i] = <<"sub", e>>
    BY <1>1, <1>4, <2>1
  <2>3. ASSUME NEW j \in 1..Len(all), j > n + i PROVE all[j] # <<"unsub", e>>
    <3>1. j \notin 1..n /\ j - n > i
      BY <1>1, <2>3
    <3> QED
      BY <1>2, <2>1, <3>1
  <2> QED
    BY <2>2, <2>3 DEF AskedFor
<1>7. ASSUME AskedFor(up, e), ~TakenBack(more, e) PROVE AskedFor(all, e)
  <2>1. PICK i \in 1..n : /\ up[i] = <<"sub", e>>
                          /\ \A j \in 1..n : j > i => up[j] # <<"unsub", e>>
    BY <1>7 DEF AskedFor, n
  <2>2. i \in 1..Len(all) /\ all[i] = <<"sub", e>>
    BY <1>1, <1>3, <2>1
  <2>3. ASSUME NEW j \in 1..Len(all), j > i PROVE all[j] # <<"unsub", e>>
    BY <1>1, <1>2, <1>7, <2>1, <2>3 DEF TakenBack
  <2> QED
    BY <2>2, <2>3 DEF AskedFor
<1>8. ASSUME AskedFor(all, e) PROVE AskedFor(more, e) \/ (AskedFor(up, e) /\ ~TakenBack(more, e))
  <2>1. PICK i \in 1..Len(all) : /\ all[i] = <<"sub", e>>
                                 /\ \A j \in 1..Len(all) : j > i => all[j] # <<"unsub", e>>
    BY <1>8 DEF AskedFor
  <2>2. CASE i \in 1..n
    <3>1. \A j \in 1..n : j > i => up[j] # <<"unsub", e>>
      BY <1>1, <1>3, <2>1
    <3>2. \A j \in 1..Len(more) : more[j] # <<"unsub", e>>
      BY <1>1, <1>4, <2>1, <2>2
    <3> QED
      BY <1>1, <2>1, <2>2, <3>1, <3>2 DEF AskedFor, TakenBack, n
  <2>3. CASE i \notin 1..n
    <3>1. i - n \in 1..Len(more) /\ more[i - n] = <<"sub", e>>
      BY <1>2, <2>1, <2>3
    <3>2. ASSUME NEW j \in 1..Len(more), j > i - n PROVE more[j] # <<"unsub", e>>
      <4>1. n + j \in 1..Len(all) /\ n + j > i
        BY <1>1, <1>4, <3>2
      <4> QED
        BY <1>1, <2>1, <4>1
    <3> QED
      BY <3>1, <3>2 DEF AskedFor
  <2> QED
    BY <2>2, <2>3
<1> QED
  BY <1>5, <1>6, <1>7, <1>8 DEF all

(* What is sent after the rest subscribes to what it names, if it takes    *)
(* nothing back.                                                           *)
LEMMA HeardAfter ==
  ASSUME NEW subs, NEW up \in Seq(Messages), NEW more \in Seq(Messages),
         \A e \in Events : ~TakenBack(more, e)
  PROVE  Heard(subs, up \o more) = Heard(subs, up) \cup {e \in Events : AskedFor(more, e)}
BY LastWord DEF Heard

(* An unsubscription sent after the rest has the last word on its event.   *)
LEMMA HeardUnsub ==
  ASSUME NEW subs, NEW up \in Seq(Messages), NEW e \in Events
  PROVE  Heard(subs, up \o <<<<"unsub", e>>>>) = Heard(subs, up) \ {e}
<1> DEFINE more == <<<<"unsub", e>>>>
<1>1. more \in Seq(Messages)
  BY DEF Messages
<1>2. \A x \in Events : ~AskedFor(more, x) /\ (TakenBack(more, x) <=> x = e)
  BY DEF AskedFor, TakenBack
<1> QED
  BY <1>1, <1>2, LastWord DEF Heard

(* A message that is heard does what it was going to do.                   *)
LEMMA HeardNext ==
  ASSUME NEW subs, NEW up \in Seq(Messages), up # <<>>
  PROVE  /\ \A e \in Events : Head(up) = <<"sub", e>> =>
              Heard(subs \cup {e}, Tail(up)) = Heard(subs, up)
         /\ \A e \in Events : Head(up) = <<"unsub", e>> =>
              Heard(subs \ {e}, Tail(up)) = Heard(subs, up)
         /\ (\A e \in Events : Head(up) # <<"sub", e>> /\ Head(up) # <<"unsub", e>>) =>
              Heard(subs, Tail(up)) = Heard(subs, up)
         /\ Heard({}, Tail(up)) \subseteq Heard({}, up)
<1> DEFINE m == Head(up)
<1>1. up = <<m>> \o Tail(up) /\ m \in Messages /\ <<m>> \in Seq(Messages) /\ Tail(up) \in Seq(Messages)
  OBVIOUS
<1>2. \A x \in Events : /\ AskedFor(<<m>>, x) <=> m = <<"sub", x>>
                        /\ TakenBack(<<m>>, x) <=> m = <<"unsub", x>>
  BY DEF AskedFor, TakenBack
<1> HIDE DEF m
<1>3. \A x \in Events :
        /\ AskedFor(up, x) <=> AskedFor(Tail(up), x) \/ (m = <<"sub", x>> /\ ~TakenBack(Tail(up), x))
        /\ TakenBack(up, x) <=> m = <<"unsub", x>> \/ TakenBack(Tail(up), x)
  <2> SUFFICES ASSUME NEW x \in Events
               PROVE  /\ AskedFor(up, x) <=>
                           AskedFor(Tail(up), x) \/ (m = <<"sub", x>> /\ ~TakenBack(Tail(up), x))
                      /\ TakenBack(up, x) <=> m = <<"unsub", x>> \/ TakenBack(Tail(up), x)
    OBVIOUS
  <2>1. /\ AskedFor(<<m>> \o Tail(up), x) <=>
             AskedFor(Tail(up), x) \/ (AskedFor(<<m>>, x) /\ ~TakenBack(Tail(up), x))
        /\ TakenBack(<<m>> \o Tail(up), x) <=> TakenBack(<<m>>, x) \/ TakenBack(Tail(up), x)
    BY <1>1, LastWord, Zenon
  <2> QED
    BY <1>1, <1>2, <2>1
<1> QED
  BY <1>3 DEF Heard, m

(* The subscriptions to a set of events, in some order.                    *)
LEMMA Resubscribing ==
  ASSUME NEW W \in SUBSET Events
  PROVE  /\ Subscriptions(W) \in Seq(Messages)
         /\ \A i \in 1..Len(Subscriptions(W)) : Subscriptions(W)[i] # <<"bye">>
         /\ \A e \in Events : /\ ~TakenBack(Subscriptions(W), e)
                              /\ AskedFor(Subscriptions(W), e) <=> e \in W
<1> DEFINE S == {<<"sub", e>> : e \in W}
           q == Subscriptions(W)
           n == Cardinality(S)
<1>1. IsFiniteSet(S)
  <2>1. IsFiniteSet(W)
    BY FeedAssumption, FS_Subset
  <2>2. [e \in W |-> <<"sub", e>>] \in Surjection(W, S)
    BY DEF Surjection
  <2> QED
    BY <2>1, <2>2, FS_Surjection
<1>2. n \in Nat /\ ExistsBijection(1..n, S)
  BY <1>1, FS_CardinalityType
<1>3. \E f \in [1..n -> S] : IsInjective(f)
  BY <1>2 DEF ExistsBijection, Bijection, Injection, IsInjective
<1>4. q \in [1..n -> S] /\ IsInjective(q)
  BY <1>3 DEF Subscriptions, SetToSeq
<1>5. q \in Surjection(1..n, S)
  <2>1. q \in Injection(1..n, S)
    BY <1>4 DEF Injection
  <2>2. Cardinality(1..n) = n
    BY <1>2, FS_Interval
  <2> QED
    BY <1>1, <2>1, <2>2, FS_Injection
<1> HIDE DEF q, n
<1>6. q \in Seq(Messages) /\ Len(q) = n
  <2>1. \A i \in 1..n : q[i] \in Messages
    BY <1>4 DEF Messages
  <2>2. q \in [1..n -> Messages]
    BY <1>4, <2>1
  <2> QED
    BY <1>2, <2>2
<1>7. \A i \in 1..n : \E e \in W : q[i] = <<"sub", e>>
  BY <1>4
<1>8. \A e \in W : \E i \in 1..n : q[i] = <<"sub", e>>
  BY <1>5 DEF Surjection
<1>9. \A e \in Events : ~TakenBack(q, e)
  BY <1>6, <1>7 DEF TakenBack
<1>10. \A e \in Events : AskedFor(q, e) <=> e \in W
  BY <1>6, <1>7, <1>8 DEF AskedFor
<1>11. \A i \in 1..n : q[i] # <<"bye">>
  BY <1>7
<1> QED
  BY <1>6, <1>9, <1>10, <1>11 DEF q

-----------------------------------------------------------------------------
(* The frame: what a step does to one connection.                          *)

LEMMA UnusedEnds == Unused \in Ends /\ Sound(Unused) /\ Unused.client = "none"
BY DEF Unused, Ends, Sound

LEMMA FeedInitInv == FeedInit => FeedInv
<1> SUFFICES ASSUME FeedInit PROVE FeedSound
  BY DEF FeedInv
<1>1. tab \in TabStates /\ ~tab.authed
  BY DEF FeedInit, TabStates
<1>2. link \in [Sockets -> Ends] /\ \A k \in Sockets : link[k] = Unused
  BY UnusedEnds DEF FeedInit
<1>3. \A k \in Sockets : Sound(link[k]) /\ ~Held(link, k)
  BY <1>2, UnusedEnds DEF Held
<1> QED
  BY <1>1, <1>2, <1>3 DEF FeedSound

(* The tab lets go: it holds no connection any more.                       *)
LEMMA LetGo ==
  ASSUME tab' \in TabStates, ~tab'.authed, link' \in [Sockets -> Ends],
         \A k \in Sockets : Sound(link'[k]) /\ ~Held(link', k)
  PROVE  FeedSound'
BY DEF FeedSound, Held

(* Something happens on connection k, and nothing on another: if the tab   *)
(* holds k it still will be subscribed to what it has callbacks for.       *)
LEMMA OnConnection ==
  ASSUME FeedSound, NEW k \in Sockets, NEW x \in Ends, link' = [link EXCEPT ![k] = x], Sound(x),
         tab' \in TabStates, tab'.sock = tab.sock,
         k # tab.sock => tab'.wanted = tab.wanted /\ tab'.authed = tab.authed,
         x.client \in {"connecting", "open"} =>
           Held(link, k) /\ Heard(x.subs, x.up) \subseteq tab'.wanted,
         x.client = "closing" => link[k].client = "closing",
         k = tab.sock /\ tab'.authed =>
           x.client = "open" /\ x.known /\ Heard(x.subs, x.up) = tab'.wanted
  PROVE  FeedSound'
<1>1. /\ link' \in [Sockets -> Ends] /\ link'[k] = x
      /\ \A j \in Sockets \ {k} : link'[j] = link[j]
  BY DEF FeedSound
<1>2. ASSUME NEW j \in Sockets
      PROVE  /\ Sound(link'[j])
             /\ Held(link', j) => /\ j = tab'.sock
                                  /\ Heard(link'[j].subs, link'[j].up) \subseteq tab'.wanted
                                  /\ \A i \in Sockets : link'[i].client # "closing"
  <2>1. CASE j = k
    BY <1>1, <2>1 DEF FeedSound, Held
  <2>2. CASE j # k
    BY <1>1, <2>2 DEF FeedSound, Held, InTheEnd
  <2> QED
    BY <2>1, <2>2
<1>3. ASSUME tab'.authed
      PROVE  /\ tab'.sock \in Sockets /\ link'[tab'.sock].client = "open"
             /\ link'[tab'.sock].known
             /\ Heard(link'[tab'.sock].subs, link'[tab'.sock].up) = tab'.wanted
  <2>1. CASE k = tab.sock
    BY <1>1, <1>3, <2>1
  <2>2. CASE k # tab.sock
    BY <1>1, <1>3, <2>2 DEF FeedSound, InTheEnd
  <2> QED
    BY <2>1, <2>2
<1> QED
  BY <1>1, <1>2, <1>3 DEF FeedSound, Held, InTheEnd

(* Closing the connection the tab holds leaves it none.                    *)
LEMMA CloseLetsGo ==
  ASSUME NEW l \in [Sockets -> Ends], NEW k \in Sockets \cup {NoSocket},
         \A j \in Sockets : Sound(l[j]) /\ (Held(l, j) => j = k)
  PROVE  /\ Close(l, k) \in [Sockets -> Ends]
         /\ \A j \in Sockets : Sound(Close(l, k)[j]) /\ ~Held(Close(l, k), j)
<1>1. CASE k = NoSocket
  BY <1>1, FeedAssumption DEF Close
<1>2. CASE k # NoSocket
  <2>1. k \in Sockets
    BY <1>2
  <2>2. PICK up : up = IF l[k].client = "open" THEN Append(l[k].up, <<"bye">>) ELSE l[k].up
    OBVIOUS
  <2>3. up \in Seq(Messages) /\ <<>> \in Seq(Replies)
    BY <2>1, <2>2 DEF Ends, Messages
  <2>4. PICK x \in Ends : x = [l[k] EXCEPT !.client = "closing", !.down = <<>>, !.up = up]
    BY <2>1, <2>3 DEF Ends
  <2>5. x.client = "closing" /\ x.known = l[k].known /\ x.subs = l[k].subs
    BY <2>1, <2>4 DEF Ends
  <2>6. Close(l, k) = [l EXCEPT ![k] = x]
    BY <1>2, <2>1, <2>2, <2>4 DEF Close
  <2>7. Sound(x)
    BY <2>1, <2>5 DEF Sound
  <2> QED
    BY <2>1, <2>5, <2>6, <2>7 DEF Held
<1> QED
  BY <1>1, <1>2

(* connect: the tab stays with the connection it has, or takes a new one.  *)
LEMMA ConnectKeeps ==
  ASSUME FeedSound, NEW c \in TabStates, c.sock = tab.sock, c.wanted = tab.wanted,
         c.authed = tab.authed, Connect(c), "late close" \notin spoilt'
  PROVE  FeedSound'
<1>1. CASE tab' = c /\ UNCHANGED link
  BY <1>1 DEF FeedSound, Held, InTheEnd
<1>2. ASSUME NEW k \in Sockets, ~Held(link, c.sock), link[k] = Unused,
             link' = [link EXCEPT ![k].client = "connecting"],
             tab' = [c EXCEPT !.sock = k, !.gone = FALSE, !.authed = FALSE],
             spoilt' = spoilt \cup {"late close" : i \in {j \in Sockets : link[j].client = "closing"}}
      PROVE  FeedSound'
  <2>1. \A j \in Sockets : link[j].client # "closing"
    BY <1>2
  <2>2. \A j \in Sockets : ~Held(link, j)
    BY <1>2 DEF FeedSound
  <2>3. PICK x \in Ends : x = [Unused EXCEPT !.client = "connecting"]
    BY UnusedEnds DEF Ends
  <2>4. x.client = "connecting" /\ x.server = "none" /\ x.subs = {} /\ x.up = <<>> /\ x.down = <<>> /\ ~x.known
    BY <2>3 DEF Unused
  <2>5. /\ link' \in [Sockets -> Ends] /\ link'[k] = x
        /\ \A j \in Sockets \ {k} : link'[j] = link[j]
    BY <1>2, <2>3 DEF FeedSound
  <2>6. tab' \in TabStates /\ tab'.sock = k /\ ~tab'.authed
    BY <1>2 DEF TabStates
  <2>7. Sound(x) /\ Heard(x.subs, x.up) = {}
    BY <2>4, HeardNothing DEF Sound
  <2>8. ASSUME NEW j \in Sockets
        PROVE  /\ Sound(link'[j])
               /\ Held(link', j) => /\ j = tab'.sock
                                    /\ Heard(link'[j].subs, link'[j].up) \subseteq tab'.wanted
                                    /\ \A i \in Sockets : link'[i].client # "closing"
    BY <2>1, <2>2, <2>4, <2>5, <2>6, <2>7 DEF Held, FeedSound
  <2> QED
    BY <2>5, <2>6, <2>8 DEF FeedSound, Held, InTheEnd
<1> QED
  BY <1>1, <1>2 DEF Connect

-----------------------------------------------------------------------------
(* The client's steps.                                                     *)

LEMMA MountKeeps ==
  ASSUME FeedSound, SignInAndMount \/ Reconnect, "late close" \notin spoilt'
  PROVE  FeedSound'
<1>1. tab \in TabStates
  BY DEF FeedSound
<1>2. CASE SignInAndMount
  <2>1. PICK c \in TabStates : c = [tab EXCEPT !.token = IF @ = "none" THEN "good" ELSE @]
    BY <1>1 DEF TabStates
  <2>2. c.sock = tab.sock /\ c.wanted = tab.wanted /\ c.authed = tab.authed /\ Connect(c)
    BY <1>1, <1>2, <2>1 DEF TabStates, SignInAndMount
  <2> QED
    BY <2>2, ConnectKeeps
<1>3. CASE Reconnect
  <2>1. PICK c \in TabStates : c = [tab EXCEPT !.timer = FALSE]
    BY <1>1 DEF TabStates
  <2>2. c.sock = tab.sock /\ c.wanted = tab.wanted /\ c.authed = tab.authed /\ Connect(c)
    BY <1>1, <1>3, <2>1 DEF TabStates, Reconnect
  <2> QED
    BY <2>2, ConnectKeeps
<1> QED
  BY <1>2, <1>3

LEMMA SignOutKeeps ==
  ASSUME FeedSound, SignOut
  PROVE  FeedSound'
<1>1. tab' \in TabStates /\ ~tab'.authed /\ link' = Close(link, tab.sock)
  BY DEF SignOut, FeedSound, TabStates
<1>2. /\ link \in [Sockets -> Ends] /\ tab.sock \in Sockets \cup {NoSocket}
      /\ \A j \in Sockets : Sound(link[j]) /\ (Held(link, j) => j = tab.sock)
  BY DEF FeedSound, TabStates
<1>3. /\ link' \in [Sockets -> Ends]
      /\ \A j \in Sockets : Sound(link'[j]) /\ ~Held(link', j)
  BY <1>1, <1>2, CloseLetsGo
<1> QED
  BY <1>1, <1>3, LetGo

LEMMA ExpireKeeps ==
  ASSUME FeedSound, Expire
  PROVE  FeedSound'
<1>1. /\ tab' \in TabStates /\ tab'.sock = tab.sock /\ tab'.wanted = tab.wanted
      /\ tab'.authed = tab.authed /\ link' = link
  BY DEF Expire, FeedSound, TabStates
<1> QED
  BY <1>1 DEF FeedSound, Held, InTheEnd

(* What is sent over the open connection of the tab.                       *)
LEMMA SendOpen ==
  ASSUME NEW l \in [Sockets -> Ends], NEW k \in Sockets, NEW msgs \in Seq(Messages),
         l[k].client = "open"
  PROVE  \E x \in Ends : /\ Send(l, k, msgs) = [l EXCEPT ![k] = x]
                         /\ x.client = "open" /\ x.known = l[k].known /\ x.subs = l[k].subs
                         /\ x.down = l[k].down /\ x.up = l[k].up \o msgs
<1>1. k # NoSocket
  BY FeedAssumption
<1>2. PICK x : x = [l[k] EXCEPT !.up = @ \o msgs]
  OBVIOUS
<1>3. l[k].up \o msgs \in Seq(Messages)
  BY DEF Ends
<1>4. x \in Ends
  BY <1>2, <1>3 DEF Ends
<1>5. /\ x.client = "open" /\ x.known = l[k].known /\ x.subs = l[k].subs
      /\ x.down = l[k].down /\ x.up = l[k].up \o msgs
  BY <1>2 DEF Ends
<1>6. Send(l, k, msgs) = [l EXCEPT ![k] = x]
  BY <1>1, <1>2 DEF Send
<1> QED
  BY <1>4, <1>5, <1>6

(* Anything but a goodbye may be sent over a sound connection.             *)
LEMMA SoundSend ==
  ASSUME NEW l \in Ends, NEW x \in Ends, Sound(l), l.client = "open", x.client = "open",
         x.known = l.known, x.subs = l.subs, x.down = l.down, NEW msgs \in Seq(Messages),
         x.up = l.up \o msgs, \A i \in 1..Len(msgs) : msgs[i] # <<"bye">>
  PROVE  Sound(x)
<1>1. PICK up : up = l.up
  OBVIOUS
<1>2. up \in Seq(Messages) /\ \A i \in 1..Len(up) : up[i] # <<"bye">>
  BY <1>1 DEF Ends, Sound
<1>3. /\ Len(up \o msgs) = Len(up) + Len(msgs) /\ Len(up) \in Nat /\ Len(msgs) \in Nat
      /\ \A j \in 1..Len(up) : (up \o msgs)[j] = up[j]
      /\ \A j \in 1..Len(msgs) : (up \o msgs)[Len(up) + j] = msgs[j]
  BY <1>2
<1>4. ASSUME NEW i \in 1..Len(up \o msgs) PROVE (up \o msgs)[i] # <<"bye">>
  <2>1. CASE i \in 1..Len(up)
    BY <1>2, <1>3, <2>1
  <2>2. CASE i \notin 1..Len(up)
    <3>1. i - Len(up) \in 1..Len(msgs) /\ Len(up) + (i - Len(up)) = i
      BY <1>3, <2>2
    <3> QED
      BY <1>3, <3>1
  <2> QED
    BY <2>1, <2>2
<1> QED
  BY <1>1, <1>4 DEF Sound

LEMMA SubscribeKeeps ==
  ASSUME FeedSound, Subscribe
  PROVE  FeedSound'
<1>1. PICK e \in Events :
        /\ tab' = [tab EXCEPT !.wanted = @ \cup {e}]
        /\ link' = IF tab.authed THEN Send(link, tab.sock, <<<<"sub", e>>>>) ELSE link
  BY DEF Subscribe
<1>2. /\ tab \in TabStates /\ tab' \in TabStates /\ tab'.sock = tab.sock
      /\ tab'.wanted = tab.wanted \cup {e} /\ tab'.authed = tab.authed
  BY <1>1 DEF FeedSound, TabStates
<1>3. CASE ~tab.authed
  BY <1>1, <1>2, <1>3 DEF FeedSound, Held, InTheEnd
<1>4. CASE tab.authed
  <2> DEFINE k == tab.sock
             msgs == <<<<"sub", e>>>>
  <2>1. /\ k \in Sockets /\ link \in [Sockets -> Ends] /\ link[k].client = "open" /\ link[k].known
        /\ Sound(link[k]) /\ Heard(link[k].subs, link[k].up) = tab.wanted
    BY <1>4 DEF FeedSound, InTheEnd
  <2>2. msgs \in Seq(Messages) /\ \A i \in 1..Len(msgs) : msgs[i] # <<"bye">>
    BY DEF Messages
  <2>3. PICK x \in Ends : /\ Send(link, k, msgs) = [link EXCEPT ![k] = x]
                          /\ x.client = "open" /\ x.known = link[k].known /\ x.subs = link[k].subs
                          /\ x.down = link[k].down /\ x.up = link[k].up \o msgs
    BY <2>1, <2>2, SendOpen
  <2>4. Sound(x)
    BY <2>1, <2>2, <2>3, SoundSend
  <2>5. \A y \in Events : ~TakenBack(msgs, y) /\ (AskedFor(msgs, y) <=> y = e)
    BY DEF AskedFor, TakenBack
  <2> HIDE DEF msgs
  <2>6. Heard(x.subs, x.up) = tab.wanted \cup {e}
    <3>1. link[k].up \in Seq(Messages)
      BY <2>1 DEF Ends
    <3>2. Heard(link[k].subs, link[k].up \o msgs)
            = Heard(link[k].subs, link[k].up) \cup {y \in Events : AskedFor(msgs, y)}
      BY <2>2, <2>5, <3>1, HeardAfter
    <3>3. {y \in Events : AskedFor(msgs, y)} = {e}
      BY <2>5
    <3> QED
      BY <2>1, <2>3, <3>2, <3>3
  <2>7. link' = [link EXCEPT ![k] = x] /\ Held(link, k)
    BY <1>1, <1>4, <2>1, <2>3, FeedAssumption DEF msgs, Held
  <2> QED
    BY <1>2, <2>1, <2>3, <2>4, <2>6, <2>7, OnConnection
<1> QED
  BY <1>3, <1>4

LEMMA UnsubscribeKeeps ==
  ASSUME FeedSound, Unsubscribe
  PROVE  FeedSound'
<1> DEFINE k == tab.sock
<1>1. PICK e \in Events :
        /\ tab' = [tab EXCEPT !.wanted = @ \ {e}]
        /\ link' = Send(link, k, <<<<"unsub", e>>>>)
  BY DEF Unsubscribe, FeedSound, TabStates
<1>2. /\ tab \in TabStates /\ tab' \in TabStates /\ tab'.sock = tab.sock
      /\ tab'.wanted = tab.wanted \ {e} /\ tab'.authed = tab.authed
      /\ link \in [Sockets -> Ends]
  BY <1>1 DEF FeedSound, TabStates
<1>3. CASE k = NoSocket \/ link[k].client # "open"
  <2>1. link' = link /\ ~tab.authed
    BY <1>1, <1>3, FeedAssumption DEF Send, FeedSound
  <2>2. \A j \in Sockets : Held(link, j) => InTheEnd(j) = {}
    <3> SUFFICES ASSUME NEW j \in Sockets, Held(link, j) PROVE InTheEnd(j) = {}
      OBVIOUS
    <3>1. link[j].client = "connecting" /\ Sound(link[j])
      BY <1>3 DEF FeedSound, Held
    <3>2. link[j].subs = {} /\ link[j].up = <<>>
      BY <3>1 DEF Sound
    <3> QED
      BY <3>2, HeardNothing DEF InTheEnd
  <2> QED
    BY <1>2, <2>1, <2>2 DEF FeedSound, Held, InTheEnd
<1>4. CASE k # NoSocket /\ link[k].client = "open"
  <2> DEFINE msgs == <<<<"unsub", e>>>>
  <2>1. k \in Sockets /\ Held(link, k) /\ Sound(link[k]) /\ link[k] \in Ends
    BY <1>2, <1>4 DEF FeedSound, TabStates, Held
  <2>2. msgs \in Seq(Messages) /\ \A i \in 1..Len(msgs) : msgs[i] # <<"bye">>
    BY DEF Messages
  <2>3. PICK x \in Ends : /\ Send(link, k, msgs) = [link EXCEPT ![k] = x]
                          /\ x.client = "open" /\ x.known = link[k].known /\ x.subs = link[k].subs
                          /\ x.down = link[k].down /\ x.up = link[k].up \o msgs
    BY <1>2, <1>4, <2>1, <2>2, SendOpen
  <2>4. Sound(x)
    BY <1>4, <2>1, <2>2, <2>3, SoundSend
  <2>5. Heard(x.subs, x.up) = Heard(link[k].subs, link[k].up) \ {e}
    <3>1. link[k].up \in Seq(Messages)
      BY <2>1 DEF Ends
    <3>2. Heard(link[k].subs, link[k].up \o msgs) = Heard(link[k].subs, link[k].up) \ {e}
      BY <3>1, HeardUnsub
    <3> QED
      BY <2>3, <3>2
  <2>6. /\ Heard(link[k].subs, link[k].up) \subseteq tab.wanted
        /\ tab.authed => link[k].known /\ Heard(link[k].subs, link[k].up) = tab.wanted
    BY <2>1 DEF FeedSound, InTheEnd
  <2>7. link' = [link EXCEPT ![k] = x]
    BY <1>1, <2>3
  <2> QED
    BY <1>2, <2>1, <2>3, <2>4, <2>5, <2>6, <2>7, OnConnection
<1> QED
  BY <1>3, <1>4

LEMMA OpenKeeps ==
  ASSUME FeedSound, NEW k \in Sockets, Open(k)
  PROVE  FeedSound'
<1> DEFINE l == [link EXCEPT ![k].client = "open", ![k].server = "open"]
<1>1. /\ link[k].client = "connecting" /\ tab' = [tab EXCEPT !.connected = TRUE]
      /\ link' = Send(l, tab.sock, Auth)
  BY DEF Open
<1>2. /\ link \in [Sockets -> Ends] /\ Held(link, k) /\ k = tab.sock /\ Sound(link[k])
      /\ ~tab.authed /\ tab \in TabStates
  BY <1>1, FeedAssumption DEF FeedSound, Held
<1>3. /\ tab' \in TabStates /\ tab'.sock = tab.sock /\ tab'.wanted = tab.wanted
      /\ tab'.authed = tab.authed
  BY <1>1, <1>2 DEF TabStates
<1>4. PICK y \in Ends : y = [link[k] EXCEPT !.client = "open", !.server = "open"]
  BY <1>2 DEF Ends
<1>5. /\ y.client = "open" /\ ~y.known /\ y.subs = {} /\ y.up = <<>> /\ y.down = <<>>
  BY <1>1, <1>2, <1>4 DEF Ends, Sound
<1>6. l \in [Sockets -> Ends] /\ l[k] = y /\ l = [link EXCEPT ![k] = y]
  BY <1>2, <1>4
<1>7. /\ Auth \in Seq(Messages) /\ \A i \in 1..Len(Auth) : Auth[i] # <<"bye">>
      /\ \A e \in Events : ~TakenBack(Auth, e) /\ ~AskedFor(Auth, e)
  <2>1. Auth = <<>> \/ Auth = <<<<"auth", "good">>>> \/ Auth = <<<<"auth", "stale">>>>
    BY <1>2 DEF Auth, TabStates
  <2>2. \A w \in {"good", "stale"} : <<<<"auth", w>>>> \in Seq(Messages)
    BY DEF Messages
  <2>3. Auth \in Seq(Messages)
    <3>1. CASE Auth = <<>>
      BY <3>1
    <3>2. CASE Auth = <<<<"auth", "good">>>>
      BY <2>2, <3>2, Zenon
    <3>3. CASE Auth = <<<<"auth", "stale">>>>
      BY <2>2, <3>3, Zenon
    <3> QED
      BY <2>1, <3>1, <3>2, <3>3
  <2>4. \A i \in 1..Len(Auth) : Auth[i] = <<"auth", "good">> \/ Auth[i] = <<"auth", "stale">>
    BY <2>1
  <2> QED
    BY <2>3, <2>4 DEF TakenBack, AskedFor
<1> HIDE DEF l
<1>8. PICK x \in Ends : /\ Send(l, k, Auth) = [l EXCEPT ![k] = x]
                        /\ x.client = "open" /\ x.known = l[k].known /\ x.subs = l[k].subs
                        /\ x.down = l[k].down /\ x.up = l[k].up \o Auth
  BY <1>5, <1>6, <1>7, SendOpen
<1>9. Sound(x)
  <2>1. Sound(y)
    BY <1>5 DEF Sound
  <2> QED
    BY <1>5, <1>6, <1>7, <1>8, <2>1, SoundSend
<1>10. Heard(x.subs, x.up) = {}
  <2>0. y.up \in Seq(Messages) /\ \A e \in Events : ~TakenBack(Auth, e)
    BY <1>5, <1>7
  <2>1. Heard(y.subs, y.up \o Auth) = Heard(y.subs, y.up) \cup {e \in Events : AskedFor(Auth, e)}
    BY <1>7, <2>0, HeardAfter
  <2>2. Heard(y.subs, y.up) = {}
    BY <1>5, HeardNothing
  <2> QED
    BY <1>6, <1>7, <1>8, <2>1, <2>2
<1>11. link' = [link EXCEPT ![k] = x]
  BY <1>1, <1>2, <1>6, <1>8
<1> QED
  BY <1>2, <1>3, <1>8, <1>9, <1>10, <1>11, OnConnection

(* A message the client takes comes over the one connection it has open.   *)
LEMMA TakenMessage ==
  ASSUME FeedSound, NEW k \in Sockets, NEW m, Message(k, m)
  PROVE  /\ k = tab.sock /\ Held(link, k) /\ Sound(link[k]) /\ link[k] \in Ends
         /\ \E y \in Ends : /\ Taken(k) = [link EXCEPT ![k] = y] /\ Sound(y) /\ y.client = "open"
                            /\ y.known = link[k].known /\ y.subs = link[k].subs
                            /\ y.up = link[k].up
         /\ m = "success" => link[k].known
<1>1. /\ link[k].client = "open" /\ link[k].down # <<>> /\ Head(link[k].down) = m
      /\ link[k] \in Ends /\ Sound(link[k]) /\ link \in [Sockets -> Ends]
  BY DEF Message, FeedSound
<1>2. Held(link, k) /\ k = tab.sock
  BY <1>1, FeedAssumption DEF Held, FeedSound
<1>0. Tail(link[k].down) \in Seq(Replies)
  <2>1. link[k].down \in Seq(Replies)
    BY <1>1 DEF Ends
  <2> QED
    BY <1>1, <2>1
<1>3. PICK y \in Ends : y = [link[k] EXCEPT !.down = Tail(@)]
  BY <1>0, <1>1 DEF Ends
<1>4. /\ y.client = "open" /\ y.known = link[k].known /\ y.subs = link[k].subs
      /\ y.up = link[k].up /\ y.down = Tail(link[k].down)
  BY <1>1, <1>3 DEF Ends
<1>5. link[k].down \in Seq(Replies)
  BY <1>1 DEF Ends
<1>6. \A i \in 1..Len(y.down) : i + 1 \in 1..Len(link[k].down) /\ y.down[i] = link[k].down[i + 1]
  BY <1>1, <1>4, <1>5
<1>7. Sound(y)
  BY <1>1, <1>4, <1>6 DEF Sound
<1>8. m = "success" => link[k].known
  BY <1>1, <1>5 DEF Sound
<1>9. Taken(k) = [link EXCEPT ![k] = y]
  BY <1>3 DEF Taken
<1> QED
  BY <1>1, <1>2, <1>4, <1>7, <1>8, <1>9

LEMMA SignedInKeeps ==
  ASSUME FeedSound, NEW k \in Sockets, SignedIn(k)
  PROVE  FeedSound'
<1> DEFINE l == Taken(k)
           msgs == Subscriptions(tab.wanted)
<1>1. /\ Message(k, "success") /\ tab' = [tab EXCEPT !.authed = TRUE]
      /\ link' = Send(l, tab.sock, msgs)
  BY DEF SignedIn
<1>2. k = tab.sock /\ Held(link, k) /\ Sound(link[k]) /\ link[k] \in Ends /\ link[k].known
  BY <1>1, TakenMessage
<1>3. /\ tab \in TabStates /\ tab' \in TabStates /\ tab'.sock = tab.sock
      /\ tab'.wanted = tab.wanted /\ link \in [Sockets -> Ends]
  BY <1>1 DEF FeedSound, TabStates
<1>4. PICK y \in Ends : /\ l = [link EXCEPT ![k] = y] /\ Sound(y) /\ y.client = "open"
                        /\ y.known = link[k].known /\ y.subs = link[k].subs
                        /\ y.up = link[k].up
  BY <1>1, TakenMessage
<1>5. l \in [Sockets -> Ends] /\ l[k] = y
  BY <1>3, <1>4
<1>6. tab.wanted \in SUBSET Events
  BY <1>3 DEF TabStates
<1>7. /\ msgs \in Seq(Messages) /\ \A i \in 1..Len(msgs) : msgs[i] # <<"bye">>
      /\ \A e \in Events : ~TakenBack(msgs, e) /\ (AskedFor(msgs, e) <=> e \in tab.wanted)
  BY <1>6, Resubscribing
<1> HIDE DEF l, msgs
<1>8. PICK x \in Ends : /\ Send(l, k, msgs) = [l EXCEPT ![k] = x]
                        /\ x.client = "open" /\ x.known = l[k].known /\ x.subs = l[k].subs
                        /\ x.down = l[k].down /\ x.up = l[k].up \o msgs
  BY <1>4, <1>5, <1>7, SendOpen
<1>9. Sound(x)
  BY <1>4, <1>5, <1>7, <1>8, SoundSend
<1>10. Heard(x.subs, x.up) = tab.wanted
  <2>1. y.up \in Seq(Messages)
    BY DEF Ends
  <2>0. \A e \in Events : ~TakenBack(msgs, e)
    BY <1>7
  <2>2. Heard(y.subs, y.up \o msgs) = Heard(y.subs, y.up) \cup {e \in Events : AskedFor(msgs, e)}
    <3>1. msgs \in Seq(Messages)
      BY <1>7
    <3> QED
      BY <2>0, <2>1, <3>1, HeardAfter
  <2>3. {e \in Events : AskedFor(msgs, e)} = tab.wanted
    BY <1>6, <1>7
  <2>4. Heard(y.subs, y.up) \subseteq tab.wanted
    BY <1>2, <1>4 DEF FeedSound, InTheEnd
  <2> QED
    BY <1>5, <1>8, <2>2, <2>3, <2>4
<1>11. link' = [link EXCEPT ![k] = x]
  BY <1>1, <1>2, <1>3, <1>4, <1>8
<1>12. x.known
  BY <1>2, <1>4, <1>5, <1>8
<1>13. tab'.sock = tab.sock /\ k = tab.sock /\ Heard(x.subs, x.up) \subseteq tab'.wanted
  BY <1>2, <1>3, <1>10
<1>14. Heard(x.subs, x.up) = tab'.wanted /\ Held(link, k) /\ tab' \in TabStates
  BY <1>2, <1>3, <1>10
<1> HIDE DEF l, msgs
<1> QED
  BY <1>8, <1>9, <1>11, <1>12, <1>13, <1>14, OnConnection


(* A refusal is heard of on the one connection, which the tab then closes. *)
LEMMA RefusedKeeps ==
  ASSUME FeedSound, NEW k \in Sockets, Refused(k)
  PROVE  FeedSound'
<1>1. PICK m : Message(k, m)
  BY DEF Refused
<1>2. PICK y \in Ends : /\ Taken(k) = [link EXCEPT ![k] = y] /\ Sound(y) /\ y.client = "open"
                        /\ k = tab.sock
  BY <1>1, TakenMessage
<1>3. /\ tab' \in TabStates /\ ~tab'.authed /\ link' = Close(Taken(k), tab.sock)
  BY DEF Refused, FeedSound, TabStates
<1>4. /\ Taken(k) \in [Sockets -> Ends] /\ tab.sock \in Sockets \cup {NoSocket}
      /\ \A j \in Sockets : Sound(Taken(k)[j]) /\ (Held(Taken(k), j) => j = tab.sock)
  BY <1>2 DEF FeedSound, TabStates, Held
<1>5. /\ link' \in [Sockets -> Ends]
      /\ \A j \in Sockets : Sound(link'[j]) /\ ~Held(link', j)
  BY <1>3, <1>4, CloseLetsGo
<1> QED
  BY <1>3, <1>5, LetGo

(* Whichever connection has ended, the tab holds none afterwards: it was   *)
(* the one it held, or it was closing and the tab held none.               *)
LEMMA OnCloseKeeps ==
  ASSUME FeedSound, NEW k \in Sockets, OnClose(k), link[k].client # "none"
  PROVE  FeedSound'
<1>1. tab' \in TabStates /\ ~tab'.authed
  BY DEF OnClose, FeedSound, TabStates
<1>2. /\ link' \in [Sockets -> Ends] /\ link'[k] = Unused
      /\ \A j \in Sockets \ {k} : link'[j] = link[j]
  BY UnusedEnds DEF OnClose, FeedSound
<1>3. link[k].client = "closing" \/ Held(link, k)
  BY FeedAssumption DEF FeedSound, Ends, Held
<1>4. ASSUME NEW j \in Sockets \ {k} PROVE ~Held(link, j)
  BY <1>3, <1>4 DEF FeedSound
<1>5. \A j \in Sockets : Sound(link'[j]) /\ ~Held(link', j)
  BY <1>2, <1>4, UnusedEnds DEF FeedSound, Held
<1> QED
  BY <1>1, <1>2, <1>5, LetGo

-----------------------------------------------------------------------------
(* The server's steps.                                                     *)

(* The server takes the next message of a connection: what the client will *)
(* be subscribed to in the end it does not change.                         *)
LEMMA HearKeeps ==
  ASSUME FeedSound, NEW k \in Sockets, Hear(k)
  PROVE  FeedSound'
<1> DEFINE c == link[k]
           m == Head(c.up)
<1>1. /\ c \in Ends /\ Sound(c) /\ link \in [Sockets -> Ends] /\ tab \in TabStates /\ tab' = tab
      /\ c.server = "open" /\ c.up # <<>>
  BY DEF Hear, FeedSound
<1>2. c.up \in Seq(Messages) /\ c.down \in Seq(Replies) /\ c.subs \in SUBSET Events
  BY <1>1 DEF Ends
<1>3. /\ m \in Messages /\ Tail(c.up) \in Seq(Messages)
      /\ Len(c.up) \in Nat /\ 1 \in 1..Len(c.up)
      /\ \A i \in 1..Len(Tail(c.up)) : i + 1 \in 1..Len(c.up) /\ Tail(c.up)[i] = c.up[i + 1]
      /\ m = c.up[1]
  BY <1>1, <1>2
<1>4. c.client # "connecting"
  BY <1>1 DEF Sound
<1>5. ASSUME NEW x \in Ends, NEW more \in Seq(Replies), link' = [link EXCEPT ![k] = x],
             x.client = c.client, x.up = Tail(c.up), x.down = c.down \o more,
             c.client = "open" /\ c.known => x.known,
             x.known \/ x.subs = {},
             \A i \in 1..Len(more) : more[i] = "success" => x.known,
             c.client = "open" => Heard(x.subs, Tail(c.up)) \subseteq Heard(c.subs, c.up),
             c.client = "open" /\ c.known => Heard(x.subs, Tail(c.up)) = Heard(c.subs, c.up)
      PROVE  FeedSound'
  <2>4. Sound(x)
    <3>1. ASSUME c.client = "open" PROVE \A i \in 1..Len(x.up) : x.up[i] # <<"bye">>
      BY <1>1, <1>3, <1>5, <3>1 DEF Sound
    <3>2. ASSUME c.client = "open", NEW i \in 1..Len(x.down), x.down[i] = "success" PROVE x.known
      <4>1. /\ Len(c.down \o more) = Len(c.down) + Len(more) /\ Len(c.down) \in Nat /\ Len(more) \in Nat
            /\ \A j \in 1..Len(c.down) : (c.down \o more)[j] = c.down[j]
            /\ \A j \in 1..Len(more) : (c.down \o more)[Len(c.down) + j] = more[j]
        <5>1. PICK d \in Seq(Replies) : d = c.down
          BY <1>2
        <5>2. /\ Len(d \o more) = Len(d) + Len(more) /\ Len(d) \in Nat /\ Len(more) \in Nat
              /\ \A j \in 1..Len(d) : (d \o more)[j] = d[j]
              /\ \A j \in 1..Len(more) : (d \o more)[Len(d) + j] = more[j]
          BY <1>5
        <5> QED
          BY <5>1, <5>2
      <4>2. CASE i \in 1..Len(c.down)
        BY <1>1, <1>5, <3>2, <4>1, <4>2 DEF Sound
      <4>3. CASE i \notin 1..Len(c.down)
        <5>1. i - Len(c.down) \in 1..Len(more) /\ Len(c.down) + (i - Len(c.down)) = i
          BY <1>5, <3>2, <4>1, <4>3
        <5> QED
          BY <1>5, <3>2, <4>1, <5>1
      <4> QED
        BY <4>2, <4>3
    <3> QED
      BY <1>4, <1>5, <3>1, <3>2 DEF Sound
  <2>5. /\ x.client \in {"connecting", "open"} => Held(link, k) /\ Heard(x.subs, x.up) \subseteq tab'.wanted
        /\ k = tab.sock /\ tab'.authed => x.client = "open" /\ x.known /\ Heard(x.subs, x.up) = tab'.wanted
    <3>1. c.client = "open" => Held(link, k)
      BY FeedAssumption DEF Held
    <3> QED
      BY <1>1, <1>4, <1>5, <3>1 DEF FeedSound, InTheEnd
  <2>6. link' = [link EXCEPT ![k] = x] /\ (x.client = "closing" => c.client = "closing")
    BY <1>5
  <2> QED
    BY <1>1, <2>4, <2>5, <2>6, OnConnection
<1>6. \A e \in Events : /\ m = <<"sub", e>> => Heard(c.subs \cup {e}, Tail(c.up)) = Heard(c.subs, c.up)
                        /\ m = <<"unsub", e>> => Heard(c.subs \ {e}, Tail(c.up)) = Heard(c.subs, c.up)
  BY <1>1, <1>2, HeardNext
<1>7. (\A e \in Events : m # <<"sub", e>> /\ m # <<"unsub", e>>) => Heard(c.subs, Tail(c.up)) = Heard(c.subs, c.up)
  BY <1>1, <1>2, HeardNext
<1>0. \A more : Answer(k, more) = [link EXCEPT ![k] = [[c EXCEPT !.up = Tail(@)] EXCEPT !.down = @ \o more]]
  BY <1>1 DEF Answer, Ends
<1>8. \A a, b : /\ [link EXCEPT ![k] = a][k] = a
                /\ [[link EXCEPT ![k] = a] EXCEPT ![k] = b] = [link EXCEPT ![k] = b]
  BY <1>1
<1>9. \A more \in Seq(Replies) : c.down \o more \in Seq(Replies)
  BY <1>2
<1>10. Heard({}, Tail(c.up)) \subseteq Heard({}, c.up)
  BY <1>1, <1>2, HeardNext
<1> HIDE DEF m
<1>11. CASE /\ m[1] = "auth" /\ m[2] = "good"
            /\ link' = [Answer(k, <<"success">>) EXCEPT ![k].known = TRUE]
  <2>1. PICK more \in Seq(Replies) : more = <<"success">>
    <3>1. <<"success">> \in Seq(Replies)
      BY DEF Replies
    <3> QED
      BY <3>1
  <2>2. link' = [link EXCEPT ![k] = [[[c EXCEPT !.up = Tail(@)] EXCEPT !.down = @ \o more] EXCEPT !.known = TRUE]]
    <3>1. PICK a : a = [[c EXCEPT !.up = Tail(@)] EXCEPT !.down = @ \o more]
      OBVIOUS
    <3>2. Answer(k, more) = [link EXCEPT ![k] = a]
      BY <1>0, <3>1
    <3>3. link' = [link EXCEPT ![k] = [a EXCEPT !.known = TRUE]]
      BY <1>8, <1>11, <2>1, <3>2
    <3> QED
      BY <3>1, <3>3
  <2>3. PICK x \in Ends : x = [[[c EXCEPT !.up = Tail(@)] EXCEPT !.down = @ \o more] EXCEPT !.known = TRUE]
    BY <1>1, <1>2, <1>3, <1>9, <2>1 DEF Ends
  <2>4. /\ x.client = c.client /\ x.up = Tail(c.up) /\ x.down = c.down \o more
        /\ x.known /\ x.subs = c.subs
    BY <1>1, <2>3 DEF Ends
  <2>5. Heard(c.subs, Tail(c.up)) = Heard(c.subs, c.up)
    BY <1>7, <1>11
  <2> QED
    BY <1>5, <2>2, <2>3, <2>4, <2>5
<1>12. CASE /\ m[1] = "auth" /\ m[2] = "stale"
            /\ link' = [Answer(k, <<"invalid_token", "bye">>) EXCEPT ![k].server = "closing"]
  <2>1. PICK more \in Seq(Replies) : more = <<"invalid_token", "bye">>
    <3>1. <<"invalid_token", "bye">> \in Seq(Replies)
      BY DEF Replies
    <3> QED
      BY <3>1
  <2>2. link' = [link EXCEPT ![k] = [[[c EXCEPT !.up = Tail(@)] EXCEPT !.down = @ \o more] EXCEPT !.server = "closing"]]
    <3>1. PICK a : a = [[c EXCEPT !.up = Tail(@)] EXCEPT !.down = @ \o more]
      OBVIOUS
    <3>2. Answer(k, more) = [link EXCEPT ![k] = a]
      BY <1>0, <3>1
    <3>3. link' = [link EXCEPT ![k] = [a EXCEPT !.server = "closing"]]
      BY <1>8, <1>12, <2>1, <3>2
    <3> QED
      BY <3>1, <3>3
  <2>3. PICK x \in Ends : x = [[[c EXCEPT !.up = Tail(@)] EXCEPT !.down = @ \o more] EXCEPT !.server = "closing"]
    BY <1>1, <1>2, <1>3, <1>9, <2>1 DEF Ends
  <2>4. /\ x.client = c.client /\ x.up = Tail(c.up) /\ x.down = c.down \o more
        /\ x.known = c.known /\ x.subs = c.subs
    BY <1>1, <2>3 DEF Ends
  <2>5. Heard(c.subs, Tail(c.up)) = Heard(c.subs, c.up)
    BY <1>7, <1>12
  <2>6. \A i \in 1..Len(more) : more[i] # "success"
    BY <2>1
  <2>7. c.known \/ c.subs = {}
    BY <1>1 DEF Sound
  <2> QED
    BY <1>5, <2>2, <2>3, <2>4, <2>5, <2>6, <2>7
<1>13. CASE ~c.known /\ link' = Answer(k, <<"auth_required">>)
  <2>1. PICK more \in Seq(Replies) : more = <<"auth_required">>
    <3>1. <<"auth_required">> \in Seq(Replies)
      BY DEF Replies
    <3> QED
      BY <3>1
  <2>2. link' = [link EXCEPT ![k] = [[c EXCEPT !.up = Tail(@)] EXCEPT !.down = @ \o more]]
    <3>1. PICK a : a = [[c EXCEPT !.up = Tail(@)] EXCEPT !.down = @ \o more]
      OBVIOUS
    <3>2. Answer(k, more) = [link EXCEPT ![k] = a]
      BY <1>0, <3>1
    <3> QED
      BY <1>13, <2>1, <3>1, <3>2
  <2>3. PICK x \in Ends : x = [[c EXCEPT !.up = Tail(@)] EXCEPT !.down = @ \o more]
    BY <1>1, <1>2, <1>3, <1>9, <2>1 DEF Ends
  <2>4. /\ x.client = c.client /\ x.up = Tail(c.up) /\ x.down = c.down \o more
        /\ x.known = c.known /\ x.subs = c.subs
    BY <1>1, <2>3 DEF Ends
  <2>5. c.subs = {}
    BY <1>1, <1>13 DEF Sound
  <2>6. \A i \in 1..Len(more) : more[i] # "success"
    BY <2>1
  <2> QED
    BY <1>5, <1>10, <1>13, <2>2, <2>3, <2>4, <2>5, <2>6
<1>14. CASE /\ m[1] = "sub" /\ c.known
            /\ link' = [Answer(k, <<>>) EXCEPT ![k].subs = @ \cup {m[2]}]
  <2>1. PICK more \in Seq(Replies) : more = <<>>
    <3>1. <<>> \in Seq(Replies)
      BY DEF Replies
    <3> QED
      BY <3>1
  <2>0. m[2] \in Events /\ m = <<"sub", m[2]>>
    BY <1>3, <1>14 DEF Messages
  <2>2. link' = [link EXCEPT ![k] = [[[c EXCEPT !.up = Tail(@)] EXCEPT !.down = @ \o more] EXCEPT !.subs = @ \cup {m[2]}]]
    <3>1. PICK a : a = [[c EXCEPT !.up = Tail(@)] EXCEPT !.down = @ \o more]
      OBVIOUS
    <3>2. Answer(k, more) = [link EXCEPT ![k] = a]
      BY <1>0, <3>1
    <3>3. link' = [link EXCEPT ![k] = [a EXCEPT !.subs = @ \cup {m[2]}]]
      BY <1>8, <1>14, <2>1, <3>2
    <3> QED
      BY <3>1, <3>3
  <2>3. PICK x \in Ends : x = [[[c EXCEPT !.up = Tail(@)] EXCEPT !.down = @ \o more] EXCEPT !.subs = @ \cup {m[2]}]
    BY <1>1, <1>2, <1>3, <1>9, <2>1, <2>0 DEF Ends
  <2>4. /\ x.client = c.client /\ x.up = Tail(c.up) /\ x.down = c.down \o more
        /\ x.known = c.known /\ x.subs = c.subs \cup {m[2]}
    BY <1>1, <2>3 DEF Ends
  <2>5. Heard(c.subs \cup {m[2]}, Tail(c.up)) = Heard(c.subs, c.up)
    BY <1>6, <2>0
  <2> QED
    BY <1>5, <1>14, <2>1, <2>2, <2>3, <2>4, <2>5
<1>15. CASE /\ m[1] = "unsub" /\ c.known
            /\ link' = [Answer(k, <<>>) EXCEPT ![k].subs = @ \ {m[2]}]
  <2>1. PICK more \in Seq(Replies) : more = <<>>
    <3>1. <<>> \in Seq(Replies)
      BY DEF Replies
    <3> QED
      BY <3>1
  <2>0. m[2] \in Events /\ m = <<"unsub", m[2]>>
    BY <1>3, <1>15 DEF Messages
  <2>2. link' = [link EXCEPT ![k] = [[[c EXCEPT !.up = Tail(@)] EXCEPT !.down = @ \o more] EXCEPT !.subs = @ \ {m[2]}]]
    <3>1. PICK a : a = [[c EXCEPT !.up = Tail(@)] EXCEPT !.down = @ \o more]
      OBVIOUS
    <3>2. Answer(k, more) = [link EXCEPT ![k] = a]
      BY <1>0, <3>1
    <3>3. link' = [link EXCEPT ![k] = [a EXCEPT !.subs = @ \ {m[2]}]]
      BY <1>8, <1>15, <2>1, <3>2
    <3> QED
      BY <3>1, <3>3
  <2>3. PICK x \in Ends : x = [[[c EXCEPT !.up = Tail(@)] EXCEPT !.down = @ \o more] EXCEPT !.subs = @ \ {m[2]}]
    BY <1>1, <1>2, <1>3, <1>9, <2>1, <2>0 DEF Ends
  <2>4. /\ x.client = c.client /\ x.up = Tail(c.up) /\ x.down = c.down \o more
        /\ x.known = c.known /\ x.subs = c.subs \ {m[2]}
    BY <1>1, <2>3 DEF Ends
  <2>5. Heard(c.subs \ {m[2]}, Tail(c.up)) = Heard(c.subs, c.up)
    BY <1>6, <2>0
  <2> QED
    BY <1>5, <1>15, <2>1, <2>2, <2>3, <2>4, <2>5
<1>16. CASE /\ m[1] = "bye"
            /\ link' = [Answer(k, <<>>) EXCEPT ![k].server = "none", ![k].subs = {}, ![k].known = FALSE]
  <2>1. PICK more \in Seq(Replies) : more = <<>>
    <3>1. <<>> \in Seq(Replies)
      BY DEF Replies
    <3> QED
      BY <3>1
  <2>2. link' = [link EXCEPT ![k] = [[[[[c EXCEPT !.up = Tail(@)] EXCEPT !.down = @ \o more] EXCEPT !.server = "none"] EXCEPT !.subs = {}] EXCEPT !.known = FALSE]]
    <3>1. PICK a : a = [[c EXCEPT !.up = Tail(@)] EXCEPT !.down = @ \o more]
      OBVIOUS
    <3>2. Answer(k, more) = [link EXCEPT ![k] = a]
      BY <1>0, <3>1
    <3>3. link' = [link EXCEPT ![k] = [[[a EXCEPT !.server = "none"] EXCEPT !.subs = {}] EXCEPT !.known = FALSE]]
      BY <1>8, <1>16, <2>1, <3>2
    <3> QED
      BY <3>1, <3>3
  <2>3. PICK x \in Ends : x = [[[[[c EXCEPT !.up = Tail(@)] EXCEPT !.down = @ \o more] EXCEPT !.server = "none"] EXCEPT !.subs = {}] EXCEPT !.known = FALSE]
    BY <1>1, <1>2, <1>3, <1>9, <2>1 DEF Ends
  <2>4. /\ x.client = c.client /\ x.up = Tail(c.up) /\ x.down = c.down \o more
        /\ ~x.known /\ x.subs = {}
    BY <1>1, <2>3 DEF Ends
  <2>5. m = <<"bye">>
    BY <1>3, <1>16 DEF Messages
  <2>6. c.client # "open"
    BY <1>1, <1>3, <2>5 DEF Sound
  <2>7. \A i \in 1..Len(more) : more[i] # "success"
    BY <2>1
  <2> QED
    BY <1>5, <2>2, <2>3, <2>4, <2>6, <2>7
<1> QED
  BY <1>11, <1>12, <1>13, <1>14, <1>15, <1>16 DEF Hear, m

(* Ten seconds have passed: the server closes from its side.               *)
LEMMA AuthTimeoutKeeps ==
  ASSUME FeedSound, NEW k \in Sockets, AuthTimeout(k)
  PROVE  FeedSound'
<1> DEFINE c == link[k]
           last == <<"auth_required", "bye">>
<1>1. /\ c \in Ends /\ Sound(c) /\ link \in [Sockets -> Ends] /\ tab \in TabStates /\ tab' = tab
      /\ c.server = "open" /\ ~c.known
  BY DEF AuthTimeout, FeedSound
<1>2. c.down \in Seq(Replies) /\ last \in Seq(Replies) /\ \A i \in 1..Len(last) : last[i] # "success"
  BY <1>1 DEF Ends, Replies
<1>3. c.down \o last \in Seq(Replies)
  BY <1>2
<1>4. PICK x \in Ends : x = [c EXCEPT !.server = "closing", !.down = @ \o last]
  BY <1>1, <1>3 DEF Ends
<1>5. /\ x.client = c.client /\ x.known = c.known /\ x.subs = c.subs /\ x.up = c.up
      /\ x.down = c.down \o last
  BY <1>1, <1>4 DEF Ends
<1>6. c.client # "connecting"
  BY <1>1 DEF Sound
<1>7. Sound(x)
  <2>1. ASSUME c.client = "open", NEW i \in 1..Len(x.down) PROVE x.down[i] # "success"
    <3>1. /\ Len(c.down \o last) = Len(c.down) + Len(last) /\ Len(c.down) \in Nat /\ Len(last) \in Nat
          /\ \A j \in 1..Len(c.down) : (c.down \o last)[j] = c.down[j]
          /\ \A j \in 1..Len(last) : (c.down \o last)[Len(c.down) + j] = last[j]
      <4>1. PICK d \in Seq(Replies), z \in Seq(Replies) : d = c.down /\ z = last
        BY <1>2
      <4>2. /\ Len(d \o z) = Len(d) + Len(z) /\ Len(d) \in Nat /\ Len(z) \in Nat
            /\ \A j \in 1..Len(d) : (d \o z)[j] = d[j]
            /\ \A j \in 1..Len(z) : (d \o z)[Len(d) + j] = z[j]
        OBVIOUS
      <4> HIDE DEF last
      <4> QED
        BY <4>1, <4>2
    <3> HIDE DEF last
    <3>2. CASE i \in 1..Len(c.down)
      BY <1>1, <1>5, <2>1, <3>1, <3>2 DEF Sound
    <3>3. CASE i \notin 1..Len(c.down)
      <4>1. i - Len(c.down) \in 1..Len(last) /\ Len(c.down) + (i - Len(c.down)) = i
        BY <1>5, <3>1, <3>3
      <4> QED
        BY <1>2, <1>5, <3>1, <4>1
    <3> QED
      BY <3>2, <3>3
  <2> QED
    BY <1>1, <1>5, <1>6, <2>1 DEF Sound
<1>8. link' = [link EXCEPT ![k] = x]
  BY <1>1, <1>4 DEF AuthTimeout
<1>9. /\ x.client \in {"connecting", "open"} => Held(link, k) /\ Heard(x.subs, x.up) \subseteq tab'.wanted
      /\ ~(k = tab.sock /\ tab'.authed)
  BY <1>1, <1>5, <1>6, FeedAssumption DEF FeedSound, InTheEnd, Held
<1> QED
  BY <1>1, <1>5, <1>7, <1>8, <1>9, OnConnection

-----------------------------------------------------------------------------
LEMMA FeedStep == FeedInv /\ [FeedNext]_feedVars => FeedInv'
<1> SUFFICES ASSUME FeedInv, [FeedNext]_feedVars, "late close" \notin spoilt' PROVE FeedSound'
  BY DEF FeedInv
<1>1. "late close" \notin spoilt
  BY DEF FeedNext, feedVars, SignInAndMount, SignOut, Expire, Subscribe, Unsubscribe, Reconnect, Open,
         SignedIn, Refused, Closed, Lose, Hear, AuthTimeout, Connect, OnClose
<1>2. FeedSound
  BY <1>1 DEF FeedInv
<1>3. CASE SignInAndMount \/ Reconnect
  BY <1>2, <1>3, MountKeeps
<1>4. CASE SignOut
  BY <1>2, <1>4, SignOutKeeps
<1>5. CASE Expire
  BY <1>2, <1>5, ExpireKeeps
<1>6. CASE Subscribe
  BY <1>2, <1>6, SubscribeKeeps
<1>7. CASE Unsubscribe
  BY <1>2, <1>7, UnsubscribeKeeps
<1>8. ASSUME NEW k \in Sockets, Open(k) PROVE FeedSound'
  BY <1>2, <1>8, OpenKeeps
<1>9. ASSUME NEW k \in Sockets, SignedIn(k) PROVE FeedSound'
  BY <1>2, <1>9, SignedInKeeps
<1>10. ASSUME NEW k \in Sockets, Refused(k) PROVE FeedSound'
  BY <1>2, <1>10, RefusedKeeps
<1>11. ASSUME NEW k \in Sockets, Closed(k) \/ Lose(k) PROVE FeedSound'
  <2>1. OnClose(k) /\ link[k].client # "none"
    BY <1>11 DEF Closed, Lose, Message
  <2> QED
    BY <1>2, <2>1, OnCloseKeeps
<1>12. ASSUME NEW k \in Sockets, Hear(k) PROVE FeedSound'
  BY <1>2, <1>12, HearKeeps
<1>13. ASSUME NEW k \in Sockets, AuthTimeout(k) PROVE FeedSound'
  BY <1>2, <1>13, AuthTimeoutKeeps
<1>14. CASE UNCHANGED feedVars
  BY <1>2, <1>14 DEF feedVars, FeedSound, Held, InTheEnd, Sound
<1> QED
  BY <1>3, <1>4, <1>5, <1>6, <1>7, <1>8, <1>9, <1>10, <1>11, <1>12, <1>13, <1>14 DEF FeedNext

LEMMA FeedSoundCurrent == FeedInv => FeedIsCurrent
BY FeedAssumption DEF FeedInv, FeedSound, FeedIsCurrent, Held

(* While no connection is opened over one still closing, a tab that counts *)
(* as signed in to the feed is so on its one open connection and will be   *)
(* subscribed there to just what it has callbacks for                      *)
(* (useWebSocket.ts:182), for any number of events, connections, losses    *)
(* and messages under way.                                                 *)
THEOREM TheFeedIsCurrent == FeedSpec => []FeedIsCurrent
<1>1. FeedInit /\ [][FeedNext]_feedVars => []FeedInv
  BY FeedInitInv, FeedStep, PTL
<1> QED
  BY <1>1, FeedSoundCurrent, PTL DEF FeedSpec

-----------------------------------------------------------------------------
(* The two protocols side by side.                                         *)

(* A behaviour of the client is one of its session and one of its feed.    *)
LEMMA SideBySide ==
  ClientInit /\ [][ClientNext]_clientVars =>
    Init /\ [][Next]_vars /\ FeedInit /\ [][FeedNext]_feedVars
<1>1. ClientInit => Init /\ FeedInit
  BY DEF ClientInit
<1>2. [ClientNext]_clientVars => [Next]_vars /\ [FeedNext]_feedVars
  BY DEF ClientNext, clientVars
<1> QED
  BY <1>1, <1>2, PTL

(* The client keeps what its two parts promise (auth.ts:43, auth.ts:49,    *)
(* useWebSocket.ts:182), a sign-out under the conditions it is kept under. *)
THEOREM TheClientKeepsItsPromises ==
  ClientSpec => /\ []SignedOutHasNoToken /\ []OneRefreshPerTab /\ StoredMovesForward
                /\ []FeedIsCurrent
BY SideBySide, SignedOutStaysOut, RefreshesAreShared, LateAnswersAreHarmless, TheFeedIsCurrent, PTL
  DEF ClientSpec, Spec, FeedSpec
=============================================================================
