-------------------------------- MODULE Feed --------------------------------
(***************************************************************************)
(* The live feed of one browser tab: the client that connects, signs in,   *)
(* subscribes and comes back after a loss (composables/useWebSocket.ts),   *)
(* and the server's end of each connection (lib/realtime.js).  One action  *)
(* per event handler of either end; a connection delivers in order.  What  *)
(* is pushed over it changes nothing at either end.                        *)
(***************************************************************************)
EXTENDS Naturals, Sequences, FiniteSets, SequencesExt

CONSTANTS
  Events,      (* what can be subscribed to                                *)
  Sockets,     (* names for connections that are not yet fully closed      *)
  MaxLost,     (* bound on connections the network loses                   *)
  MaxPending   (* bound on messages under way to the server                *)

NoSocket == "none"

ASSUME FeedAssumption == NoSocket \notin Sockets /\ IsFiniteSet(Events)

VARIABLES
  tab,     (* the module state of the client                               *)
  link,    (* both ends of every connection and what is under way          *)
  lost,    (* connections lost                                             *)
  spoilt   (* history: what may make the server refuse, see Spoil          *)

feedVars == <<tab, link, lost, spoilt>>

Unused == [client |-> "none", server |-> "none", known |-> FALSE, subs |-> {}, up |-> <<>>, down |-> <<>>]

(* wanted: the events with callbacks; gone: manuallyDisconnected; timer:   *)
(* a reconnect is scheduled; token: what getToken returns.                 *)
FeedInit ==
  /\ tab = [sock |-> NoSocket, wanted |-> {}, connected |-> FALSE, authed |-> FALSE,
            gone |-> FALSE, timer |-> FALSE, token |-> "none"]
  /\ link = [k \in Sockets |-> Unused]
  /\ lost = 0
  /\ spoilt = {}

Held(l, k) == k # NoSocket /\ l[k].client \in {"connecting", "open"}

(* sendMessage: on the current socket, if that is open.                    *)
Send(l, k, msgs) ==
  IF k # NoSocket /\ l[k].client = "open" THEN [l EXCEPT ![k].up = @ \o msgs] ELSE l

(* socket.close: the server hears of it after what was sent before.        *)
Close(l, k) ==
  IF k = NoSocket THEN l
  ELSE [l EXCEPT ![k].client = "closing", ![k].down = <<>>,
                 ![k].up = IF l[k].client = "open" THEN Append(@, <<"bye">>) ELSE @]

Auth == IF tab.token = "none" THEN <<>> ELSE <<<<"auth", tab.token>>>>
Subscriptions(events) == SetToSeq({<<"sub", e>> : e \in events})

-----------------------------------------------------------------------------
(* The client.                                                             *)

(* Mutant: a sign-out is remembered after the next sign-in.                *)
ConnectStillGone(c) ==
  \/ /\ Held(link, c.sock) \/ c.token = "none"
     /\ tab' = c
     /\ UNCHANGED <<link, spoilt>>
  \/ /\ ~Held(link, c.sock) /\ c.token # "none"
     /\ \E k \in Sockets :
          /\ link[k] = Unused
          /\ link' = [link EXCEPT ![k].client = "connecting"]
          /\ tab' = [c EXCEPT !.sock = k, !.authed = FALSE]
     /\ spoilt' = spoilt \cup {"late close" : k \in {j \in Sockets : link[j].client = "closing"}}

(* connect, of a client in state c.                                        *)
Connect(c) ==
  \/ /\ Held(link, c.sock) \/ c.token = "none"
     /\ tab' = c
     /\ UNCHANGED <<link, spoilt>>
  \/ /\ ~Held(link, c.sock) /\ c.token # "none"
     /\ \E k \in Sockets :
          /\ link[k] = Unused
          /\ link' = [link EXCEPT ![k].client = "connecting"]
          /\ tab' = [c EXCEPT !.sock = k, !.gone = FALSE, !.authed = FALSE]
     /\ spoilt' = spoilt \cup {"late close" : k \in {j \in Sockets : link[j].client = "closing"}}

(* Bound: the user does nothing more once a connection may be refused.     *)
Asked == spoilt = {}

(* The page for signed-in users is set up, now or again.                   *)
SignInAndMount ==
  /\ Asked
  /\ Connect([tab EXCEPT !.token = IF @ = "none" THEN "good" ELSE @])
  /\ UNCHANGED lost

(* disconnect, then the token goes; nothing connects in between.           *)
SignOut ==
  /\ Asked /\ tab.token # "none"
  /\ tab' = [tab EXCEPT !.gone = TRUE, !.timer = FALSE, !.sock = NoSocket, !.connected = FALSE,
                        !.authed = FALSE, !.wanted = {}, !.token = "none"]
  /\ link' = Close(link, tab.sock)
  /\ UNCHANGED <<lost, spoilt>>

(* A token runs out before it is renewed.                                  *)
Expire ==
  /\ Asked /\ tab.token = "good"
  /\ tab' = [tab EXCEPT !.token = "stale"]
  /\ spoilt' = spoilt \cup {"expired"}
  /\ UNCHANGED <<link, lost>>

RoomToSend == \A k \in Sockets : Len(link[k].up) < MaxPending

Subscribe ==
  \E e \in Events :
    /\ Asked /\ RoomToSend /\ tab.token # "none"
    /\ tab' = [tab EXCEPT !.wanted = @ \cup {e}]
    /\ link' = IF tab.authed THEN Send(link, tab.sock, <<<<"sub", e>>>>) ELSE link
    /\ UNCHANGED <<lost, spoilt>>

(* The last callback of an event is taken away.                            *)
Unsubscribe ==
  \E e \in tab.wanted :
    /\ Asked /\ RoomToSend
    /\ tab' = [tab EXCEPT !.wanted = @ \ {e}]
    /\ link' = Send(link, tab.sock, <<<<"unsub", e>>>>)
    /\ UNCHANGED <<lost, spoilt>>

(* onopen, with the server's end of the connection.                        *)
Open(k) ==
  /\ link[k].client = "connecting"
  /\ tab' = [tab EXCEPT !.connected = TRUE]
  /\ link' = Send([link EXCEPT ![k].client = "open", ![k].server = "open"], tab.sock, Auth)
  /\ UNCHANGED <<lost, spoilt>>

Taken(k) == [link EXCEPT ![k].down = Tail(@)]
Message(k, m) == link[k].client = "open" /\ link[k].down # <<>> /\ Head(link[k].down) = m

(* Mutant: what was subscribed to before is not asked for again.           *)
SignedInAnew(k) ==
  /\ Message(k, "success")
  /\ tab' = [tab EXCEPT !.authed = TRUE]
  /\ link' = Taken(k)
  /\ UNCHANGED <<lost, spoilt>>

SignedIn(k) ==
  /\ Message(k, "success")
  /\ tab' = [tab EXCEPT !.authed = TRUE]
  /\ link' = Send(Taken(k), tab.sock, Subscriptions(tab.wanted))
  /\ UNCHANGED <<lost, spoilt>>

(* Refused, of whichever connection: no reconnect.                         *)
Refused(k) ==
  /\ Message(k, "invalid_token") \/ Message(k, "auth_required")
  /\ tab' = [tab EXCEPT !.gone = TRUE, !.authed = FALSE, !.connected = FALSE, !.sock = NoSocket]
  /\ link' = Close(Taken(k), tab.sock)
  /\ UNCHANGED <<lost, spoilt>>

(* onclose, of whichever connection: closed from this side or the other,   *)
(* or lost; the far end of a lost one notices later and only drops it.     *)
OnClose(k) ==
  /\ tab' = [tab EXCEPT !.connected = FALSE, !.authed = FALSE, !.sock = NoSocket,
                        !.timer = @ \/ ~tab.gone]
  /\ link' = [link EXCEPT ![k] = Unused]
  /\ UNCHANGED spoilt

Closed(k) ==
  /\ \/ link[k].client = "closing" /\ link[k].server # "open"
     \/ Message(k, "bye")
  /\ OnClose(k)
  /\ UNCHANGED lost

Lose(k) ==
  /\ link[k].client # "none"
  /\ lost < MaxLost
  /\ lost' = lost + 1
  /\ OnClose(k)

Reconnect ==
  /\ tab.timer
  /\ Connect([tab EXCEPT !.timer = FALSE])
  /\ UNCHANGED lost

-----------------------------------------------------------------------------
(* The server's end.                                                       *)

Answer(k, msgs) == [link EXCEPT ![k].up = Tail(@), ![k].down = @ \o msgs]

Hear(k) ==
  /\ link[k].server = "open" /\ link[k].up # <<>>
  /\ LET m == Head(link[k].up)  l == Answer(k, <<>>) IN
     \/ /\ m[1] = "auth" /\ m[2] = "good"
        /\ link' = [Answer(k, <<"success">>) EXCEPT ![k].known = TRUE]
     \/ /\ m[1] = "auth" /\ m[2] = "stale"
        /\ link' = [Answer(k, <<"invalid_token", "bye">>) EXCEPT ![k].server = "closing"]
     \/ /\ m[1] \in {"sub", "unsub"} /\ ~link[k].known
        /\ link' = Answer(k, <<"auth_required">>)
     \/ m[1] = "sub" /\ link[k].known /\ link' = [l EXCEPT ![k].subs = @ \cup {m[2]}]
     \/ m[1] = "unsub" /\ link[k].known /\ link' = [l EXCEPT ![k].subs = @ \ {m[2]}]
     \/ m[1] = "bye" /\ link' = [l EXCEPT ![k].server = "none", ![k].subs = {}, ![k].known = FALSE]
  /\ UNCHANGED <<tab, lost, spoilt>>

(* Ten seconds have passed without a valid token.                          *)
AuthTimeout(k) ==
  /\ link[k].server = "open" /\ ~link[k].known
  /\ link' = [link EXCEPT ![k].server = "closing", ![k].down = @ \o <<"auth_required", "bye">>]
  /\ spoilt' = spoilt \cup {"timeout"}
  /\ UNCHANGED <<tab, lost>>

-----------------------------------------------------------------------------
FeedNext ==
  \/ SignInAndMount \/ SignOut \/ Expire \/ Subscribe \/ Unsubscribe \/ Reconnect
  \/ \E k \in Sockets : Open(k) \/ SignedIn(k) \/ Refused(k) \/ Closed(k) \/ Lose(k)
                        \/ Hear(k) \/ AuthTimeout(k)

(* Timers fire, connections open and close, and what is sent arrives.      *)
Arrive(k) == Open(k) \/ SignedIn(k) \/ Refused(k) \/ Closed(k)
FeedFairness ==
  /\ WF_feedVars(Reconnect)
  /\ \A k \in Sockets : WF_feedVars(Arrive(k)) /\ WF_feedVars(Hear(k))

FeedSpec == FeedInit /\ [][FeedNext]_feedVars /\ FeedFairness

-----------------------------------------------------------------------------
(* What the server will have of a connection's subscriptions, now subs,    *)
(* once it has heard all that is under way: the last word on each event.   *)
AskedFor(up, e) ==
  \E i \in 1..Len(up) : /\ up[i] = <<"sub", e>>
                        /\ \A j \in 1..Len(up) : j > i => up[j] # <<"unsub", e>>
TakenBack(up, e) == \E i \in 1..Len(up) : up[i] = <<"unsub", e>>
Heard(subs, up) == {e \in Events : AskedFor(up, e) \/ (e \in subs /\ ~TakenBack(up, e))}

InTheEnd(k) == Heard(link[k].subs, link[k].up)

(* A tab that counts as signed in to the feed is so on its one open        *)
(* connection, and will be subscribed there to just what it has callbacks  *)
(* for, whatever it subscribed to before, during and after a loss          *)
(* (useWebSocket.ts:182), and there is no other open connection.           *)
FeedIsCurrent ==
  "late close" \notin spoilt =>
    /\ \A k \in Sockets : Held(link, k) => k = tab.sock
    /\ tab.authed => /\ Held(link, tab.sock) /\ link[tab.sock].known
                     /\ InTheEnd(tab.sock) = tab.wanted

(* While the user stays signed in the feed comes back, however often it is *)
(* lost, as long as nothing happens that lets the server refuse the tab    *)
(* for good: an expired token, a sign-in later than ten seconds, or a      *)
(* connection still closing from an earlier sign-in.                       *)
FeedComesBack ==
  (tab.token = "good" /\ spoilt = {}) ~> (tab.authed \/ tab.token # "good" \/ spoilt # {})

(* That a tab has one connection, also where a sign-in overtakes the end   *)
(* of the last connection, whose onclose then lets go of the new one: does *)
(* not hold.                                                               *)
OneConnection == \A k \in Sockets : Held(link, k) => k = tab.sock
=============================================================================
