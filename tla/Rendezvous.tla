------------------------------ MODULE Rendezvous ------------------------------
(***************************************************************************)
(* Pairing through a relay: the rendezvous that a window of the operator   *)
(* opens (bridge/src/relay/rendezvous.ts and beginPair of bridge.ts), the  *)
(* phones that dial it (src/m1/pair-flow.ts, openRelayPairingTransport and *)
(* PairingTunnelTransport), the relay's rendezvous mode                    *)
(* (bridge/src/relay/server.ts), and the routes and connectors that the    *)
(* pairing leaves behind (identity/store.ts, syncConnectors).              *)
(*                                                                         *)
(* The session, the windows and the registry are those of Pairing; every   *)
(* window is opened for the relay, those on the LAN are Pairing's.  A      *)
(* phone mints a routing id each time it dials: the phone and the number   *)
(* of the dial.  Frames between one phone and the bridge keep their order; *)
(* a phone whose connection is gone is told nothing more.  The claim is    *)
(* that of the phone itself: a channel of another key is dropped.          *)
(***************************************************************************)
EXTENDS Pairing, Sequences, SequencesExt

CONSTANTS
  MaxClaimants,    \* maxRendezvousClaimants of the relay
  MaxDials         \* bound: dials of all phones together

ASSUME RendezvousAssumption ==
  /\ MaxClaimants \in Nat \ {0} /\ MaxDials \in Nat
  /\ None \notin Phone \X Nat /\ None \notin Outcome

VARIABLES
  rdv,        \* per window: its RendezvousListener
  link,       \* per phone: its dials, and the RelayClient of the last one
  calls,      \* claims that wait for the backend or for their reply
  route,      \* per device: peerRoutingId of its route in the identity file
  connector,  \* per device: the routing id its RelayConnector expects
  stored      \* per phone: deviceRoutingId of the bridge it stored

rdvVars == <<rdv, link, calls, route, connector, stored>>
allVars == <<pairingVars, rdvVars>>

idle    == [state |-> "idle", linger |-> FALSE, left |-> FALSE, claimants |-> <<>>]
undialled == [dials |-> 0, state |-> "down", waits |-> FALSE]

RendezvousInit ==
  /\ PairingInit
  /\ rdv = [w \in Window |-> idle] /\ link = [p \in Phone |-> undialled] /\ calls = {}
  /\ route = [p \in Phone |-> None] /\ connector = route /\ stored = route

-----------------------------------------------------------------------------
\* RendezvousListener and the routes.

Closed(r) == [r EXCEPT !.state = "closed", !.linger = FALSE, !.claimants = <<>>]

Id(p)          == <<p, link[p].dials>>
Dials          == FoldFunctionOnSet(+, 0, [p \in Phone |-> link[p].dials], Phone)
\* In the order they arrived: greeted, sealed (with a channel), proven, or gone, for
\* one that the listener has dropped.
Claimants(w)   == {rdv[w].claimants[i] : i \in DOMAIN rdv[w].claimants}
HasChannel(w, id) == \E c \in Claimants(w) : c.id = id /\ c.state \in {"sealed", "proven"}
Updated(cs, id, state) ==
  [i \in DOMAIN cs |-> IF cs[i].id = id /\ cs[i].state # "gone"
                       THEN [cs[i] EXCEPT !.state = state] ELSE cs[i]]

\* provenClaim: the first claimant that proved its key.
Proven(w) == {i \in DOMAIN rdv[w].claimants : rdv[w].claimants[i].state = "proven"}
ProvenClaim(w) ==
  IF Proven(w) = {} THEN <<None, 0>>
  ELSE rdv[w].claimants[CHOOSE i \in Proven(w) : \A j \in Proven(w) : i <= j].id

\* syncConnectors: a connector that exists is left as it is.
Synced_NoneAdded(devices, routes) ==
  [p \in Phone |-> IF routes[p] = None \/ devices[p].state # "active" THEN None ELSE connector[p]]
Synced(devices, routes) ==
  [p \in Phone |-> IF routes[p] = None \/ devices[p].state # "active" THEN None
                   ELSE IF connector[p] # None THEN connector[p] ELSE routes[p]]

AddRoute(devices, id) ==
  /\ route' = [route EXCEPT ![id[1]] = id]
  /\ connector' = Synced(devices, route')

-----------------------------------------------------------------------------
\* The windows. Each action is that of Pairing, with what it does to the rendezvous.

OpensWindow(w, tier) ==
  /\ BeginPair(w, tier)
  /\ rdv' = [rdv EXCEPT ![w].state = "dialing"]
  /\ UNCHANGED <<link, calls, route, connector, stored>>

\* start: the relay acknowledges the registration, and the QR code is shown; or it
\* refuses, fails or says nothing for ten seconds, and the window is given up.
Registers(w) ==
  /\ rdv[w].state = "dialing"
  /\ rdv' = [rdv EXCEPT ![w].state = "listening"]
  /\ UNCHANGED <<pairingVars, link, calls, route, connector, stored>>

StartFails(w) ==
  /\ rdv[w].state = "dialing"
  /\ rdv' = [rdv EXCEPT ![w] = Closed(@)]
  /\ IF window[w].state = "open"
     THEN session' = noSession /\ window' = [window EXCEPT ![w] = Finished(w)]
     ELSE UNCHANGED <<session, window>>
  /\ UNCHANGED <<elapsed, dshReachable, registry, phone, confirmed,
                 link, calls, route, connector, stored>>

\* The window's timer reports an end of the session without finish: the rendezvous
\* stays.
Reports(w) == PollWindow(w) /\ UNCHANGED rdvVars

\* The route is recorded here, unless the first proven claimant is another device.
RecordsRoute(w, p) ==
  IF ProvenClaim(w)[1] = p THEN AddRoute(registry', ProvenClaim(w))
  ELSE UNCHANGED <<route, connector>>

Accepts(w) ==
  /\ Accept(w)
  /\ IF Confirmable
     THEN RecordsRoute(w, session.pending) /\ rdv' = [rdv EXCEPT ![w].linger = TRUE]
     ELSE rdv' = [rdv EXCEPT ![w] = Closed(@)] /\ UNCHANGED <<route, connector>>
  /\ UNCHANGED <<link, calls, stored>>

Declines(w) ==
  /\ Decline(w)
  /\ rdv' = [rdv EXCEPT ![w].linger = TRUE]
  /\ UNCHANGED <<link, calls, route, connector, stored>>

Cancels(w) ==
  /\ Cancel(w)
  /\ rdv' = IF window[w].state = "open" THEN [rdv EXCEPT ![w] = Closed(@)] ELSE rdv
  /\ UNCHANGED <<link, calls, route, connector, stored>>

LingerEnds(w) ==
  /\ rdv[w].linger
  /\ rdv' = [rdv EXCEPT ![w] = Closed(@)]
  /\ UNCHANGED <<pairingVars, link, calls, route, connector, stored>>

\* The relay, or the network, drops the listener's socket: nobody dials again.
SocketLost(w) ==
  /\ rdv[w].state = "listening"
  /\ rdv' = [rdv EXCEPT ![w].state = "closed"]
  /\ UNCHANGED <<pairingVars, link, calls, route, connector, stored>>

\* A revocation stops the device's connector and removes its route.
Revokes(p) ==
  /\ Revoke(p)
  /\ route' = [route EXCEPT ![p] = None] /\ connector' = [connector EXCEPT ![p] = None]
  /\ UNCHANGED <<rdv, link, calls, stored>>

-----------------------------------------------------------------------------
\* The phone, the relay between, and the listener's handlers.

Posting(p) == phone[p].state = "posting"

\* A phone is about to pair, so it holds no bridge. It mints a routing id.
Scans(p, w) ==
  /\ Scan(p, w)
  /\ rdv[w].state # "dialing" /\ Dials < MaxDials
  /\ link' = [link EXCEPT ![p] = [dials |-> @.dials + 1, state |-> "hello", waits |-> FALSE]]
  /\ stored' = [stored EXCEPT ![p] = None]
  /\ UNCHANGED <<rdv, calls, route, connector>>

\* The flow of a phone ends and closes its carrier; the relay tells the listener that
\* a claimant left.
AtRelay(p, w) == Posting(p) /\ phone[p].token = w /\ link[p].state \in {"sealing", "sealed"}
Ends(p, outcome) ==
  /\ Learns(p, outcome)
  /\ link' = [link EXCEPT ![p].state = "down"]
  /\ rdv' = [w \in Window |-> IF AtRelay(p, w) /\ rdv[w].state = "listening"
                              THEN [rdv[w] EXCEPT !.left = TRUE] ELSE rdv[w]]

\* Round one: the first frame of a phone makes it a claimant, and is answered.
HelloArrives(p) ==
  LET w == phone[p].token IN
  /\ Posting(p) /\ link[p].state = "hello"
  /\ IF rdv[w].state # "listening" THEN Ends(p, "unreachable")
     ELSE IF Cardinality({q \in Phone : AtRelay(q, w)}) >= MaxClaimants
     THEN Ends(p, "rendezvous-busy")
     ELSE /\ rdv' = [rdv EXCEPT ![w].claimants =
                       Append(@, [id |-> Id(p), state |-> "greeted"])]
          /\ link' = [link EXCEPT ![p].state = "sealing"]
          /\ UNCHANGED phone
  /\ UNCHANGED <<session, elapsed, dshReachable, window, registry, confirmed,
                 calls, route, connector, stored>>

\* Round two: the phone has its channel; so has the listener, unless it dropped the
\* claimant in between.
SealArrives(p) ==
  LET w == phone[p].token IN
  /\ Posting(p) /\ link[p].state = "sealing" /\ rdv[w].state = "listening"
  /\ link' = [link EXCEPT ![p].state = "sealed"]
  /\ rdv' = [rdv EXCEPT ![w].claimants = Updated(@, Id(p), "sealed")]
  /\ UNCHANGED <<pairingVars, calls, route, connector, stored>>

\* onSealedRecord with a claim: the claimant has proved its key, and the claim goes to
\* the backend. Without a channel the record is noted and ignored.
ClaimArrives(p) ==
  LET w == phone[p].token IN
  /\ Posting(p) /\ link[p].state = "sealed" /\ ~ link[p].waits /\ rdv[w].state = "listening"
  /\ link' = [link EXCEPT ![p].waits = TRUE]
  /\ IF HasChannel(w, Id(p))
     THEN /\ rdv' = [rdv EXCEPT ![w].claimants = Updated(@, Id(p), "proven")]
          /\ calls' = calls \cup {[id |-> Id(p), at |-> w, reply |-> None]}
     ELSE UNCHANGED <<rdv, calls>>
  /\ UNCHANGED <<pairingVars, route, connector, stored>>

\* The backend's handlePairClaim runs.
BackendAnswers(c) ==
  /\ c \in calls /\ c.reply = None
  /\ LET answer == Answer(c.id[1], c.at)
     IN  /\ session' = answer.session
         /\ calls' = (calls \ {c}) \cup {[c EXCEPT !.reply = answer.reply]}
  /\ UNCHANGED <<elapsed, dshReachable, window, registry, phone, confirmed,
                 rdv, link, route, connector, stored>>

\* assignRoute, on a completed pairing only: never for a device that is not active.
Assigns(c) == c.reply = "paired" /\ registry[c.id[1]].state = "active"
Reply(c)   == IF c.reply = "paired" /\ ~ Assigns(c) THEN "internal" ELSE c.reply

\* The rest of onSealedRecord: the reply goes out if the channel is still there.
Replies(c) ==
  LET p == c.id[1] IN
  /\ c \in calls /\ c.reply # None
  /\ calls' = calls \ {c}
  /\ IF Assigns(c) THEN AddRoute(registry, c.id) ELSE UNCHANGED <<route, connector>>
  /\ IF /\ Posting(p) /\ phone[p].token = c.at /\ Id(p) = c.id /\ link[p].waits
        /\ rdv[c.at].state = "listening" /\ HasChannel(c.at, c.id)
     THEN /\ IF Reply(c) = "awaiting-confirmation"
             THEN link' = [link EXCEPT ![p].waits = FALSE] /\ UNCHANGED <<phone, rdv>>
             ELSE Ends(p, Reply(c))
          /\ stored' = IF Reply(c) = "paired" THEN [stored EXCEPT ![p] = c.id] ELSE stored
     ELSE UNCHANGED <<phone, link, rdv, stored>>
  /\ UNCHANGED <<session, elapsed, dshReachable, window, registry, confirmed>>

PeerOffline_DropsAll(w) ==
  /\ rdv[w].left /\ rdv[w].state = "listening"
  /\ rdv' = [rdv EXCEPT ![w].left = FALSE, ![w].claimants = <<>>]
  /\ UNCHANGED <<pairingVars, link, calls, route, connector, stored>>
\* relay/peer-offline does not say who left: every claimant without a proof goes.
PeerOffline(w) ==
  /\ rdv[w].left /\ rdv[w].state = "listening"
  /\ rdv' = [rdv EXCEPT ![w].left = FALSE, ![w].claimants =
                [i \in DOMAIN @ |-> IF @[i].state = "proven" THEN @[i]
                                    ELSE [@[i] EXCEPT !.state = "gone"]]]
  /\ UNCHANGED <<pairingVars, link, calls, route, connector, stored>>

\* A phone's connection dies, its request times out, its user leaves the screen or its
\* deadline passes.
Stops(p) ==
  /\ Posting(p)
  /\ \E outcome \in {"unreachable", "cancelled"} \cup
                    (IF phone[p].token \in elapsed THEN {"timeout"} ELSE {}) : Ends(p, outcome)
  /\ UNCHANGED <<session, elapsed, dshReachable, window, registry, confirmed,
                 calls, route, connector, stored>>

RendezvousNext ==
  \/ \E w \in Window, tier \in Tier : OpensWindow(w, tier)
  \/ \E w \in Window : \/ Registers(w) \/ StartFails(w) \/ Reports(w) \/ Accepts(w)
                       \/ Declines(w) \/ Cancels(w) \/ LingerEnds(w) \/ SocketLost(w)
                       \/ PeerOffline(w)
                       \/ (BadProof(w) \/ TokenElapses(w)) /\ UNCHANGED rdvVars
  \/ \E p \in Phone, w \in Window : Scans(p, w)
  \/ \E p \in Phone : \/ HelloArrives(p) \/ SealArrives(p) \/ ClaimArrives(p)
                      \/ Stops(p) \/ Revokes(p)
  \/ \E c \in calls : BackendAnswers(c) \/ Replies(c)
  \/ DshReachability /\ UNCHANGED rdvVars

RendezvousSpec == RendezvousInit /\ [][RendezvousNext]_allVars

-----------------------------------------------------------------------------
\* "a route is a standing invitation to dial in, and a revoked device must not receive
\* one" (bridge.ts, assignRoute): a device with a route is active and the route is its
\* own, whichever of two claimants came first and whatever was revoked between the
\* backend's answer and the reply.
RouteIsOfActiveDevice ==
  \A p \in Phone : route[p] # None => registry[p].state = "active" /\ route[p][1] = p

\* "a registered device with no route would look like a successful pairing that cannot
\* connect" (bridge.ts, confirm): from the confirmation on the device has a route, even
\* if its phone never polls again. Only another phone on the same rendezvous, or another
\* window, can come between.
ConfirmedHasRoute ==
  \A c \in confirmed :
    /\ Alone(c.at) /\ registry[c.phone].state = "active"
    /\ \A q \in Phone \ {c.phone} : link[q].dials = 0
    => route[c.phone] # None

\* Routes follow pairings, whatever races a confirmation.
RoutesFollowPairings == RouteIsOfActiveDevice /\ ConfirmedHasRoute

\* "A mismatch means the bridge recorded a different phone, and connecting would silently
\* fail forever" (pair-flow.ts, buildStoredBridge): the bridge expects a phone under the
\* very id that it stored, as long as its device is active. A phone that dials the
\* rendezvous twice is the exception: the confirmation may record the route, and start
\* the connector, of its first dial, and the second one only changes the route.
StoredIsExpected ==
  \A p \in Phone : stored[p] # None /\ registry[p].state = "active" /\ link[p].dials = 1 =>
    route[p] = stored[p] /\ connector[p] = stored[p]
=============================================================================
