---------------------------- MODULE RelayTunnel ----------------------------
(***************************************************************************)
(* A phone and its bridge meeting through a relay: the bridge's connector  *)
(* (bridge/src/relay/connector.ts), the relay in peer mode (server.ts) and *)
(* the phone's transport (src/m1/relay-transport.ts, relay.ts, tunnel.ts). *)
(*                                                                         *)
(* Each end dials the relay, registers its routing id and, when the relay  *)
(* says that the other is there, exchanges ephemeral keys and signatures;  *)
(* then requests and answers travel in sealed records.  The relay forwards *)
(* in order, and what it says of a peer may be late: frames of an earlier  *)
(* connection may still be on their way when the next one registers.       *)
(*                                                                         *)
(* The relay is honest here and nobody else uses the two routing ids.  A   *)
(* channel is named by the two ephemerals its keys are derived from, and a *)
(* signature by the transcript it covers.  A subscription of the phone is  *)
(* served by a stream that the connector opens to the bridge's own routes  *)
(* (backend.ts); a stream is named by the session that asked for it.       *)
(* Rendezvous registrations, pings, the acknowledgement of a subscription  *)
(* (the phone notes it, no more), its events and the content of requests   *)
(* are left out.                                                           *)
(***************************************************************************)
EXTENDS Naturals, Sequences, SequencesExt

CONSTANTS
  MaxDials,     \* bound: sockets the connector dials
  MaxSessions,  \* bound: transports the phone builds
  MaxRequests,  \* bound: requests of one transport
  MaxFaults     \* bound: failed dials, lost connections, frames over the quota

ASSUME RelayAssumption == {MaxDials, MaxSessions, MaxRequests, MaxFaults} \subseteq Nat

End      == {"bridge", "phone"}
Other(e) == IF e = "bridge" THEN "phone" ELSE "bridge"
\* A connection to the relay: whose it is, and the number of the dial.
Socket   == ({"bridge"} \X (1..MaxDials)) \cup ({"phone"} \X (1..MaxSessions))

VARIABLES
  connector, \* the fields of RelayConnector; `link` is how far its newest socket is
  phone,     \* the phone's newest RelayTransport with its RelayClient and TunnelClient
  backend,   \* requests and stream openings the bridge's own routes are working on
  greeted,   \* streams that have sent their hello
  peers,     \* RelayServer.peers: per routing id the registered socket
  open,      \* the sockets the relay has accepted and not closed
  up,        \* per socket: sent by its end, not yet read by the relay
  down,      \* per end: sent by the relay on its newest socket, not yet read
  faults,
  overQuota, \* history: a frame of the bridge was dropped for its quota
  carriedOver \* history: the connector's newest socket was dialled with a handshake in hand

relayVars == <<connector, phone, backend, greeted, peers, open, up, down, faults, overQuota,
               carriedOver>>

None   == <<>>   \* no socket, no channel, no signature
closed == [type |-> "close"]
Register      == [type |-> "relay/register"]
Registered    == [type |-> "relay/registered"]
PeerOnline    == [type |-> "relay/peer-online"]
PeerOffline   == [type |-> "relay/peer-offline"]
Error(code)   == [type |-> "relay/error", code |-> code]
Handshake(eph, sig) == [type |-> "relay/handshake", eph |-> eph, sig |-> sig]
\* A record sealed for the channel `key`: a message of the kind `kind` that session `of`
\* sent or asked for, with the phone's own number for what it asked.
Tunnel(kind, id, of) == [kind |-> kind, id |-> id, of |-> of]
Data(key, r)  == [type |-> "relay/data", key |-> key, kind |-> r.kind, id |-> r.id, of |-> r.of]

\* A signature is the transcript it covers, and a channel the transcript its keys come
\* from: the ephemerals of both ends, the initiator's (the phone's) first. The frame that
\* begins a handshake has none.
Transcript(initiator, responder) == <<initiator, responder>>
BridgeSigned(eph, peer) == Handshake(eph, Transcript(peer, eph))
PhoneSigned(eph, peer)  == Handshake(eph, Transcript(eph, peer))

\* completeHandshake, in either end: it derives a channel only from the transcript that
\* the other signed.
BridgeCompletes(eph, m) == m.sig = Transcript(m.eph, eph)
PhoneCompletes(eph, m)  == m.sig = Transcript(eph, m.eph)

\* open: a record opens under the keys it was sealed with. A channel's records come in
\* the order they were sealed, each once, so that its counter never refuses one.
BridgeOpens(c, m) == c.channel = m.key
PhoneOpens(p, m)  == p.channel = m.key

undialled == [n |-> 0, link |-> "none", state |-> "idle", stopped |-> FALSE, timers |-> 0,
              handshake |-> 0, signed |-> FALSE, channel |-> None, ephemerals |-> 0,
              stream |-> 0, live |-> {}]
unbuilt   == [n |-> 0, phase |-> "idle", ended |-> "no", begun |-> FALSE, signed |-> FALSE,
              peerEphemeral |-> 0, channel |-> None, pending |-> {}, nextId |-> 1,
              sub |-> "none", subId |-> 0, hello |-> 0]

-----------------------------------------------------------------------------
\* Queues. Nothing follows a close.
Closing(q)  == q # <<>> /\ Last(q) = closed
Push(q, ms) == IF Closing(q) THEN q ELSE q \o ms
Closes(q)   == IF Closing(q) THEN <<closed>> ELSE <<>>

\* The sockets of the two objects, and whether they still listen to them.
Dialled   == <<"bridge", connector.n>>
Session   == <<"phone", phone.n>>
Own(e)    == IF e = "bridge" THEN Dialled ELSE Session
Hears(s)  == \/ s = Dialled /\ connector.link = "open" /\ ~ connector.stopped
             \/ s = Session /\ phone.phase \notin {"idle", "opening", "closed"}
\* A socket that was closed locally still reports its close to the connector.
HearsClose(s) == Hears(s) \/ (s = Dialled /\ connector.link = "closing" /\ ~ connector.stopped)

\* An end reads what its socket brings it, or is still told that it closed.
Heard(e, ms) == IF Hears(Own(e)) THEN Push(down[e], ms)
                ELSE IF HearsClose(Own(e)) THEN Push(down[e], Closes(ms))
                ELSE down[e]

\* The relay sends ms on the socket s, and ns to the peer of s if there is one.
Delivered(s, ms, ns) ==
  [e \in End |-> Heard(e, IF e = s[1] THEN (IF s = Own(e) THEN ms ELSE <<>>)
                          ELSE IF peers[e] = Own(e) THEN ns ELSE <<>>)]

-----------------------------------------------------------------------------
\* The relay (RelayServer.handleUpgrade): one message or one close at a time.

\* relay/register. The incumbent of an id is never evicted.
RelayRegisters(s) ==
  IF peers[s[1]] # None
  THEN /\ open' = open \ {s} /\ up' = [up EXCEPT ![s] = <<>>]
       /\ down' = Delivered(s, <<Error("routing-id-taken"), closed>>, <<>>)
       /\ UNCHANGED peers
  ELSE /\ peers' = [peers EXCEPT ![s[1]] = s]
       /\ up' = [up EXCEPT ![s] = Tail(@)]
       /\ down' = Delivered(s, IF peers[Other(s[1])] = None THEN <<Registered>>
                               ELSE <<Registered, PeerOnline>>, <<PeerOnline>>)
       /\ UNCHANGED open

\* relay/handshake and relay/data: the quota, then the target, then verbatim.
RelayForwards(s, exceeded) ==
  /\ up' = [up EXCEPT ![s] = Tail(@)]
  /\ down' = IF exceeded THEN Delivered(s, <<Error("quota-exceeded")>>, <<>>)
             ELSE IF peers[Other(s[1])] = None THEN Delivered(s, <<Error("peer-offline")>>, <<>>)
             ELSE Delivered(s, <<>>, <<Head(up[s])>>)
  /\ overQuota' = (overQuota \/ (exceeded /\ s[1] = "bridge"))
  /\ faults' = IF exceeded THEN faults + 1 ELSE faults
  /\ UNCHANGED <<peers, open>>

RelayCloses_Silent(s) ==
  /\ open' = open \ {s} /\ up' = [up EXCEPT ![s] = <<>>]
  /\ peers' = IF peers[s[1]] = s THEN [peers EXCEPT ![s[1]] = None] ELSE peers
  /\ down' = Delivered(s, <<closed>>, <<>>)

\* relay/bye, a close frame, or a connection that turns out to be gone.
RelayCloses(s) ==
  LET registered == peers[s[1]] = s
  IN  /\ open' = open \ {s} /\ up' = [up EXCEPT ![s] = <<>>]
      /\ peers' = IF registered THEN [peers EXCEPT ![s[1]] = None] ELSE peers
      /\ down' = Delivered(s, <<closed>>, IF registered THEN <<PeerOffline>> ELSE <<>>)

RelayReads(s) ==
  /\ s \in open /\ up[s] # <<>>
  /\ \/ /\ Head(up[s]) = Register /\ RelayRegisters(s)
        /\ UNCHANGED <<faults, overQuota>>
     \/ /\ Head(up[s]) = closed /\ RelayCloses(s)
        /\ UNCHANGED <<faults, overQuota>>
     \/ /\ Head(up[s]).type \in {"relay/handshake", "relay/data"}
        /\ \E exceeded \in {FALSE} \cup (IF faults < MaxFaults THEN {TRUE} ELSE {}) :
             RelayForwards(s, exceeded)
  /\ UNCHANGED <<connector, phone, backend, greeted, carriedOver>>

\* A connection dies. What was under way is lost from some point on, and each side
\* learns of it in its own time (the relay by its keep-alive ping).
ConnectionDies(s) ==
  /\ s \in open /\ ~ Closing(up[s]) /\ faults < MaxFaults
  /\ \E i \in 0..Len(up[s]) : up' = [up EXCEPT ![s] = SubSeq(@, 1, i) \o <<closed>>]
  /\ IF HearsClose(s)
     THEN \E i \in 0..Len(down[s[1]]) :
            down' = [down EXCEPT ![s[1]] = SubSeq(@, 1, i) \o <<closed>>]
     ELSE UNCHANGED down
  /\ faults' = faults + 1
  /\ UNCHANGED <<connector, phone, backend, greeted, peers, open, overQuota, carriedOver>>

-----------------------------------------------------------------------------
\* The connector. A method yields the object, what it sends, and whether it closes
\* its socket afterwards.

Step(c, sent)  == [object |-> c, sent |-> sent, closes |-> FALSE]

\* closeStream: the stream at hand. Its onClose tells the phone, if there is a channel.
Ungreeted(c)  == [c EXCEPT !.stream = 0, !.live = @ \ {c.stream}]
SendTunnel(c, r) == IF c.channel # None /\ c.link = "open" THEN <<Data(c.channel, r)>> ELSE <<>>
CloseStream(c) ==
  Step(Ungreeted(c), IF c.stream \in c.live
                      THEN SendTunnel(c, Tunnel("unsubscribed", 0, c.stream)) ELSE <<>>)

Torn(c)        == [Ungreeted(c) EXCEPT !.handshake = 0, !.signed = FALSE, !.channel = None,
                            !.link = IF @ = "open" THEN "closing" ELSE "closed"]
RedialLater(c) == [c EXCEPT !.timers = @ + 1, !.state = "backoff"]
Fail(c, sent)  == [object |-> RedialLater(Torn(c)), sent |-> sent, closes |-> TRUE]

\* A dial overwrites the socket of the one before, without closing it.
Dial(c)        == [c EXCEPT !.n = @ + 1, !.link = "dialing", !.state = "dialing"]

BeginSeal(c) ==
  IF c.channel # None \/ c.handshake # 0 THEN Step(c, <<>>)
  ELSE Step([c EXCEPT !.state = "handshaking", !.ephemerals = @ + 1,
                      !.handshake = c.ephemerals + 1, !.signed = FALSE],
            <<Handshake(c.ephemerals + 1, None)>>)

OnSealHandshake(c, m) ==
  LET begun  == BeginSeal(c)
      own    == begun.object.handshake
      signed == [begun.object EXCEPT !.signed = TRUE]
      sent   == begun.sent \o (IF begun.object.signed THEN <<>>
                               ELSE <<BridgeSigned(own, m.eph)>>)
  IN  IF c.channel # None THEN Fail(c, <<>>)
      ELSE IF m.sig = None THEN Step(signed, sent)
      ELSE IF BridgeCompletes(own, m)
      THEN Step([signed EXCEPT !.channel = m.sig, !.handshake = 0, !.state = "tunneled"], sent)
      ELSE Fail(signed, sent)

OnPeerOffline_KeepHandshake(c) == [Ungreeted(c) EXCEPT !.channel = None, !.state = "registered"]

OnPeerOffline(c) == [Ungreeted(c) EXCEPT !.handshake = 0, !.signed = FALSE, !.channel = None,
                              !.state = "registered"]

\* onSealedRecord, for a record that opens: a subscription replaces the one before. The
\* routes of the bridge work on the rest (backend).
OnTunnel(c, m) == IF m.kind \in {"subscribe", "unsubscribe"} THEN CloseStream(c) ELSE Step(c, <<>>)

\* onControlText.
OnControl(c, m) ==
  CASE m = Registered                -> Step([c EXCEPT !.state = "registered"], <<>>)
    [] m = PeerOnline                -> BeginSeal(c)
    [] m = PeerOffline               -> Step(OnPeerOffline(c), <<>>)
    [] m.type = "relay/handshake"    -> OnSealHandshake(c, m)
    [] m.type = "relay/data"         -> IF BridgeOpens(c, m) THEN OnTunnel(c, m)
                                        ELSE IF c.channel = None THEN Step(c, <<>>)
                                        ELSE Fail(c, <<>>)
    [] m = Error("routing-id-taken") -> Fail(c, <<>>)
    [] OTHER                         -> Step(c, <<>>)

\* What is sent on a socket the relay has closed goes nowhere.
Sent(s, ms) == IF s \in open THEN [up EXCEPT ![s] = Push(@, ms)] ELSE up

ConnectorReads ==
  /\ HearsClose(Dialled) /\ down["bridge"] # <<>>
  /\ LET m == Head(down["bridge"])
         r == OnControl(connector, m)
     IN  IF m = closed
         THEN /\ connector' = [RedialLater(Torn(connector)) EXCEPT !.link = "closed"]
              /\ down' = [down EXCEPT !["bridge"] = <<>>]
              /\ UNCHANGED <<up, backend>>
         ELSE /\ connector' = r.object
              /\ up' = Sent(Dialled, r.sent \o (IF r.closes THEN <<closed>> ELSE <<>>))
              /\ down' = [down EXCEPT !["bridge"] =
                            IF r.closes THEN Closes(Tail(@))
                            ELSE Tail(@)]
              /\ backend' = IF m.type = "relay/data" /\ BridgeOpens(connector, m)
                               /\ m.kind \in {"request", "subscribe"}
                            THEN backend \cup {Tunnel(m.kind, m.id, m.of)} ELSE backend
  /\ UNCHANGED <<phone, greeted, peers, open, faults, overQuota, carriedOver>>

\* handleRequest: the answer goes out on whatever channel there is by then.
BackendAnswers(r) ==
  /\ r \in backend /\ r.kind = "request"
  /\ backend' = backend \ {r}
  /\ up' = Sent(Dialled, SendTunnel(connector, Tunnel("response", r.id, r.of)))
  /\ UNCHANGED <<connector, phone, greeted, peers, open, down, faults, overQuota, carriedOver>>

\* The stream becomes the connector's, whatever became of the tunnel that asked for it.
StreamOpens(r) ==
  connector' = [connector EXCEPT !.stream = r.of, !.live = @ \cup {r.of}]

\* handleSubscribe, after openStream: refused, or opened.
SubscribeAnswered(r) ==
  /\ r \in backend /\ r.kind = "subscribe"
  /\ backend' = backend \ {r}
  /\ \/ /\ up' = Sent(Dialled, SendTunnel(connector, Tunnel("subscribe-failed", r.id, r.of)))
        /\ UNCHANGED connector
     \/ StreamOpens(r) /\ UNCHANGED up
  /\ UNCHANGED <<phone, greeted, peers, open, down, faults, overQuota, carriedOver>>

\* onMessage of the stream's sinks, for the hello; the events that follow change nothing.
StreamGreets(n) ==
  /\ n \in connector.live \ greeted
  /\ greeted' = greeted \cup {n}
  /\ up' = Sent(Dialled, SendTunnel(connector, Tunnel("hello", 0, n)))
  /\ UNCHANGED <<connector, phone, backend, peers, open, down, faults, overQuota, carriedOver>>

Unsubscribed_Silent(n) == up
Unsubscribed(n) == Sent(Dialled, SendTunnel(connector, Tunnel("unsubscribed", 0, n)))

\* onClose of the stream's sinks: the bridge ended it (revocation, shutdown, a lost
\* dsh). The connector forgets its stream, which need not be this one.
StreamEnds(n) ==
  /\ n \in connector.live
  /\ connector' = [connector EXCEPT !.stream = 0, !.live = @ \ {n}]
  /\ up' = Unsubscribed(n)
  /\ UNCHANGED <<phone, backend, greeted, peers, open, down, faults, overQuota, carriedOver>>

\* start, and every timer of scheduleRedial: the handle is overwritten, not cleared.
ConnectorDials ==
  /\ ~ connector.stopped /\ connector.n < MaxDials
  /\ \/ connector.n = 0 /\ connector' = Dial(connector)
     \/ connector.timers > 0 /\ connector' = [Dial(connector) EXCEPT !.timers = @ - 1]
  /\ down' = [down EXCEPT !["bridge"] = <<>>]
  /\ carriedOver' = (connector.handshake # 0)
  /\ UNCHANGED <<phone, backend, greeted, peers, open, up, faults, overQuota>>

\* A timer that stop leaves behind finds the connector stopped.
ConnectorStops ==
  /\ connector.n > 0 /\ ~ connector.stopped
  /\ connector' = [Torn(connector) EXCEPT !.stopped = TRUE, !.state = "idle", !.timers = 0]
  /\ up' = IF connector.link = "open" THEN Sent(Dialled, <<closed>>) ELSE up
  /\ down' = [down EXCEPT !["bridge"] = <<>>]
  /\ UNCHANGED <<phone, backend, greeted, peers, open, faults, overQuota, carriedOver>>

ConnectorSocketOpens ==
  /\ connector.link = "dialing"
  /\ connector' = [connector EXCEPT !.link = "open"]
  /\ open' = open \cup {Dialled} /\ up' = [up EXCEPT ![Dialled] = <<Register>>]
  /\ UNCHANGED <<phone, backend, greeted, peers, down, faults, overQuota, carriedOver>>

ConnectorSocketFails ==
  /\ connector.link = "dialing" /\ faults < MaxFaults
  /\ connector' = RedialLater(Torn(connector))
  /\ faults' = faults + 1
  /\ UNCHANGED <<phone, backend, greeted, peers, open, up, down, overQuota, carriedOver>>

-----------------------------------------------------------------------------
\* The phone: one transport, one session. `ended` is how the core took its end: it may
\* connect again ("retry", after a loss or a close of its own), or is in one of the two
\* terminal states.

Finish(p, ended) == [unbuilt EXCEPT !.n = p.n, !.phase = "closed", !.ended = ended]
Finished(p, sent, ended) == [object |-> Finish(p, ended), sent |-> sent, closes |-> TRUE]

PhoneBeginSeal(p) ==
  IF p.channel # None \/ p.begun THEN Step(p, <<>>)
  ELSE Step([p EXCEPT !.phase = "handshaking", !.begun = TRUE, !.signed = FALSE],
            <<Handshake(p.n, None)>>)

\* onHandshakeFrame: the peer's ephemeral is pinned on first sight. A signature that
\* does not verify is a pin mismatch (classify).
OnHandshakeFrame(p, m) ==
  LET begun  == PhoneBeginSeal(p)
      signed == [begun.object EXCEPT !.signed = TRUE, !.peerEphemeral = m.eph]
      sent   == begun.sent \o (IF begun.object.signed THEN <<>>
                               ELSE <<PhoneSigned(p.n, m.eph)>>)
  IN  IF p.channel # None THEN Finished(p, <<>>, "retry")
      ELSE IF p.peerEphemeral \notin {0, m.eph} THEN Finished(begun.object, begun.sent, "retry")
      ELSE IF m.sig = None THEN Step(signed, sent)
      ELSE IF PhoneCompletes(p.n, m)
      THEN Step([signed EXCEPT !.channel = m.sig, !.begun = FALSE, !.phase = "sealed"], sent)
      ELSE Finished(signed, sent, "pin-mismatch")

\* TunnelClient.handle: answers go by their number, and what concerns the subscription
\* concerns the one there is.
OnTunnelMessage(p, m) ==
  CASE m.kind = "response" -> [p EXCEPT !.pending = @ \ {m.id}]
    [] m.kind = "hello" /\ p.sub = "asked" -> [p EXCEPT !.sub = "following", !.hello = m.of]
    [] \/ m.kind = "subscribe-failed" /\ p.sub \in {"asked", "following"} /\ p.subId = m.id
       \/ m.kind = "unsubscribed" /\ p.sub \in {"asked", "following"} ->
         [p EXCEPT !.sub = "ended"]
    [] OTHER -> p

\* onMessage and the socket's close.
OnMessage(p, m) ==
  CASE m \in {Registered, PeerOnline} -> PhoneBeginSeal(p)
    [] m.type = "relay/handshake"     -> OnHandshakeFrame(p, m)
    [] m.type = "relay/data"          ->
         IF p.channel = None THEN Step(p, <<>>)
         ELSE IF ~ PhoneOpens(p, m) THEN Finished(p, <<>>, "retry")
         ELSE Step(OnTunnelMessage(p, m), <<>>)
    [] m = Error("routing-id-taken")  -> Finished(p, <<>>, "routing-collision")
    [] OTHER                          -> Finished(p, <<>>, "retry")

\* Applies what a method of the phone yields, with `rest` of its inbox still unread.
PhoneDoes(r, rest) ==
  /\ phone' = r.object
  /\ up' = Sent(Session, r.sent \o (IF r.closes THEN <<closed>> ELSE <<>>))
  /\ down' = [down EXCEPT !["phone"] = IF r.closes THEN <<>> ELSE rest]
  /\ UNCHANGED <<connector, backend, greeted, peers, open, overQuota, carriedOver>>

PhoneReads ==
  /\ Hears(Session) /\ down["phone"] # <<>>
  /\ PhoneDoes(OnMessage(phone, Head(down["phone"])), Tail(down["phone"]))
  /\ UNCHANGED faults

\* The core builds a transport and starts it, unless the last one ended terminally.
PhoneConnects ==
  /\ phone.phase \in {"idle", "closed"} /\ phone.ended \in {"no", "retry"}
  /\ phone.n < MaxSessions
  /\ phone' = [unbuilt EXCEPT !.n = phone.n + 1, !.phase = "opening"]
  /\ UNCHANGED <<connector, backend, greeted, peers, open, up, down, faults, overQuota, carriedOver>>

PhoneSocketOpens ==
  /\ phone.phase = "opening"
  /\ phone' = [phone EXCEPT !.phase = "registering"]
  /\ open' = open \cup {Session} /\ up' = [up EXCEPT ![Session] = <<Register>>]
  /\ UNCHANGED <<connector, backend, greeted, peers, down, faults, overQuota, carriedOver>>

PhoneSocketFails ==
  /\ phone.phase = "opening" /\ faults < MaxFaults
  /\ PhoneDoes(Finished(phone, <<>>, "retry"), <<>>)
  /\ faults' = faults + 1

\* The core's teardown: it stops the subscription and closes the transport; the bye and
\* the close are one here.
PhoneCloses ==
  /\ phone.phase \notin {"idle", "closed"}
  /\ PhoneDoes(Finished(phone, IF phone.sub \in {"asked", "following"}
                               THEN <<Data(phone.channel, Tunnel("unsubscribe", 0, phone.n))>>
                               ELSE <<>>, "retry"), <<>>)
  /\ UNCHANGED faults

HandshakeTimeout ==
  /\ phone.phase \in {"opening", "registering", "handshaking"}
  /\ PhoneDoes(Finished(phone, <<>>, "retry"), <<>>)
  /\ UNCHANGED faults

PhoneRequests ==
  /\ phone.phase = "sealed" /\ phone.nextId <= MaxRequests
  /\ PhoneDoes(Step([phone EXCEPT !.nextId = @ + 1, !.pending = @ \cup {phone.nextId}],
                    <<Data(phone.channel, Tunnel("request", phone.nextId, phone.n))>>),
               down["phone"])
  /\ UNCHANGED faults

\* The core subscribes once on a transport, after the requests that authenticate it
\* (openStream).
PhoneSubscribes ==
  /\ phone.phase = "sealed" /\ phone.sub = "none" /\ phone.nextId > 1 /\ phone.pending = {}
  /\ PhoneDoes(Step([phone EXCEPT !.nextId = @ + 1, !.sub = "asked", !.subId = phone.nextId],
                    <<Data(phone.channel, Tunnel("subscribe", phone.nextId, phone.n))>>),
               down["phone"])
  /\ UNCHANGED faults

RequestTimesOut(id) ==
  /\ id \in phone.pending
  /\ PhoneDoes(Step([phone EXCEPT !.pending = @ \ {id}], <<>>), down["phone"])
  /\ UNCHANGED faults

-----------------------------------------------------------------------------
RelayInit ==
  /\ connector = undialled /\ phone = unbuilt /\ backend = {}
  /\ greeted = {}
  /\ peers = [e \in End |-> None] /\ open = {}
  /\ up = [s \in Socket |-> <<>>] /\ down = [e \in End |-> <<>>]
  /\ faults = 0 /\ overQuota = FALSE /\ carriedOver = FALSE

RelayNext ==
  \/ \E s \in Socket : RelayReads(s) \/ ConnectionDies(s)
  \/ ConnectorReads \/ ConnectorDials \/ ConnectorStops
  \/ ConnectorSocketOpens \/ ConnectorSocketFails
  \/ \E r \in backend : BackendAnswers(r) \/ SubscribeAnswered(r)
  \/ \E n \in connector.live : StreamGreets(n) \/ StreamEnds(n)
  \/ PhoneReads \/ PhoneConnects \/ PhoneSocketOpens \/ PhoneSocketFails
  \/ PhoneCloses \/ HandshakeTimeout \/ PhoneRequests \/ PhoneSubscribes
  \/ \E id \in phone.pending : RequestTimesOut(id)

RelaySpec == RelayInit /\ [][RelayNext]_relayVars

-----------------------------------------------------------------------------
\* A socket of the connector that it has forgotten and never closed: a failure closes
\* its socket and schedules a redial, the close event that follows schedules another,
\* and the second dial drops what the first one opened.
Orphans == {s \in open : /\ s[1] = "bridge" /\ ~ Closing(up[s])
                         /\ (s # Dialled \/ connector.link # "open")}

\* The phone is about to hear that its session is over.
Ending ==
  \/ Closing(up[Session])
  \/ peers["bridge"] # None /\ Closing(up[peers["bridge"]])
  \/ \E i \in DOMAIN down["phone"] :
       down["phone"][i].type \in {"close", "relay/peer-offline", "relay/error"}

\* A sealed phone never talks to a bridge that has forgotten it: the bridge holds the
\* same channel, or the signature that gives it is on its way, or the phone is about to hear
\* that the session is over. Orphaned sockets are the exception the code leaves open.
SealedIsMutual ==
  phone.channel # None =>
    \/ connector.channel = phone.channel
    \/ Handshake(phone.n, phone.channel) \in ToSet(up[Session]) \cup ToSet(down["bridge"])
    \/ Ending
    \/ Orphans # {}

\* The handshake never stalls: when both ends are registered and nothing is under way,
\* they hold one channel, whatever late notices and frames of earlier connections they
\* had to read, unless a frame of the bridge was dropped for its quota or the connector
\* still held a handshake of an earlier socket when it dialled this one.
QuietMeansSealed ==
  (/\ \A e \in End : down[e] = <<>>
   /\ \A s \in open : up[s] = <<>>
   /\ peers["bridge"] = Dialled /\ Hears(Dialled)
   /\ peers["phone"] = Session /\ Hears(Session)
   /\ ~ overQuota /\ ~ carriedOver)
  => phone.channel # None /\ connector.channel = phone.channel /\ connector.state = "tunneled"

\* No honest record is taken for a forged one: a record that reaches an end with a
\* channel was sealed for that channel.
HonestRecordsOpen ==
  \A e \in End :
    LET own == IF e = "bridge" THEN connector.channel ELSE phone.channel
    IN  (down[e] # <<>> /\ Head(down[e]).type = "relay/data" /\ own # None)
        => Head(down[e]).key = own

\* A request the phone waits for is on its way, being worked on or answered, or the
\* phone is about to hear that the session is over; nothing but its timer is left
\* to end the wait in the two cases excepted.
NoRequestIsForgotten ==
  \A id \in phone.pending :
    LET OfIt(q) == \E m \in ToSet(q) : m.type = "relay/data" /\ m.id = id
    IN  \/ OfIt(up[Session]) \/ OfIt(down["bridge"]) \/ OfIt(down["phone"])
        \/ Tunnel("request", id, phone.n) \in backend
        \/ peers["bridge"] # None /\ OfIt(up[peers["bridge"]])
        \/ Ending \/ Orphans # {} \/ overQuota

\* "a silent drop is how a UI ends up showing `ready` over a dead tunnel"
\* (relay-transport.ts, onRelayClosed), for the stream inside it: a phone that waits for
\* its hello, or follows a stream, is served by one that lives, or something is on its
\* way that moves it, or it is about to hear that the session is over.
SubscriptionIsServed ==
  phone.sub \in {"asked", "following"} =>
    LET Moves(q) == \E m \in ToSet(q) :
          /\ m.type = "relay/data"
          /\ m.kind \in {"subscribe", "hello", "subscribe-failed", "unsubscribed"}
    IN  \/ phone.sub = "asked" /\ \/ Moves(up[Session]) \/ Moves(down["bridge"])
                                  \/ Tunnel("subscribe", phone.subId, phone.n) \in backend
                                  \/ phone.n \in connector.live \ greeted
        \/ phone.sub = "following" /\ phone.hello \in connector.live
        \/ Moves(down["phone"])
        \/ peers["bridge"] # None /\ Moves(up[peers["bridge"]])
        \/ Ending \/ Orphans # {} \/ overQuota

\* The two ends of a session that are terminal, because they accuse somebody (classify,
\* handleFailure): here nobody forges and nobody else has the phone's routing id, and a
\* phone is told so only by what is left of an earlier session of its own, a signature
\* still on its way or a socket the relay still counts.
AccusedOnlyAfterOverlap ==
  phone.ended \in {"pin-mismatch", "routing-collision"} => phone.n > 1

\* The two ends hold one channel, or the phone is about to hear otherwise; what one of
\* them seals, the other opens; and neither of the two is taken for a stranger.
ChannelsAgree == SealedIsMutual /\ HonestRecordsOpen /\ AccusedOnlyAfterOverlap

\* Nothing that the phone waits for, an answer or what a stream owes it, is forgotten by
\* all who could move it.
NobodyWaitsForNothing == NoRequestIsForgotten /\ SubscriptionIsServed
=============================================================================
