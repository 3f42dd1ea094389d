----------------------------- MODULE BridgeCore -----------------------------
(***************************************************************************)
(* The connection to dsh wired to the hub, as buildBridge wires them       *)
(* (bridge/src/bridge.ts): the connection's sinks are the hub's methods.   *)
(* Around them the dsh process asks for approvals and answers, resolves    *)
(* them, crashes and comes back, and the network drops or hangs sockets.   *)
(*                                                                         *)
(* No phone is attached here (Stream is empty): phones do not influence    *)
(* the hub's stores except by answering, which is Respond's subject.       *)
(***************************************************************************)
EXTENDS StreamHub, DshConnection

CONSTANT MaxFaults   \* bound: crashes, lost or hung sockets, failed calls

ASSUME MaxFaultsAssumption == MaxFaults \in Nat

VARIABLES
  dshUp,       \* external: the dsh process serves requests
  asked,       \* external: what this dsh process waits for an answer to
  everAsked,   \* external: dsh never reuses an rpcId
  faults

envVars == <<dshUp, asked, everAsked, faults>>
coreVars == <<hubVars, connVars, envVars>>

CoreInit == /\ HubInit /\ ConnInit
            /\ dshUp = TRUE /\ asked = {} /\ everAsked = {} /\ faults = 0

Fault == faults < MaxFaults /\ faults' = faults + 1

-----------------------------------------------------------------------------
\* The dsh process (external).

Requests(rs) == [i \in 1 .. Cardinality(rs) |-> Requested(SetToSeq(rs)[i])]
OnMux(frames) == [c \in Carrier |-> IF c = "mux" THEN frames ELSE <<>>]

DshSends(frames) ==
  /\ Receive(frames)
  /\ UNCHANGED <<hubVars, running, attempt, connState, description, loop, described,
                 openTimedOut, aborted, settled, socket, dshUp, faults>>

DshAsks == \E r \in Rpc \ everAsked :
  /\ dshUp
  /\ asked' = asked \cup {r} /\ everAsked' = everAsked \cup {r}
  /\ DshSends(OnMux(<<Requested(r)>>))

\* Another client answered, or the tool call was cancelled.
DshResolves == \E r \in asked :
  /\ asked' = asked \ {r} /\ UNCHANGED everAsked
  /\ DshSends(OnMux(<<Resolved(r)>>))

\* A session goes away: what it waited for is resolved on the mux stream.
DshRemovesSession == \E s \in Session :
  LET dead == {r \in asked : SessionOf[r] = s}
  IN  /\ dshUp /\ \E r \in everAsked : SessionOf[r] = s
      /\ asked' = asked \ dead
      /\ everAsked' = everAsked \cup {r \in Rpc : SessionOf[r] = s}
      /\ {r \in Rpc : SessionOf[r] = s} \ everAsked # {} \/ dead # {}
      /\ DshSends([c \in Carrier |-> IF c = "host" THEN <<Removed(s)>>
                     ELSE [i \in 1 .. Cardinality(dead) |-> Resolved(SetToSeq(dead)[i])]])

DshCrashes == /\ dshUp /\ Fault
              /\ dshUp' = FALSE /\ asked' = {}
              /\ SocketsEnd(Carrier)
              /\ UNCHANGED <<hubVars, running, attempt, connState, description, loop,
                             described, openTimedOut, aborted, settled, inbox, everAsked>>

DshBoots == /\ ~ dshUp /\ dshUp' = TRUE
            /\ UNCHANGED <<hubVars, connVars, asked, everAsked, faults>>

\* The network ends one socket; dsh lives on.
SocketDrops == \E c \in Carrier :
  /\ socket[c] # "closed" /\ Fault
  /\ SocketsEnd({c})
  /\ UNCHANGED <<hubVars, running, attempt, connState, description, loop, described,
                 openTimedOut, aborted, settled, inbox, dshUp, asked, everAsked>>

-----------------------------------------------------------------------------
\* The connection's steps with the sinks they call.

StartBridge == Start /\ UNCHANGED <<hubVars, envVars>>
StopBridge  == Stop /\ UNCHANGED <<hubVars, envVars>>

\* A dial succeeds only into a running dsh, which replays what it waits for.
OpenSocket(c) ==
  /\ dshUp
  /\ SocketOpens(c, IF c = "mux" THEN Requests(asked) ELSE <<>>)
  /\ UNCHANGED <<hubVars, envVars>>

RefuseSocket(c) ==
  /\ ~ dshUp /\ socket[c] = "connecting"
  /\ SocketsEnd({c})
  /\ UNCHANGED <<hubVars, running, attempt, connState, description, loop, described,
                 openTimedOut, aborted, settled, inbox, envVars>>

DescribeAnswers == dshUp /\ Describe("ok") /\ UNCHANGED <<hubVars, envVars>>
DescribeFails == /\ Describe("failed")
                 /\ IF dshUp /\ ~ aborted THEN Fault ELSE UNCHANGED faults
                 /\ UNCHANGED <<hubVars, dshUp, asked, everAsked>>

\* A socket that neither opens nor fails within the timeout hangs.
HandshakeTimesOut == /\ ~ StreamsOpen /\ ~ aborted /\ Fault /\ OpenTimeout
                     /\ UNCHANGED <<hubVars, dshUp, asked, everAsked>>

Connected == HandshakeSucceeds /\ OnDshReady /\ UNCHANGED envVars

HandshakeFailed == HandshakeFails /\ UNCHANGED <<hubVars, envVars>>

Disconnected ==
  /\ GenerationLost
  /\ IF WasConnected THEN OnDshDisconnected ELSE UNCHANGED hubVars
  /\ UNCHANGED envVars

PumpMux  == /\ Pump("mux") /\ IngestMux(Head(inbox["mux"]))
            /\ UNCHANGED envVars
PumpHost == /\ Pump("host") /\ IngestHost(Head(inbox["host"]))
            /\ UNCHANGED envVars

PumpEnd(c) == PumpEnds(c) /\ UNCHANGED <<hubVars, envVars>>
BackoffOver == BackoffEnds /\ UNCHANGED <<hubVars, envVars>>
StopReturn  == StopReturns /\ UNCHANGED <<hubVars, envVars>>

CoreNext ==
  \/ StartBridge \/ StopBridge
  \/ DshAsks \/ DshResolves \/ DshRemovesSession \/ DshCrashes \/ DshBoots \/ SocketDrops
  \/ \E c \in Carrier : OpenSocket(c) \/ RefuseSocket(c) \/ PumpEnd(c)
  \/ DescribeAnswers \/ DescribeFails \/ HandshakeTimesOut
  \/ Connected \/ HandshakeFailed \/ Disconnected
  \/ PumpMux \/ PumpHost \/ BackoffOver \/ StopReturn

CoreSpec == CoreInit /\ [][CoreNext]_coreVars

\* What the event loop and the timers owe every suspended function, and that a
\* dsh that is down is started again. Whether dsh asks, resolves or crashes,
\* whether the network drops a socket, and whether the bridge is ever stopped,
\* is nobody's duty.
CoreFairness ==
  /\ WF_coreVars(StartBridge)
  /\ WF_coreVars(DshBoots)
  /\ \A c \in Carrier : /\ WF_coreVars(OpenSocket(c) \/ RefuseSocket(c))
                        /\ WF_coreVars(PumpEnd(c))
  /\ WF_coreVars(DescribeAnswers \/ DescribeFails)
  /\ WF_coreVars(Connected \/ HandshakeFailed)
  /\ WF_coreVars(Disconnected)
  /\ WF_coreVars(PumpMux) /\ WF_coreVars(PumpHost)
  /\ WF_coreVars(BackoffOver) /\ WF_coreVars(StopReturn)
CoreFairSpec == CoreSpec /\ CoreFairness

-----------------------------------------------------------------------------
\* How often a generation was announced, and how often lost, up to place n of the log.
Announced(n) == Cardinality({i \in 1 .. n : log[i].type = "dsh-ready"})
Lost(n)      == Cardinality({i \in 1 .. n : log[i].type = "dsh-disconnected"})

\* The phones' view of the dsh lifecycle is a strict alternation: generations are
\* numbered as they are announced, each after the one before it was lost, and lost once;
\* and one that replaced another is announced right after the order to resync.
LifecycleAlternates ==
  \A i \in Index :
    /\ log[i].type = "dsh-ready" => /\ log[i] = DshReadyFrame(Announced(i))
                                   /\ Announced(i) = Lost(i) + 1
    /\ log[i].type = "dsh-disconnected" => Announced(i) = Lost(i)
    /\ (log[i].type = "dsh-ready" /\ log[i].generation > 1)
         <=> (i > 1 /\ log[i - 1] = DshRestarted)

\* The bridge has read everything the current generation sent so far.
CaughtUp == /\ dshReady /\ StreamsOpen
            /\ \A c \in Carrier : inbox[c] = <<>>

LastReady == LET ready == {i \in Index : log[i].type = "dsh-ready"}
             IN  CHOOSE i \in ready : \A j \in ready : j <= i

\* An approval that dsh asked for on a connected generation can be answered by a
\* phone until it is resolved.
AskedWhileConnectedIsPending ==
  CaughtUp =>
    \A r \in asked :
      (\E i \in LastReady .. Len(log) : log[i] = Requested(r)) => r \in pending

\* Once a generation has replaced another, no phone is offered an approval that
\* dsh no longer waits for.
NoDeadObligationAfterRestart == CaughtUp /\ generation > 1 => pending \subseteq asked

\* What phones can answer follows what dsh waits for, through crashes, replays and lost
\* sockets: nothing that a connected generation asked for is lost, and nothing of an
\* earlier one is left.
ObligationsFollowDsh == AskedWhileConnectedIsPending /\ NoDeadObligationAfterRestart

\* The bridge gets its connection back: unless it is stopped it is connected again and
\* again, until the faults cease, and then for good. A generation that the open timeout
\* let pass without both sockets comes to have them, or makes way for another one, if
\* only each of its sockets opens or fails at last.
ConnectsForGood == <>[](running => dshReady /\ StreamsOpen)

\* Stopping ends the loop whatever it was waiting for.
StopCompletes == [](~ running /\ loop # "unstarted" => <>(loop = "stopped"))
=============================================================================
