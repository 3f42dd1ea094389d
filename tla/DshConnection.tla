--------------------------- MODULE DshConnection ---------------------------
(***************************************************************************)
(* The bridge's connection to dsh (bridge/src/dsh/connection.ts, with the  *)
(* reader of downlink.ts): a loop that builds one generation after         *)
(* another, each of two sockets and a handshake.  The loop and the two     *)
(* pumps are asynchronous functions; an action here is what one of them    *)
(* does between two awaits.                                                *)
(*                                                                         *)
(* The sinks (onConnected, onDisconnected, onMuxFrame, onHostFrame) are    *)
(* called inside these steps: BridgeCore conjoins each step with the       *)
(* action of the hub that the sink runs.                                   *)
(*                                                                         *)
(* The bridge calls start once and stop at most once (bridge.ts).  The     *)
(* sockets, inbox and abort signal are those of the current generation:    *)
(* what is left of an earlier one can only close, and its `settle` finds   *)
(* its own signal aborted already.                                         *)
(***************************************************************************)
EXTENDS Integers, Sequences

VARIABLES
  running,
  attempt,      \* 0, or how often in a row; 2 stands for every larger value
  connState,    \* DshConnectionState
  description,  \* whether a host.describe value is published
  loop,         \* where the loop is suspended
  described,    \* the generation's describe call: waiting, ok or failed
  openTimedOut, \* the open-timeout of the handshake has fired
  aborted,      \* the generation's AbortController
  settled,      \* `failed` has resolved
  socket,       \* the two sockets as the reader sees them
  inbox         \* frames received and not yet pumped

connVars == <<running, attempt, connState, description, loop, described,
              openTimedOut, aborted, settled, socket, inbox>>

Carrier == {"mux", "host"}

ConnInit ==
  /\ running = FALSE /\ attempt = 0 /\ connState = "idle" /\ description = FALSE
  /\ loop = "unstarted" /\ described = "waiting"
  /\ openTimedOut = FALSE /\ aborted = FALSE /\ settled = FALSE
  /\ socket = [c \in Carrier |-> "closed"] /\ inbox = [c \in Carrier |-> <<>>]

\* The head of the loop: a new generation, both sockets dialled, describe sent.
NewGeneration ==
  /\ connState' = IF attempt = 0 THEN "connecting" ELSE "reconnecting"
  /\ loop' = "handshake"
  /\ described' = "waiting"
  /\ openTimedOut' = FALSE /\ aborted' = FALSE /\ settled' = FALSE
  /\ socket' = [c \in Carrier |-> "connecting"]
  /\ inbox' = [c \in Carrier |-> <<>>]

Start == /\ ~ running /\ loop = "unstarted"
         /\ running' = TRUE
         /\ NewGeneration
         /\ UNCHANGED <<attempt, description>>

\* handleAbort: the reader closes a socket that is not closed yet; what is
\* already in the inbox is still pumped.
CloseSockets == socket' = [c \in Carrier |-> "closed"]

Stop == /\ running
        /\ running' = FALSE
        /\ aborted' = TRUE
        /\ CloseSockets
        /\ UNCHANGED <<attempt, connState, description, loop, described,
                       openTimedOut, settled, inbox>>

\* handleOpen, with the frames the peer sends on opening.
SocketOpens(c, greeting) ==
  /\ socket[c] = "connecting"
  /\ socket' = [socket EXCEPT ![c] = "open"]
  /\ inbox' = [inbox EXCEPT ![c] = @ \o greeting]
  /\ UNCHANGED <<running, attempt, connState, description, loop, described,
                 openTimedOut, aborted, settled>>

\* handleMessage, on the carriers the peer has something for.
Receive(frames) ==
  inbox' = [c \in Carrier |-> IF socket[c] = "open" THEN inbox[c] \o frames[c]
                                                    ELSE inbox[c]]

\* handleClose or handleError: the peer or the network ended these sockets.
SocketsEnd(cs) == socket' = [c \in Carrier |-> IF c \in cs THEN "closed" ELSE socket[c]]

\* The describe call is answered, fails, times out, or is aborted.
Describe(result) ==
  /\ loop = "handshake" /\ described = "waiting"
  /\ described' = result
  /\ UNCHANGED <<running, attempt, connState, description, loop,
                 openTimedOut, aborted, settled, socket, inbox>>

OpenTimeout ==
  /\ loop = "handshake" /\ ~ openTimedOut
  /\ openTimedOut' = TRUE
  /\ UNCHANGED <<running, attempt, connState, description, loop, described,
                 aborted, settled, socket, inbox>>

StreamsOpen == \A c \in Carrier : socket[c] = "open"

\* The second promise of the handshake: the sockets, the timeout or the abort.
OpenWaitOver == StreamsOpen \/ openTimedOut \/ aborted

\* Both promises resolved in a generation that is not aborted: onConnected.
HandshakeSucceeds ==
  /\ loop = "handshake" /\ described = "ok" /\ OpenWaitOver /\ ~ aborted
  /\ attempt' = 0
  /\ description' = TRUE
  /\ connState' = "connected"
  /\ loop' = "serving"
  /\ UNCHANGED <<running, described, openTimedOut, aborted, settled, socket, inbox>>

HandshakeFails ==
  /\ loop = "handshake"
  /\ \/ described = "failed"
     \/ described = "ok" /\ aborted
  /\ aborted' = TRUE
  /\ CloseSockets
  /\ loop' = "serving"
  /\ UNCHANGED <<running, attempt, connState, description, described,
                 openTimedOut, settled, inbox>>

\* One turn of a pump: the next frame goes to the sink.
Pump(c) ==
  /\ inbox[c] # <<>>
  /\ inbox' = [inbox EXCEPT ![c] = Tail(@)]
  /\ UNCHANGED <<running, attempt, connState, description, loop, described,
                 openTimedOut, aborted, settled, socket>>

\* The pump's stream is exhausted: settle ends the whole generation.
PumpEnds(c) ==
  /\ loop \in {"handshake", "serving"}
  /\ socket[c] = "closed" /\ inbox[c] = <<>> /\ ~ settled
  /\ settled' = TRUE
  /\ aborted' = TRUE
  /\ CloseSockets
  /\ UNCHANGED <<running, attempt, connState, description, loop, described,
                 openTimedOut, inbox>>

WasConnected_AnyGeneration == TRUE
WasConnected == connState = "connected"

\* After `await failed`: onDisconnected if the generation was connected, then
\* the loop returns or backs off.
GenerationLost ==
  /\ loop = "serving" /\ settled
  /\ description' = FALSE
  /\ IF running
     THEN /\ connState' = "reconnecting"
          /\ attempt' = IF attempt < 2 THEN attempt + 1 ELSE 2
          /\ loop' = "backoff"
     ELSE /\ loop' = "returned"
          /\ UNCHANGED <<connState, attempt>>
  /\ UNCHANGED <<running, described, openTimedOut, aborted, settled, socket, inbox>>

BackoffEnds_GiveUp ==
  /\ loop = "backoff" /\ \A c \in Carrier : inbox[c] = <<>>
  /\ IF running /\ attempt < 2
     THEN NewGeneration
     ELSE /\ loop' = "returned"
          /\ UNCHANGED <<connState, described, openTimedOut, aborted, settled,
                         socket, inbox>>
  /\ UNCHANGED <<running, attempt, description>>
BackoffEnds_IgnoreStop ==
  /\ loop = "backoff" /\ \A c \in Carrier : inbox[c] = <<>>
  /\ NewGeneration
  /\ UNCHANGED <<running, attempt, description>>
\* The backoff sleep is over (or stop interrupted it). By then the inboxes of
\* the lost generation are drained: pumping takes no timer.
BackoffEnds ==
  /\ loop = "backoff" /\ \A c \in Carrier : inbox[c] = <<>>
  /\ IF running
     THEN NewGeneration
     ELSE /\ loop' = "returned"
          /\ UNCHANGED <<connState, described, openTimedOut, aborted, settled,
                         socket, inbox>>
  /\ UNCHANGED <<running, attempt, description>>

\* The rest of stop, after the loop returned.
StopReturns ==
  /\ ~ running /\ loop = "returned"
  /\ description' = FALSE
  /\ connState' = "idle"
  /\ loop' = "stopped"
  /\ UNCHANGED <<running, attempt, described, openTimedOut, aborted, settled,
                 socket, inbox>>
=============================================================================
