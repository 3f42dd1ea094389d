------------------------------- MODULE M1Core -------------------------------
(***************************************************************************)
(* The phone's session with its bridge (src/m1/core.ts, class M1Core, over *)
(* src/m1/lan-transport.ts): connecting, authenticating, following the     *)
(* stream, sending requests, backing off, pairing anew and being cleared   *)
(* or revoked.                                                             *)
(*                                                                         *)
(* The object's fields are the record `core`; its methods are operators on *)
(* that record, and an action is what the event loop runs between two      *)
(* awaits: the settling of a promise together with everything that waited  *)
(* for it.  A request that is under way when its transport is closed still *)
(* answers later.  So does a write to the phone's store that is awaited:   *)
(* the new route of a pairing and the wiping of a cleared one settle when  *)
(* the session may long be another, or are rejected.  Cursors and resyncs  *)
(* are StreamResume's subject, the bridge's side of tokens and nonces      *)
(* AuthService's.  The state `pairing` covers the wait for the operator,   *)
(* `refused` every end of a pairing that a new code must replace.          *)
(***************************************************************************)
EXTENDS Naturals, FiniteSets

CONSTANTS
  Auth,         \* slots for runAuthenticate calls under way
  Request,      \* slots for requests under way
  NoAttempt,
  MaxTransports,\* bound: transports built
  MaxIntents,   \* bound: what the user starts: pairings, clears, new addresses
  MaxFaults     \* bound: failed requests and writes, lost streams, bridge restarts, late proofs

ASSUME M1Assumption == /\ NoAttempt \notin Auth
                       /\ MaxTransports \in Nat /\ MaxIntents \in Nat /\ MaxFaults \in Nat

VARIABLES
  core,      \* the fields of M1Core
  request,   \* per slot: the suspended `authorized` call in it
  device,    \* external: the phone's record at the bridge
  everRevoked, \* history: the operator revoked the device since it was paired
  built,     \* transports built so far
  intents, faults,
  mishaps    \* history: the races the code leaves open that have happened

m1Vars == <<core, request, device, everRevoked, built, intents, faults, mishaps>>

noAuth    == [at |-> "free", transport |-> 0, bridge |-> 0, good |-> FALSE]
noConnect == [at |-> "none", generation |-> 0, transport |-> 0, auth |-> NoAttempt]
noRequest == [at |-> "free", transport |-> 0, generation |-> 0, auth |-> NoAttempt,
              token |-> "none"]

\* A bridge is the number of the pairing with it, 0 for none; a token is none, good, or
\* one that the bridge does not accept. Awaited writes are named by the generation that
\* issued them: those of runPair, those of clear, and those that were rejected.
M1Init ==
  /\ core = [state |-> "unstarted", bridge |-> 0, generation |-> 0, transport |-> 0,
             token |-> "none", subscription |-> "none", streamOf |-> 0, retryTimer |-> FALSE,
             connect |-> noConnect, authInFlight |-> NoAttempt, pairing |-> FALSE,
             adopting |-> {}, clearing |-> {}, rejected |-> {},
             auth |-> [a \in Auth |-> noAuth]]
  /\ request = [r \in Request |-> noRequest]
  /\ device \in {"unpaired", "active"}
  /\ everRevoked = FALSE /\ built = 0 /\ intents = 0 /\ faults = 0 /\ mishaps = {}

-----------------------------------------------------------------------------
\* Methods, as operators on the record.

Terminal(k) == k.state \in {"revoked", "pin-mismatch", "cleared", "refused"}

TeardownTransport(k) == [k EXCEPT !.subscription = "none", !.transport = 0,
                                  !.token = "none", !.authInFlight = NoAttempt]
Teardown(k) == [TeardownTransport(k) EXCEPT !.retryTimer = FALSE]

ScheduleRetry_NoTimer(k) ==
  IF Terminal(k) THEN k
  ELSE [TeardownTransport(k) EXCEPT !.state = "reconnecting"]
ScheduleRetry_KeepState(k) ==
  IF Terminal(k) THEN k
  ELSE [TeardownTransport(k) EXCEPT !.retryTimer = TRUE]
\* scheduleRetry: the transport goes, the timer is set, unless the session ended.
ScheduleRetry(k) ==
  IF Terminal(k) THEN k
  ELSE [TeardownTransport(k) EXCEPT !.state = "reconnecting", !.retryTimer = TRUE]

ApplyRevocation(k) ==
  IF k.state = "revoked" THEN k
  ELSE [Teardown(k) EXCEPT !.generation = @ + 1, !.bridge = 0, !.pairing = FALSE,
                           !.state = "revoked"]

\* A failure becomes a state: the bridge's word that it does not know this device ends
\* the pairing, a strange bridge stops the session, everything else is tried again.
HandleFailure_RevokeOffline(k, failure) ==
  CASE Terminal(k) -> k
    [] ~ Terminal(k) /\ failure = "pin-mismatch" -> [Teardown(k) EXCEPT !.state = "pin-mismatch"]
    [] OTHER -> ApplyRevocation(k)
HandleFailure(k, failure) ==
  CASE Terminal(k) -> k
    [] ~ Terminal(k) /\ failure = "pin-mismatch" -> [Teardown(k) EXCEPT !.state = "pin-mismatch"]
    [] ~ Terminal(k) /\ failure \in {"unauthenticated", "device-revoked"} -> ApplyRevocation(k)
    [] OTHER -> ScheduleRetry(k)

FreeAuths(k) == {a \in Auth : k.auth[a].at = "free"}

\* authenticate up to its await: concurrent callers share the attempt in flight.
Attempt(k, a) == IF k.authInFlight # NoAttempt THEN k.authInFlight ELSE a
Authenticating(k, a) ==
  IF k.authInFlight # NoAttempt THEN k
  ELSE [k EXCEPT !.authInFlight = a,
         !.auth[a] = [at |-> "challenge", transport |-> k.transport,
                      bridge |-> k.bridge, good |-> FALSE]]

Connects(k) == k.bridge # 0 /\ ~ Terminal(k)
Swallowed(k) == Connects(k) /\ k.connect.at # "none"

\* connect up to its await: a transport is built and authentication begins. A call that
\* finds another one under way returns at once.
Connect(k, a, t) ==
  IF ~ Connects(k) \/ k.connect.at # "none" THEN k
  ELSE LET c == [k EXCEPT !.retryTimer = FALSE, !.state = "connecting", !.transport = t]
       IN  [Authenticating(c, a) EXCEPT
              !.connect = [at |-> "authenticating", generation |-> k.generation,
                           transport |-> t, auth |-> Attempt(c, a)]]

NextTransport == built + 1
Builds(k) == IF Connects(k) /\ k.connect.at = "none"
             THEN built < MaxTransports /\ built' = NextTransport ELSE UNCHANGED built
Note(what, happened) == mishaps' = IF happened THEN mishaps \cup {what} ELSE mishaps

\* `connect` is called on the record k.
Calls(k) == \E a \in FreeAuths(k) : core' = Connect(k, a, NextTransport) /\ Builds(k)
ConnectOn(k) == Calls(k) /\ Note("connect swallowed", Swallowed(k))

Fault == faults < MaxFaults /\ faults' = faults + 1
Intent == intents < MaxIntents /\ intents' = intents + 1

-----------------------------------------------------------------------------
\* The user.

Start ==
  /\ core.state = "unstarted"
  /\ IF device = "active"
     THEN ConnectOn([core EXCEPT !.bridge = 1, !.state = "paired"])
     ELSE core' = [core EXCEPT !.state = "unpaired"] /\ UNCHANGED <<built, mishaps>>
  /\ UNCHANGED <<request, device, everRevoked, intents, faults>>

Started == core.state # "unstarted"

ReconnectNow ==
  /\ Started /\ Connects(core) /\ Intent
  /\ ConnectOn(TeardownTransport(core))
  /\ UNCHANGED <<request, device, everRevoked, faults>>

Pair ==
  /\ Started /\ Intent
  /\ core' = [Teardown(core) EXCEPT !.generation = @ + 1, !.state = "pairing", !.pairing = TRUE]
  /\ UNCHANGED <<request, device, everRevoked, built, faults, mishaps>>

\* applyPairFailure: the code that was scanned is used up, or it may be tried again, or
\* the relay refused it. A bridge that was paired before stays.
AfterPairFailure == {"refused", "unpaired", "relay-unavailable"}

\* A pairing run that nothing superseded ends. One that was superseded is forgotten. The
\* new bridge is in use at once, its write is awaited.
PairEnds(ok) ==
  /\ core.pairing
  /\ LET k == [core EXCEPT !.pairing = FALSE]
     IN  IF ok
         THEN /\ device' = "active" /\ everRevoked' = FALSE
              /\ core' = [k EXCEPT !.bridge = intents + 1,
                                   !.adopting = @ \cup {core.generation}]
         ELSE /\ \E state \in AfterPairFailure : core' = [k EXCEPT !.state = state]
              /\ UNCHANGED <<device, everRevoked>>
  /\ UNCHANGED <<request, built, intents, faults, mishaps>>

\* The write of a pairing's route settles. Nobody asks whether its generation still is
\* the session's.
AdoptionSettles(g) ==
  /\ g \in core.adopting
  /\ LET k == [core EXCEPT !.adopting = @ \ {g}, !.state = "paired"]
     IN  /\ Calls(k)
         /\ mishaps' = mishaps \cup {what \in {"connect swallowed", "adopted late"} :
                           IF what = "adopted late" THEN g # core.generation ELSE Swallowed(k)}
  /\ UNCHANGED <<request, device, everRevoked, intents, faults>>

\* clear up to its await: everything goes but the published state.
ClearPairing ==
  /\ Started /\ Intent
  /\ core' = [Teardown(core) EXCEPT !.generation = @ + 1, !.bridge = 0, !.pairing = FALSE,
                                    !.clearing = @ \cup {core.generation + 1}]
  /\ UNCHANGED <<request, device, everRevoked, built, faults, mishaps>>

\* The wiped store is confirmed, and only now the session says so, whichever it is by now.
ClearSettles(g) ==
  /\ g \in core.clearing
  /\ core' = [core EXCEPT !.clearing = @ \ {g}, !.state = "cleared"]
  /\ UNCHANGED <<request, device, everRevoked, built, intents, faults, mishaps>>

\* A rejected write ends the method that awaited it, and changes nothing.
WriteRejected(g) ==
  /\ g \in core.adopting \cup core.clearing /\ Fault
  /\ core' = [core EXCEPT !.adopting = @ \ {g}, !.clearing = @ \ {g},
                          !.rejected = @ \cup {g}]
  /\ UNCHANGED <<request, device, everRevoked, built, intents, mishaps>>

-----------------------------------------------------------------------------
\* Authentication.

\* The challenge is answered for an active device: the proof is sent.
ChallengeAnswers(a) ==
  /\ core.auth[a].at = "challenge" /\ device = "active"
  /\ core' = [core EXCEPT !.auth[a].at = "proof", !.auth[a].good = TRUE]
  /\ UNCHANGED <<request, device, everRevoked, built, intents, faults, mishaps>>

OpenStream(k) == [k EXCEPT !.subscription = "dialling", !.streamOf = k.transport]

\* What `connect` does once its authentication settled: it opens the stream, unless its
\* generation or its transport was replaced; a failure is looked at for the generation.
ConnectResumes(k, outcome) ==
  LET c == k.connect  done == [k EXCEPT !.connect = noConnect]
  IN  CASE c.generation # k.generation -> done
        [] c.generation = k.generation /\ outcome = "ok" ->
             IF c.transport = k.transport THEN OpenStream(done) ELSE done
        [] OTHER -> HandleFailure(done, outcome)

\* The fields after runAuthenticate and authenticate: the token, the stored bridge when
\* the operator changed the tier, and no attempt in flight.
Adopted(k, a, outcome, tierChanged) ==
  LET freed == [k EXCEPT !.auth[a] = noAuth, !.authInFlight = NoAttempt]
  IN  IF outcome # "ok" THEN freed
      ELSE [freed EXCEPT !.token = "good",
                         !.bridge = IF tierChanged THEN k.auth[a].bridge ELSE @]

\* Requests that waited for the attempt go on with the token, or end.
RequestsResume(a, outcome, token) ==
  request' = [r \in Request |->
    IF request[r].auth # a THEN request[r]
    ELSE IF outcome # "ok" THEN noRequest
    ELSE [request[r] EXCEPT !.auth = NoAttempt, !.token = token,
            !.at = IF @ = "reauth" THEN "recalling" ELSE "calling"]]

AuthSettles(a, outcome, tierChanged) ==
  LET adopted == Adopted(core, a, outcome, tierChanged)
      waiting == core.connect.at # "none" /\ core.connect.auth = a
  IN  /\ core' = IF waiting THEN ConnectResumes(adopted, outcome) ELSE adopted
      /\ RequestsResume(a, outcome, adopted.token)
      /\ UNCHANGED <<device, everRevoked, built, intents>>

ProofAccepted(a) ==
  /\ core.auth[a].at = "proof" /\ core.auth[a].good
  /\ \E tierChanged \in BOOLEAN : AuthSettles(a, "ok", tierChanged)
  /\ Note("authentication outlived its transport", core.auth[a].transport # core.transport)
  /\ UNCHANGED faults

\* The bridge does not know the device, or lost the nonce of this proof.
AuthRefused(a) ==
  /\ \/ core.auth[a].at = "challenge" /\ device # "active"
     \/ core.auth[a].at = "proof" /\ ~ core.auth[a].good
  /\ AuthSettles(a, "unauthenticated", FALSE)
  /\ Note("nonce lost", device = "active")
  /\ UNCHANGED faults

AuthFails(a) ==
  /\ core.auth[a].at # "free" /\ Fault
  /\ \E failure \in {"offline", "pin-mismatch"} :
       /\ failure = "pin-mismatch" => core.auth[a].at = "challenge"
       /\ AuthSettles(a, failure, FALSE)
  /\ UNCHANGED mishaps

-----------------------------------------------------------------------------
\* The stream of the current transport: events of an earlier one are ignored.

Following == core.subscription # "none" /\ core.streamOf = core.transport
Live == Following /\ core.subscription = "live"

\* The hello hands out a new token, and the one that opened the stream is dead.
Hello ==
  /\ Following /\ ~ Live /\ core.token = "good"
  /\ core' = [core EXCEPT !.subscription = "live", !.state = "ready"]
  /\ request' = [r \in Request |-> IF request[r].token = "good"
                                   THEN [request[r] EXCEPT !.token = "dead"] ELSE request[r]]
  /\ UNCHANGED <<device, everRevoked, built, intents, faults, mishaps>>

\* Over the LAN a refused upgrade carries no status: it looks like a lost stream.
StreamCloses ==
  /\ Following
  /\ IF ~ Live /\ core.token # "good" THEN UNCHANGED faults ELSE Fault
  /\ core' = ScheduleRetry([core EXCEPT !.subscription = "none"])
  /\ UNCHANGED <<request, device, everRevoked, built, intents, mishaps>>

RevokedFrame ==
  /\ Live /\ device = "revoked"
  /\ core' = ApplyRevocation(core)
  /\ UNCHANGED <<request, device, everRevoked, built, intents, faults, mishaps>>

\* token-expiring: refreshToken.
TokenExpiring ==
  /\ Live /\ core.authInFlight = NoAttempt
  /\ \E a \in FreeAuths(core) : core' = Authenticating(core, a)
  /\ UNCHANGED <<request, device, everRevoked, built, intents, faults, mishaps>>

HarnessGoesOrComes ==
  /\ Live /\ core.state \in {"ready", "harness-offline"}
  /\ core' = [core EXCEPT !.state = IF @ = "ready" THEN "harness-offline" ELSE "ready"]
  /\ UNCHANGED <<request, device, everRevoked, built, intents, faults, mishaps>>

RetryTimer ==
  /\ core.retryTimer
  /\ ConnectOn([core EXCEPT !.retryTimer = FALSE])
  /\ UNCHANGED <<request, device, everRevoked, intents, faults>>

-----------------------------------------------------------------------------
\* authorized: requests.

Send(r) ==
  /\ request[r].at = "free" /\ core.transport # 0
  /\ LET new == [noRequest EXCEPT !.transport = core.transport, !.generation = core.generation]
     IN  IF core.token = "none"
         THEN \E a \in FreeAuths(core) :
                /\ core' = Authenticating(core, a)
                /\ request' = [request EXCEPT ![r] = [new EXCEPT !.at = "auth",
                                                        !.auth = Attempt(core, a)]]
         ELSE /\ request' = [request EXCEPT ![r] = [new EXCEPT !.at = "calling",
                                                      !.token = core.token]]
              /\ UNCHANGED core
  /\ UNCHANGED <<device, everRevoked, built, intents, faults, mishaps>>

\* That dsh is unavailable concerns the UI only if the request is of this generation.
NoteHarnessDown(r) ==
  IF request[r].generation = core.generation /\ core.state = "ready"
  THEN [core EXCEPT !.state = "harness-offline"] ELSE core

\* It is answered: well, or that dsh is unavailable. The answer may be older than its
\* token's death.
Answered(r) ==
  /\ request[r].at \in {"calling", "recalling"}
  /\ request' = [request EXCEPT ![r] = noRequest]
  /\ core' \in {core, IF request[r].at = "calling" THEN NoteHarnessDown(r) ELSE core}
  /\ UNCHANGED <<device, everRevoked, built, intents, faults, mishaps>>

\* A first 401 drops the session's token, whichever it is by now, and authenticates.
Unauthorized(r) ==
  /\ request[r].at = "calling" /\ request[r].token = "dead"
  /\ LET k == [core EXCEPT !.token = "none"]
     IN  IF k.authInFlight = NoAttempt /\ (k.bridge = 0 \/ k.transport = 0)
         THEN core' = k /\ request' = [request EXCEPT ![r] = noRequest]
         ELSE \E a \in FreeAuths(core) :
                /\ core' = Authenticating(k, a)
                /\ request' = [request EXCEPT ![r].at = "reauth", ![r].auth = Attempt(k, a)]
  /\ UNCHANGED <<device, everRevoked, built, intents, faults, mishaps>>

\* A second 401, or a failure of the second call, is the caller's.
Refused(r) ==
  /\ request[r].at = "recalling"
  /\ request' = [request EXCEPT ![r] = noRequest]
  /\ UNCHANGED <<core, device, everRevoked, built, intents, faults, mishaps>>

\* A first call that fails on the way takes the session's transport down.
RequestFails(r) ==
  /\ request[r].at = "calling" /\ Fault
  /\ core' = HandleFailure(core, "offline")
  /\ Note("late failure", request[r].transport # core.transport)
  /\ request' = [request EXCEPT ![r] = noRequest]
  /\ UNCHANGED <<device, everRevoked, built, intents>>

-----------------------------------------------------------------------------
\* The bridge (external).

\* It forgets every nonce and kills every token.
Forgetting ==
  /\ core' = [core EXCEPT !.token = IF @ = "good" THEN "dead" ELSE @,
                !.auth = [a \in Auth |-> [core.auth[a] EXCEPT !.good = FALSE]]]
  /\ request' = [r \in Request |-> [request[r] EXCEPT !.token = IF @ = "good" THEN "dead" ELSE @]]

BridgeRestarts == /\ Fault /\ Forgetting
                  /\ UNCHANGED <<device, everRevoked, built, intents, mishaps>>

\* A proof comes later than its nonce lives.
NonceElapses(a) == /\ core.auth[a].at = "proof" /\ core.auth[a].good /\ Fault
                   /\ core' = [core EXCEPT !.auth[a].good = FALSE]
                   /\ UNCHANGED <<request, device, everRevoked, built, intents, mishaps>>

Revoked == /\ device = "active"
           /\ device' = "revoked" /\ everRevoked' = TRUE
           /\ Forgetting
           /\ UNCHANGED <<built, intents, faults, mishaps>>

M1Next ==
  \/ Start \/ ReconnectNow \/ Pair \/ (\E ok \in BOOLEAN : PairEnds(ok)) \/ ClearPairing
  \/ \E g \in core.adopting \cup core.clearing :
       AdoptionSettles(g) \/ ClearSettles(g) \/ WriteRejected(g)
  \/ \E a \in Auth : \/ ChallengeAnswers(a) \/ ProofAccepted(a) \/ AuthRefused(a)
                     \/ AuthFails(a) \/ NonceElapses(a)
  \/ Hello \/ StreamCloses \/ RevokedFrame \/ TokenExpiring \/ HarnessGoesOrComes \/ RetryTimer
  \/ \E r \in Request : \/ Send(r) \/ Answered(r) \/ Unauthorized(r)
                        \/ Refused(r) \/ RequestFails(r)
  \/ BridgeRestarts \/ Revoked

M1Spec == M1Init /\ [][M1Next]_m1Vars

-----------------------------------------------------------------------------
\* The one connect call that may be under way still leads somewhere.
ConnectCounts == /\ core.connect.at # "none"
                 /\ core.connect.generation = core.generation
                 /\ core.connect.transport = core.transport

\* Something on the phone moves the session: a timer, a stream, a connect that counts.
Moving == core.retryTimer \/ Following \/ ConnectCounts

\* None of the races that the code leaves open between one connection and the next has
\* happened: a call of connect that returned because another was under way, an
\* authentication or a failing request that outlived its transport, and a pairing adopted
\* when the session was no longer its own.
Undisturbed == mishaps \subseteq {"nonce lost"}

\* The states in which nothing is to be done before the user does something, and the one
\* after a failed pairing that only looks like waiting for the relay.
Resting == {"unstarted", "unpaired", "relay-unavailable"}

\* A session that is neither ended nor at rest always has something that will move it: a
\* timer, a stream, a connect that counts, the pairing run, or the write that it awaits.
\* Only those races and a rejected write can take it away.
NeverIdle ==
  /\ ~ Terminal(core) /\ core.state \notin Resting
  /\ core.generation \notin core.rejected /\ Undisturbed
  => Moving \/ core.pairing \/ core.generation \in core.adopting \cup core.clearing

\* A session whose pairing is gone holds nothing of it, whatever was under way when the
\* pairing went, but for the same races.
ForgottenHoldsNothing ==
  core.bridge = 0 /\ Undisturbed =>
    /\ core.token = "none" /\ core.transport = 0
    /\ core.subscription = "none" /\ ~ core.retryTimer

\* The phone says it is ready only while a stream of its current transport is live, or
\* while the store has not confirmed that its pairing was cleared.
ReadyIsLive ==
  core.state \in {"ready", "harness-offline"} =>
    Live \/ core.generation \in core.clearing \cup core.rejected

\* The phone forgets its pairing as revoked only if it was, unless the bridge lost a nonce
\* between a challenge and its proof.
ForgetsForCause ==
  core.state = "revoked" /\ "nonce lost" \notin mishaps => everRevoked

\* The phone forgets a bridge only for cause, and then it forgets all of it.
ForgetsForCauseAndWholly == ForgottenHoldsNothing /\ ForgetsForCause
=============================================================================
