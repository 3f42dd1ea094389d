# Verification of the dsh mobile bridge

This directory holds TLA+ models of the bridge that lets a phone follow and answer
a `dsh` agent, and of the phone's side of it; configurations that model-check them
with TLC; and theorems about them proved with TLAPS. Paths below are those of the
repository: `bridge/src/...` is the bridge process (`src/bridge/src/...` seen from
here), `src/m1/...` and `src/useDsh.tsx` the phone's library (`src/src/...`).

## 1. The system

Three programs take part.

* **dsh** runs on the workstation (it is not in this repository). It offers two
  WebSocket streams, *mux* (session events, approvals, questions) and *host*
  (sessions that come and go), and an HTTP API.
* **the bridge** follows dsh, keeps a short resumable log of what dsh sent, fans
  it out to paired phones, and forwards their requests.
* **the phone** pairs with a bridge once, then authenticates, follows the stream,
  folds it into what it shows, and sends answers. It reaches the bridge over the
  LAN or through a relay that sees sealed traffic only.

### 1.1 Components

State, operations and interactions, and what makes each component correct. The
last column names the modules.

| Component (source) | State | Operations; who calls them | Correct when | Module |
|---|---|---|---|---|
| Resume log (`bridge/src/stream/ring.ts`) | entries, running bytes, next number, `evictedThrough` | `append`, `clearRetained`, `readAfter`; the hub | a reader gets all of the rest, or a refusal; a refusal has a cause; both budgets hold | RingLog, FrameRing, ResumeLog |
| Fanout hub (`stream/hub.ts`, `stream/snapshots.ts`) | the log, newest snapshots and their sequence numbers, open obligations under two indexes, generation, subscribers | sinks of the dsh connection; `attach`, `disconnectDevice`, `notifyDevice`, `consumePending` from the HTTP server | an attached phone has the log without gap or repeat; what is replayed is what is open; a restart cannot be missed | StreamHub |
| Connection to dsh (`dsh/connection.ts`, `downlink.ts`, `client.ts`) | running, attempt, state, the generation's sockets, inboxes, abort signal | a loop and two pumps; four sinks | lifecycle events alternate, the connection comes back, `stop` ends it | DshConnection, BridgeCore |
| Upgrade handler and maintenance (`http/server.ts`) | sockets, token expiry warnings | WebSocket upgrade, close, revocation listener, timer | tokens rotate with the stream and die with it | AuthService, StreamResume |
| Respond handler (`http/server.ts`) | a promise per obligation | `POST /m1/respond` | one answer to dsh at a time, replies are truthful, nobody waits for ever | Respond |
| Tokens and nonces (`auth/tokens.ts`) | nonces, tokens, expiries, in memory | challenge, proof, verify, rotate, revoke, sweep | a revoked device holds nothing | AuthService |
| Device registry (`identity/registry.ts`) | records in memory and in `devices.json` | register, revoke, touch, load | memory and disk agree on who is out | AuthService, Pairing |
| Pairing session and windows (`identity/pairing.ts`, `bridge.ts`) | one session; the variables of each window | `begin`, `claim`, `pollClaim`, `confirm`, `cancel`; the terminals, the panel, the phone | a token pairs one phone, the one that was confirmed | Pairing, Rendezvous, Panel |
| Phone pairing flow (`src/m1/pair-flow.ts`) | scanned token, deadline | posts its claim until an outcome, on the LAN or over a relay | it learns the outcome, and stores a bridge that expects it | Pairing, Rendezvous |
| Phone session core (`src/m1/core.ts`) | state, bridge, generation, transport, token, subscription, timer, promises under way, writes it awaits, cursor | user intents, events of transport and stream, settling promises | never idle while paired, ready only over a live stream, forgets only for cause | M1Core, StreamResume |
| Phone LAN transport (`src/m1/lan-transport.ts`) | one socket, whether a hello came | `subscribe`, `request`, `close` | one hello first | M1Core, StreamResume (partly) |
| Phone data layer (`src/useDsh.tsx`) | what is shown | fold an envelope, re-read at a resync or when a screen opens | what is shown accounts for the log | StreamResume (partly) |
| Relay server (`bridge/src/relay/server.ts`) | sockets per routing id, rendezvous claimants, counters | register, forward, notices | bytes reach the named peer, limits hold | RelayTunnel (peer mode), Rendezvous (partly) |
| Relay connector (`relay/connector.ts`, `backend.ts`, `tunnel.ts`) | relay socket, channel, one subscription | dials, handshake, requests and the stream of the tunnel | both ends come to one channel; one stream per tunnel; nobody waits for ever | RelayTunnel |
| Rendezvous listener (`relay/rendezvous.ts`) | claimants, their channels and proven keys, the decided route | registration, handshakes, claims, replies, linger, `finish`, `close` | the route of the confirmed device is recorded, and no other | Rendezvous |
| Phone relay transport (`src/m1/relay-transport.ts`, `relay.ts`, `tunnel.ts`) | relay socket, channel, waiting requests | `start`, `request`, `subscribe` | `start` and `onLost` report a loss once | RelayTunnel (partly) |
| Sealed channel (`relay/seal.ts`, `src/m1/seal.ts`) | keys, counters | seal, open | no replay, no gap | RelayTunnel, as an abstract channel |
| WebSocket codec (`http/websocket.ts`) | decoder, fragments, close state, keep-alive of both ends | parse, send, close, ping, destroy | whole messages in order; one close; a dead peer is noticed | WebSocket, MessageStream |
| Policy gate (`policy/`) and rate limiter | tiers and lists; a counter per minute | `evaluate`; `allow` | a call that is forwarded is one the tier grants | Access (no rate limiter) |
| Browser panel (`panel/`, `plugins/dsh-bridge/panel-ui/panel.js`) | one window handle, a snapshot, a revision; a page's timer and requests | buttons, polls, relay settings | one window at a time; what was started is shown; the restart hint is exact | Panel, Access |
| Control socket and CLI (`control.ts`, `cli.ts`) | a window per connection; its own copy of the identity file | pair, revoke, relay | a lost terminal leaves no window; files stay consistent | Panel, Access (partly) |
| Identity file (`identity/store.ts`) | relay and routes, in memory and on disk | `setRelay`, `addRoute`, `removeRoute`, load | no route for the revoked | Access, Rendezvous |
| Audit log, cryptography, screens, Codex plugin | output, encodings, rendering | | no protocol state | not modelled |
| Phone storage | the route of the pairing | writes that the core awaits, or does not | the session goes on as the write ends | M1Core: the awaited writes |

`PROJECT.json` lists the same components with their files and status, and every
hazard of the code with the properties that cover it.

### 1.2 What is hard in this code

* **One event loop, many suspended functions.** Both programs are JavaScript: a
  function runs without interruption to its next `await`. An action here is what
  runs between two awaits. The hazards are reads before an await used after it:
  `handleRespond`, `runAuthenticate`, `connect`, `authorized`, `runResync`, `runPair`,
  `clear`, the connection's loop with its two pumps.
* **Generations.** dsh restarts, the bridge restarts, transports are replaced,
  pairings are replaced. Late results of an earlier one must not change a later one.
* **A bounded log with cursors.** Two budgets, restarts and old cursors.
* **Lost connections.** What was sent and not read is gone; the cursor decides
  whether it is asked for again.
* **Partial failure.** A registry write fails, a resync fails, a receipt is lost
  after dsh accepted the answer.
* **Revocation** races everything else.
* **Two files, two processes.** A confirmation and a revocation each write `devices.json`
  and then `identity.json`; the terminal's relay command writes the second one from its
  own process.
* **A hand-written WebSocket** over reads that are cut anywhere, with two ends that may
  close at once.
* **Pages that poll.** A browser page's requests overlap and overtake each other.

## 2. Modules

| Module | Models | Extends |
|---|---|---|
| `RingLog` | class `FrameRing` as operators on a record of its fields | |
| `FrameRing` | the log over time: append, clear, read at any cursor | RingLog |
| `ResumeLog` | abstract: one growing history; an answer is the whole rest or a refusal | |
| `StreamHub` | every state-changing method of `StreamHub`, `SnapshotStore`, `PendingAnswerables`, one action each | RingLog |
| `DshConnection` | the loop, the two sockets and pumps, handshake, backoff, `stop` | |
| `BridgeCore` | the connection with the hub's methods as its sinks, and dsh and the network around them | StreamHub, DshConnection |
| `StreamResume` | the hub, the upgrade handler and the stream half of the phone's core | StreamHub |
| `Respond` | `handleRespond` over the hub's pending set and a dsh that takes one answer | StreamHub |
| `Pairing` | the pairing session, the windows, the claim handler, the phone's flow | |
| `Rendezvous` | pairing over a relay: listener, dials of phones, routes, connectors, linger | Pairing |
| `Panel` | the panel's controller, its pages and a terminal, all on the one session | Pairing |
| `AuthService` | registry and its file, nonces, tokens, streams | |
| `Access` | tiers and calls, the identity file, routes, connectors and the relay's setting, around the service | AuthService |
| `M1Core` | the phone's session: connecting, authenticating, requests, backoff, pairing, clearing | |
| `RelayTunnel` | the bridge's connector, the relay in peer mode and the phone's transport, from dial to requests and the stream | |
| `WebSocket` | both ends of the hand-written WebSocket over a byte stream | |
| `MessageStream` | abstract: whole messages, each once and in order | |
| `RingLog_proofs` | lemmas about the operators of the log, and on recursive functions | RingLog |
| `Stream_proofs` | theorems about the log over time and about the WebSocket | FrameRing, WebSocket, RingLog_proofs |
| `StreamHub_proofs` | lemmas and theorems about what the hub hands to phones | StreamHub, RingLog_proofs |
| `Bridge_proofs` | theorems about the connection and the hub together, and about who is paired: the session, the panel, the rendezvous | BridgeCore, StreamHub_proofs, Panel, Rendezvous |
| `Phones_proofs` | theorems about phones that answer and phones that resume | Respond, StreamResume, StreamHub_proofs |
| `Sessions_proofs` | theorems about who may use the bridge (the service, and the composition from those of the service) and about the phone's session | Access, M1Core |
| `RelayTunnel_proofs` | theorems about the two ends of a tunnel: their channels | RelayTunnel |
| `RelayQuiet_proofs` | theorems about what is never forgotten: the handshake, and what the phone waits for | RelayTunnel_proofs |
| `MC*` | constants of the TLC instances | |

Conventions. State keeps the source's names where TLA+ allows it. A definition
named `X_Something` directly before `X` is `X` with a plausible bug; it is used by
no specification, only to show that a property notices the bug.
A variable marked *history* or *external* in its comment is not the program's:
it records what happened, or stands for dsh, the network or the operator.

How state and actions correspond to the code, where it is not one to one:

* **StreamHub.** The record `stream[s]` is a subscriber and what it was handed:
  the attach result (`resynced`, `lastBseq`, `backlog`, `snapshots`, `owed`) and
  the envelopes delivered live. `owed` and `snapshots` are sets: the order in which
  obligations and snapshots are replayed is left out. `rpcId` and `approvalId` of one
  obligation are one name; both indexes are kept, so an entry lost from one of them is seen.
* **DshConnection.** `loop` says where the loop is suspended: `handshake` is the
  `Promise.all` of describe and the open wait, `serving` is `await failed`, `backoff`
  the sleep. `attempt` saturates at 2: only zero or not matters to the
  state published, and the length of a sleep to nothing. A pump's last frames
  are drained before a backoff sleep ends: pumping takes no timer.
* **StreamResume.** What is sent on a socket is a function of the hub's record of it
  (`Sent`); `got` counts what the phone has read. The view is of one session: a
  baseline (`of`, `base`: how much of which process's log the last read of the history covers), the
  frames ever `folded`, and those that are still shown (`kept`). A read is asked, answered and
  adopted in three steps, and its answer takes the place of all that is shown (`Replaces`): of
  what was folded between dsh's answer and the assignment, too. A read that a resync makes may
  also be passed over; `LoadHistory` is the read of a screen that opens, whose answer may be
  older than what is shown. `NoteHarnessDown` is a call that found dsh unavailable.
  `mishaps` records which of six things that may cost frames came first: a delta
  torn by a lost connection, a resync swallowed by one under way, a resync that
  failed, a history left unread, a frame overwritten by a read, a restart of the bridge process.
  A seventh, "late refusal", costs none: it takes a ready phone to harness-offline though dsh is back.
* **Respond.** `respondChains` maps an obligation to the promise the next call
  waits for. The code stores `attempt.catch(...)` and compares with `attempt`; both
  are kept as distinct values, so the model, like the code, never removes an entry.
* **Pairing.** A window mints one token and stands for it; the short code shown to
  the operator is a digest of token and key and stands for the pair. Confirming
  acts on the manager's current session, whichever window asks, as in the code. What the bridge
  answers to a post (`Post`) and what the phone makes of it (`AnswerArrives`) are two steps, with
  its `answer` on the way between them; a new scan abandons it. `by` (history) is the token of the pairing on
  record for a phone. A window that wants a relay where there is none fails at once (`RefusesRelay`).
* **AuthService.** A device's `pairing` counts its registrations, so that a token of
  an earlier one is told apart. Lifetimes are the flag `late`. A write of
  `devices.json` succeeds or throws, and what the throw skips is skipped.
* **M1Core.** The object's fields are one record and methods are operators on it. A promise's
  settling runs everything that waited for it in one action. The writes that `runPair` and
  `clear` await are the sets `adopting` and `clearing` of the generations that issued them; a write
  settles at any later time, or is `rejected`. `mishaps` records the races the code leaves open
  (section 6): a connect swallowed, an authentication that outlived its transport, a
  late failure, a pairing adopted late, a nonce lost. The state a failed relay pairing
  ends in is `relay-unavailable`, and at rest like the others that only the user ends (`Resting`).
* **RelayTunnel.** A method of the connector or of the phone's `RelayClient` is an
  operator that yields the object, what it sends and whether it closes its socket. A
  channel is the pair of ephemerals its keys come from; a signature is the
  transcript it covers, and genuine. `up` has a queue for every socket, since the
  relay may still have to read one that its end has left; `down` has one for each end, of its
  newest socket, since the listeners of an older one do nothing (`Hears`). Only the
  close event of a socket that the connector itself closed still counts
  (`HearsClose`). `timers` counts the redials that are scheduled, as the handle of an earlier
  one is overwritten and not cleared. A bye and the close after it are one message,
  and a dial that was overtaken by another before its socket opened is not followed further.
  `carriedOver` records that the connector dialled with a handshake in hand.
  The subscription of the phone is `sub`; in the connector, `stream` is the
  one it holds and `live` those that are open; `greeted` are those whose hello was sent: a stream asked for by an earlier
  session may open late, after the tunnel that asked for it.
* **WebSocket.** A frame crosses the network in two halves and a read takes one or more of
  them, so that a frame may be cut, and several may come at once. A message is the sequence
  of its payloads. All violations of the protocol within one frame are the opcode `invalid`.
* **Rendezvous.** A phone mints a routing id each time it dials: the pair of the phone and
  the number of the dial. `calls` are the requests that `onSealedRecord` has put to
  the backend and whose replies it awaits; `BackendAnswers` and `Replies` are the two sides
  of that await. After a decision the listener lingers for the last polls.
* **Panel.** A start that the relay setting refuses reports its failure while it still runs, and leaves a
  handle that does nothing beside the failed snapshot (`StartIsRefused`); cancelling with a
  snapshot that is final clears the handle only. A request of a page is under way, answered, or arrived, and requests overlap.
  `overtaken` (history) says that an answer arrived after one of a later revision.
* **Access.** `handler` is a confirmation or a revocation between its two files; nothing
  else of the process runs there but the process may end. `tier` has the tiers in memory
  (`now`) and in the file (`disk`). A call keeps the record it was authorized with (pairing
  and tier) while it waits for its body. `chosen` (history) is what the operator chose for each pairing;
  `foreign` (history) that the terminal's command was the last to write the identity file;
  `unsaved` counts the failed writes of that file.

## 3. Runs

All state spaces are explored completely. `PROJECT.json` gives each run's properties,
and for each property a mutant of the code that the run catches.

| Run | States | Bounds | Asks |
|---|---|---|---|
| `FrameRing` | 5,946 | 3 frames, 5 bytes, frames of 1 and 4 bytes, 6 appends, every cursor from -1 to 7 | is a delta ever partial, a refusal ever gratuitous, a budget ever exceeded; does it implement `ResumeLog` |
| `StreamHub` | 1.6 M | 1 session, 1 approval, 1 question, 1 stream, ring of 2, projections 1 and 2, 5 envelopes | do the hub's stores and every attached phone agree with the log |
| `BridgeCore` | 97,623 | 1 approval, ring of 3, 2 faults | lifecycle, obligations across generations, reconnecting and stopping (liveness) |
| `StreamResume` | 191,032 | 2 sockets, ring of 2, 4 envelopes, 1 bridge restart before any other mishap, an answer that is 1 envelope old | is a gap ever shown as ready, a frame folded twice; does the phone catch up (liveness) |
| `Respond` | 69,315 | 3 calls, 1 approval, 1 crash of dsh | one answer at a time, truthful replies, everyone answered (liveness) |
| `Pairing` | 2,120,698 | 2 windows, 2 phones | who is paired, by whom, with which token |
| `Rendezvous` | 283,086 | 1 window, 2 phones, 2 claimants, 2 dials each | do routes, connectors and what the phones stored agree with who was paired |
| `Panel` | 196,626 | 2 windows, 1 page with 1 refresh, 1 phone | one window at a time; does the page show how its pairing ended (liveness) |
| `Access` | 685,500 | 1 device, 2 pairings, 1 nonce, 2 tokens, 1 stream, 1 call, 1 relay, 1 failed write, 1 command | what a revoked device keeps, what a call may do, whether the restart hint is right |
| `M1Core` | 1.2 M | 2 authentications and 1 request at a time, 2 transports, 2 intents, 1 fault, of which a rejected write is one | is the phone ever stuck, falsely ready, or falsely revoked |
| `RelayTunnel` | 2.0 M | 2 dials, 2 sessions, 1 request and 1 subscription each, 1 fault | do both ends come to one channel, and is everything the phone waits for accounted for |
| `WebSocket` | 144,773 | 2 messages of a client and 1 of the server, of 1 or 2 fragments, 1 invalid frame | whole messages in order (refinement), one close, dead peers noticed (liveness) |

The registry of `Access` is that of `AuthService`, whose three invariants are checked and
proved there, and proved again to hold in `Access`.

Why the bounds are enough for the questions asked:

* The log has two interacting budgets and one exception (a single frame larger than
  the byte budget). Sizes 1 and 4 against budgets of 5 bytes and 3 frames make each budget evict
  first in some behaviour; six appends evict more than the log holds.
* The ring of the hub runs holds two frames (one in `Respond`) and four or five envelopes are published, so every
  cursor class (zero, evicted, retained, newest, future) occurs before and after a
  restart marker, which itself takes two envelopes.
* The connection's hazards need two generations and a lost third; two faults
  and a never-reused approval give them. `MaxBseq` is not reached in `BridgeCore`.
* A race of the respond chain needs a running call, a waiting one, and one that
  comes after the first is gone.
* Two windows and two phones give every cross between windows, tokens and phones; the
  session itself is single.
* What one pairing may leave to the next takes two pairings of one device, an old
  and a new token, and one call that waits for its body meanwhile. Devices do not share
  anything but the two files, of which each write is whole; the theorems hold for any number
  of them. One failed write may be of either file, and one command of the terminal has two steps,
  so that anything may come between its read and its write.
* A rendezvous hears of claimants one at a time: two phones give the first proven one that
  is not the confirmed one, and a phone that dials twice gives the id that is stored and the one that
  is dialled.
* A page's hazards are answers that overtake one another: one refresh by hand beside the
  poll and the buttons is enough. Two windows are one of the page and one of the terminal, or two of the page.
* A frame in two halves has every cut that matters to a decoder (before, inside, after), and
  two messages show a loss or a swap; two fragments have a ping and a foreign message between them.
* After a mishap `GapsAreExplained` and `CatchesUp` promise nothing, so only the first one is kept, and a
  restart of the bridge, which is one, is only followed from a phone that had none (`MaxMishaps`): what
  it asks is whether a frame of the new process is folded twice. Two sockets are one lost connection.
* The phone's races are between an old and a new authentication, and an old and a new transport; the record keeps
  one `authInFlight` and one `transport`.
* What is late at the relay is of the connection before. Two sessions of the phone and two
  dials of the connector give every overlap of an old and a new socket on one side with either on the
  other. One fault breaks one end; the other end then ends its own session, and may do so at any moment.

Symmetry is used for interchangeable phones, windows, tokens and authentication
slots, and never in a run with a liveness property. `StreamResume` uses its sockets in one
order (`NextSocket`), which is all that symmetry would save. What `Access` answers about the
relay's setting is the panel's GET; the answers to PUT and DELETE say `restartRequired: true`
without looking (`api.ts:176,183`).
`CHECK_DEADLOCK FALSE` is set where the system may stop: a stopped bridge, a
cleared or revoked phone with no intents left, calls that are all answered, a page
with nothing to ask, two closed ends of a WebSocket, or a log at its bound.

### Fairness

Weak fairness only, in five runs.

* `BridgeCore` (`CoreFairness`): a suspended function whose promise is settled is
  resumed, timers fire, a pump with something in its inbox takes it, a dial
  succeeds or fails, a request is answered or fails (`client.ts` sets a timeout on
  each). dsh, when down, is started again. Nothing is assumed of faults, requests
  or `stop`. A socket that does not open in time is assumed to open or to fail *at last*: the code
  sets no timer on it after the open timeout, and one that does neither for ever stays part of a
  generation that was announced. `ConnectsForGood` says nothing of that one.
* `StreamResume` (`ResumeFairness`): the retry timer fires, the socket is read, the
  resync's read is answered, passed over or fails (each request has a timeout), dsh comes back.
  Nobody owes a lost connection, nor a screen that opens.
* `Respond` (`RespondFairness`): a chained call takes its turn when it comes, a
  request to dsh is handled or fails (by its timeout).
* `Panel` (`PanelFairness`): a page's poll timer fires, and a request on the loopback
  interface is served and its answer arrives. Nobody owes a click.
* `WebSocket` (`WsFairSpec`): the two timers of the server end run (`setInterval` and the
  pong timeout). Nothing is assumed of the network or of the peer.

## 4. Proofs

Eight modules hold theorems. Each result has the same shape: an inductive invariant (where TLC can
evaluate it, checked on the run's instance first), one lemma per action or per kind of action that
the step keeps it, and the run's property from the invariant. The theorems hold for
every value of the constants that satisfies the named assumptions; the bounds of the runs
(`MaxBseq`, `MaxFaults`, ...) are only assumed to be numbers.

### The log

`RingLog_proofs` and `Stream_proofs` hold for every set of frames, every weighing of
frames, every number of appends, and every pair of budgets. Assumptions: `RingLimitsAssumption`
(both limits are positive integers, the two checks of the constructor), `MaxBseqAssumption` and
`WeightAssumption` (the size of a frame, a `Buffer.byteLength`, is a natural number).

The argument. A reader is answered from `entries`, `lastAssigned` and
`evictedThrough` only. The inductive invariant is

    IInv == TypeOK /\ RetainedWindow /\ RetentionBound

`RetainedWindow` ties these fields to the history: the entries are exactly the frames
numbered `evictedThrough + 1 .. lastAssigned`. `NoPartialDelta` alone is not
inductive: it says nothing of `nextBseq`, and without the numbering of the entries the
next append could repeat a number. `RetentionBound` is carried along because the
eviction loop's result needs it to show that the frame just appended survives, and because the
running count of bytes is only right if it was right before.
`RingLog_proofs` has the lemmas on the operators: the eviction loop stops
(`ShedStops`: with both budgets met, or one entry left), eviction, append and clear keep the window (`EvictKeepsWindow`, `AppendKeepsWindow`,
`ClearKeepsWindow`), and a read that is not refused returns the suffix (`DeltaIsSuffix`).

The byte count is a recursion over the entries, and its proof is by induction. The library's
induction theorems take an operator as parameter, which the provers cannot instantiate, so
`CountingUp` states induction for a *set* of numbers (from the least number of a set,
`WFMin` of the library) and `StagesExist` that a function defined by recursion on the numbers up to
`n` exists and satisfies its equations. From these: `SizesSumUp` (the size of a log is the last of its
partial sums), `StretchSize` (a prefix and the rest add up), `EvictKeepsSize` and
`AppendKeepsSize` (the count that append adds to and eviction subtracts from is the
size of what is retained, and eviction ends within the byte budget or at one entry).

| Theorem | States |
|---|---|
| `WindowIsRetained` | `FrameRingSpec => []RingIsSound` |
| `DeltasAreWhole` | `FrameRingSpec => []NoPartialDelta` |
| `RefusalsHaveCause` | `FrameRingSpec => []RefusedOnlyForCause` |
| `AnswersAreExact` | `FrameRingSpec => []ReadsAreExact`, the two above together |
| `BudgetsHold` | `FrameRingSpec => []RetentionBound` |
| `Refinement` | `FrameRingSpec => ImplementsResumeLog` |

### What phones are handed

`StreamHub_proofs` holds for every set of obligations, sessions, devices and sockets, and every pair
of budgets. Assumptions: `HubAssumption` (an obligation is an approval or a question and
belongs to one session, a stream to one device) and those of the log.

    HubInv == HubTypes /\ StreamsAreFaithful /\ Ledger /\ EveryPhoneWasAsked

`StreamsAreFaithful` is `StreamIsContiguous` over values, so that it can be carried through the
composition of a delta with the live frames. `Ledger` says that history and stores determine each other:
where the present generation starts (`StartIn`), that an obligation is pending iff it was asked since and
neither resolved, removed nor consumed, and that a stored projection is the newest one *and*
that the high-water number is its number. Without the last part the invariant is not inductive: a
redelivered projection could not be told from news. The window lemmas of `RingLog_proofs` give what a delta
holds.

All calls into the hub are one action here, `HubCall`, and `CallsKeepInv` says that any of them
keeps `HubInv`: the three specifications that build on the hub (`BridgeCore`, `Respond`,
`StreamResume`) reuse the lemma instead of proving the hub again.

| Theorem | States |
|---|---|
| `HubInvHolds` | `HubSpec => []HubInv` |
| `StreamsTellTheLog` | `HubSpec => []StreamIsHonest` |
| `EveryPhoneIsAsked` | `HubSpec => []EveryPhoneWasAsked` |
| `StoresAreCurrent` | `HubSpec => []ReplaysAreCurrent` |

### dsh, through crashes

`Bridge_proofs`, with `MaxFaultsAssumption` and the hub's.

    CoreInv  == Accounts /\ Readiness
    Accounts == CoreTypes /\ Told(log, generation, dshReady) /\ EndingsAreFinal /\ OnTheWay

`Told`: the announcements in the history alternate, they count up to the generation, and whether
the last is a ready or a disconnected is what the hub believes. It also says that the history does not end in the
marker of a restart: marker and announcement are one step. `EndingsAreFinal`: an
obligation whose end was *said*, read or still on a socket, is not waited for and is never asked again;
it rules out that an end left in one generation's queue closes an obligation of the next. `OnTheWay`
is what "caught up" needs: whatever the mux queue still asks for is waited for or ended behind it, and whatever
is pending from the second generation on is waited for or its end is in the queue. `Readiness` is the
link to the loop: the hub takes dsh for ready exactly while the loop serves a connected generation,
hence no sink is told of the end of a generation that was never announced.

| Theorem | States |
|---|---|
| `CoreInvHolds` | `CoreSpec => []CoreInv` |
| `LifecyclesAlternate` | `CoreSpec => []LifecycleAlternates` |
| `ObligationsAreFollowed` | `CoreSpec => []ObligationsFollowDsh` |

### Answers

The first half of `Phones_proofs`, with `RespondAssumption` (`NoCall` is no call) and the hub's.

    RespondInv == HubInv /\ DshInv /\ CallTypes /\ RepliesInv /\ OrderInv

The calls for one obligation wait for one another, but the program has no queue: `respondChains` knows the
last promise of each chain only. `OrderInv` says that there *is* an order of the calls in which every
unfinished one stands right behind another unfinished one, or is the first; the call that
takes its turn is the first, so no other is under way. `RepliesInv` ties a reply to what dsh still waits for,
and `DshInv` says what that is: pending, on the wire, or asked before its generation was ready.

| Theorem | States |
|---|---|
| `RespondInvHolds` | `RespondSpec => []RespondInv` |
| `OneAnswerUnderWay` | `RespondSpec => []OneAnswerAtATime` |
| `RepliesCanBeBelieved` | `RespondSpec => []RepliesAreTrue` |

### Resuming

The second half of `Phones_proofs`, with `ResumeAssumption` (`NoStream` is no socket) and the hub's.

    ResumeInv == HubInv /\ SocketsAreAligned /\ PhoneInv
    PhoneInv  == ResumeTypes /\ ReadsOn /\ NothingFoldedAhead /\ (mishaps = {} => Unharmed)

The phone's cursor does not say how far it is: it runs ahead while a delta is read. What is sent on a
socket is aligned with the history (`Aligned`: the delta ends where the hello says and the live frames go on
from there), so the number of items *read* does (`Place`). Nothing is folded ahead of that place, which
gives `NoFrameTwice`. That property is about the stream: it says nothing of a frame that a fetched
history covers, which may be folded on top of it. As long as no mishap but a late refusal happened,
`Unharmed` says that every frame of the session after the baseline, up to the phone's
place, is still among what is shown (`kept`), and that no restart is newer than the baseline; or that
a read is under way which will make it so. For the latter a read that was answered must already
cover what it is going to replace (`Accounts`, for the answer's baseline). This gives
`GapsAreExplained`.

| Theorem | States |
|---|---|
| `ResumeInvHolds` | `ResumeSpec => []ResumeInv` |
| `NoSilentGap` | `ResumeSpec => []GapsAreExplained` |
| `NothingIsFoldedTwice` | `ResumeSpec => NoFrameTwice`, an action property |

### Who may use the bridge

The first part of `Sessions_proofs` holds for every set of devices, nonces, tokens and sockets, and any
number of pairings, failed writes and restarts. The one assumption is
`AuthAssumption` (no device is the value `None`, and the bounds are numbers).

    IInv == AuthTypes /\ RevokedIsOut /\ SocketTokensAreIssued
                      /\ StreamTokenDiesWithIt /\ WrittenIsCurrent

`RevokedIsOut` is kept by every step as it stands, because a revocation is reported only
after its listeners ran, and each way to obtain a credential asks the registry first.
`StreamTokenDiesWithIt` is not: a closed stream's token could be issued again.
`SocketTokensAreIssued` rules that out (a token is never issued twice, and whatever a
socket was handed was issued). `NothingOutlivesAPairing` speaks of what is accepted now,
and a registration changes what is accepted; `WrittenIsCurrent` is its inductive form: while
no write has failed, the file is what is in memory, and every nonce and token
belongs to the present pairing of an *active* device, so a device that is registered anew
starts without any. There is one lemma per action.

| Theorem | States |
|---|---|
| `IInvHolds` | `AuthSpec => []IInv` |
| `RevocationIsComplete` | `AuthSpec => []RevokedIsOut` |
| `StreamTokensDie` | `AuthSpec => []StreamTokenDiesWithIt` |
| `PairingsAreSeparate` | `AuthSpec => []NothingOutlivesAPairing` |

### What a pairing grants

The second part of `Sessions_proofs` holds for every set of devices, tokens, sockets, calls and relays, and any
number of pairings, failed writes, commands and restarts. Assumptions: `AuthAssumption`
and `AccessAssumption` (the bounds are numbers; no relay is `None`).

First, every step of the composition is a step of the service or leaves it alone
(`StepIsAuthStep`), hence `AccessImplementsAuth`, and the service's theorems carry over.
The other three each have an inductive invariant of their own:

* no connector of a device whose revocation was reported: inductive together with the
  service's `IInv`, since `syncConnectors` asks the registry, whichever routes a file lists;
* `TInv`: a record carries the tier chosen for its pairing, in memory and on disk, and a
  call the tier of its record. `CallsAreInScope` says nothing of a call that still waits for its body, and
  nothing of the file that a restart reads;
* `HInv`: a pinned relay is the one in use, and the copy in memory is the file as long as no
  other process wrote it and no write failed.

| Theorem | States |
|---|---|
| `AccessImplementsAuth` | `AccessSpec => AuthSpec` |
| `AccessKeepsRevokedOut` | `AccessSpec => []RevokedIsOut` |
| `TunnelsDie` | `AccessSpec => []NoTunnelForTheRevoked` |
| `CallsStayInScope` | `AccessSpec => []CallsAreInScope` |
| `HintIsExact` | `AccessSpec => []RestartHintIsExact` |

### Who is paired

`Bridge_proofs` again, for any number of windows, phones and tiers. The assumption is
`PairingAssumption` (the value `None` is no window, phone or outcome, nor the state
"awaiting-confirmation").

    IInv == Types /\ SessionIsClaimed /\ WindowsAreFresh /\ ConfirmedIsCompleted
                  /\ TokenIsSingleUse /\ PairedWasConfirmed /\ OneWindow /\ RecordIsOwn

`TokenIsSingleUse` speaks of `confirmed`, the history, alone; what keeps it true is that the
session of a confirmed token is completed with that very claim, or has been replaced, and no
window mints a token twice (`ConfirmedIsCompleted`, `WindowsAreFresh`). `OneWindow` is the
inductive form of the two properties that hold while one window is used: the pair
on the screen is the claim the session waits with, a completed session stays what it is, and the
phone that made the claim was not refused. `RecordIsOwn` follows the records:
the record of the device that a completed session paired is by that session's token; and so is, for a phone that
is told or believes that it is paired, the record of its device by the token it scanned, while a
session that still holds a claim of that phone is of that same token. So no later confirmation can replace
what the phone believes unseen: it would need a claim that the phone no longer makes. It does not say that the pairing is *active*: a revocation may
overtake the answer. There is one lemma per action.

| Theorem | States |
|---|---|
| `SessionPairsOnce` | `PairingSpec => []PairingIsSound` |
| `ShownIsRegistered` | `PairingSpec => []ConfirmsWhatWasShown` |
| `CompletionSurvives` | `PairingSpec => []CompletedIsLearned` |
| `BeliefIsOnRecord` | `PairingSpec => []BelievesWhatIsOnRecord` |

**The panel.** `PanelInv` adds to `OneOpenWindow` only types, that the handle's window is one the
panel opened, and that a window not yet opened is not among those. `OneOpenWindow` allows a
handle beside a snapshot that says `failed`: that is what a refused start leaves. The steps of phones and of the
terminal are steps of `Pairing`, and the lemmas say what they leave alone (`WindowPolled`).
Assumption: `PanelAssumption` besides that of pairing.

**The rendezvous.** With `RendezvousAssumption` (at least one claimant fits; dials and outcomes are not `None`):

    RendezvousInv == /\ RendezvousTypes /\ TokensAreMinted /\ IdsAreDialled /\ ProofsFollowSeals
                     /\ ClaimsAreProven /\ OneDialOneToken
                     /\ RouteIsOfActiveDevice /\ ConfirmedHasRoute /\ StoredIsExpected

`ConfirmedHasRoute` needs that a confirmation finds a proven claimant, so `ClaimsAreProven`: while a
window is open, a claim on it, under way or in the session, comes from a claimant that is still there.
`StoredIsExpected` needs that an id is not reused and that what a phone that dialled once stores was confirmed for the
token it scanned (`IdsAreDialled`, `OneDialOneToken`). Most steps bring no claim, route or stored
id; they are `Quiet`, and `QuietKeeps` deals with all of them at once.

| Theorem | States |
|---|---|
| `PanelHoldsItsWindow` | `PanelSpec => []OneOpenWindow` |
| `RoutesAreInvited` | `RendezvousSpec => []RoutesFollowPairings` |
| `StoredIdIsExpected` | `RendezvousSpec => []StoredIsExpected` |

### The phone's session

The third part of `Sessions_proofs` holds for any number of requests, attempts, transports, intents and
faults. The assumption is `M1Assumption` (no attempt is `NoAttempt`).

    M1Inv   == types of the counters /\ CoreInv /\ RequestInv /\ CauseInv
    CoreInv == Fields(core, built) /\ (Undisturbed => Calm(core))

`Fields` is what holds in every state: types, transports numbered in the order they were built, a
connect that belongs to a generation that has begun, writes of generations that have begun (`Ledger`, which also
says that a session in the middle of a pairing has started and is not revoked), and readiness over a live stream, or while the write
that clears the session's pairing is under way or was rejected. `Calm` holds until one of the
noted races (section 6) happens: a session without a bridge holds nothing, an attempt over the
current transport is for a bridge and the session has one, and, outside the states that wait for the
user, something moves the session, or it waits for its pairing run or for a write of its own (`Waits`).
That an attempt needs a session with a bridge is what keeps one
that was cleared from coming back with a late answer; that it is for the *same* bridge is not true
(section 6). `CauseInv` follows a revocation from the bridge to the phone. The parts are predicates of
one record, so the lemmas are about what the methods do to it (`TeardownTransport`, `Connect`,
`HandleFailure`, `Adopted`), and the actions cite them.

| Theorem | States |
|---|---|
| `M1InvHolds` | `M1Spec => []M1Inv` |
| `ReadinessIsHonest` | `M1Spec => []ReadyIsLive` |
| `SomethingMovesIt` | `M1Spec => []NeverIdle` |
| `ForgetsRightly` | `M1Spec => []ForgetsForCauseAndWholly` |

### The tunnel

Both modules hold for any number of dials, sessions, requests and faults (`RelayAssumption`: the bounds
are numbers): `RelayTunnel_proofs` on the two channels, and `RelayQuiet_proofs`, which extends it, on
what is never forgotten. The first rests on

    RelayInv == RelayTypeOK /\ Sockets /\ Queues /\ BridgeTold /\ PhoneTold /\ Ordered /\ Fresh
                /\ Paired /\ Accusing
                /\ \E s : Agreed(connector, phone, PhoneSent, BridgeSent, s) /\ Present(s)

together with `Waiting` (only a sealed session waits for anything). `ChannelsAgree` speaks of what each
end holds and of the head of a queue; neither is inductive, as every frame under way may become the
head of a queue, in another state of the reader. So the invariant is about all frames that an end has sent
and the other has not read (`PhoneSent`, `BridgeSent`):

* `Agreed` is a predicate of the two records and these two sets. Every transcript signed, and every
  channel sealed for, pairs ephemerals that were drawn; a session of the phone signs one transcript
  (the pinned ephemeral); and there is a newest session `s` that the connector has answered, which
  tells late frames of an earlier session from those of the present one. There is one lemma for each
  method of either end (`OnControl`, `OnMessage` and what they call).
* Which frames are read, and in which order, is what the relay and the sockets do: `Sockets`, `Queues`,
  `BridgeTold` and `PhoneTold` say what the relay knows of an end and what the end is still to be told;
  `Ordered` that the connector reads the phone's sessions one after the other and that each of its own sockets
  carries its ephemerals in order; `Fresh` that before it is told of an end, the phone reads nothing
  older than the ephemeral it has pinned. `Present` that the connector, once it has answered a session
  that is still registered, has no notice left that it went offline.
* `Paired`: while the two newest sockets face each other and no end of the session is in sight, a connector
  that has signed for the session is in that handshake or holds its channel.

`HonestRecordsOpen` follows from `Agreed`, `Ordered` and `Fresh`: a record at the head is of the newest session that was
answered, and a session has one transcript. `SealedIsMutual` is `Paired` once the relay's bookkeeping shows that
the two sockets face each other; `AccusedOnlyAfterOverlap` is `Accusing`, which needs that a signature for
another transcript is one for another session. TLC found the parts of the invariant to hold on the run's instance
before they were proved.

**The handshake does not stall.** `RelayInv` says what can be under way, and `QuietMeansSealed` that
something *is* as long as the phone is not sealed. That is a second invariant over the first:

    QuietInv == Unread /\ FirstIsFirst /\ RegisteredComes /\ GreetingIsOwed /\ OneAtATime
                /\ BeginsAfresh /\ RegisteredFirst /\ TunneledIsNew

A registered phone is told so (`RegisteredComes`); one in a handshake has its greeting under way, or
the answer to it (`GreetingIsOwed`), and a sealed one a connector that shows its tunnel
(`TunneledIsNew`). The hard step is the greeting that the connector reads: it answers each handshake once, so
an answer comes only if it has not answered another session in the same handshake. Hence `OneAtATime`: in what the
connector has still to read, between two sessions that greet there is always a `peer-offline`, which
makes it forget the handshake; and while it has answered one and is not yet told that it left, no other
session can be registered. The lemmas on `Apart` and `Faced` are about such queues. A first frame is
the first (`FirstIsFirst`), because a phone whose socket is registered greets before anything else; and
a connector begins a socket without a handshake unless it `carriedOver` one (`BeginsAfresh`), which is
where the exception in the property comes from. TLC checked `QuietInv` on the run's instance before it
was proved.

**Nobody waits for nothing.** `NobodyWaitsForNothing` follows a request and a subscription through
three queues, the bridge's routes and the connector's streams, and back. It needs a third invariant
over the first:

    WaitInv == RecordsLast /\ Spoken /\ Known /\ Reached /\ HellosHold
               /\ Followed /\ Asked /\ Requested

* `Followed`, `Asked` and `Requested` say where to find what the phone waits for in each state of its
  subscription and for each request, as long as the two ends face each other and no frame of the
  bridge was over its quota: a live stream or the record of its end; the subscription on its way, worked on
  or opened and not greeted yet, or a record on its way back that settles it; the request, or its answer.
* What the bridge sends goes out on *whatever channel there is by then*, if there is one. So a step that
  answers must find the channel it was asked on: `Reached`, that a connector which works for the session, or
  serves a stream of it, holds its channel. It is established when the connector reads the
  session's first record, which is where `RecordsLast` is needed: no greeting of a session comes after a
  record of it, hence the signature that gives the channel has been read by then. With that a record never
  meets a connector that drops it (`RecordFindsItsKey`).
* `HellosHold`: a hello on its way is of a stream that lives, or an `unsubscribed` is on its way behind
  it. The order counts: a phone that takes the hello of a stream that has ended follows it
  for ever, unless the end is read later. The lemmas on `Held` (`HeldTail`, `HeldJoin`, `HeldOver`) are about such
  queues.
* `Spoken` and `Known`: what is on its way of a session, and what the bridge knows of it, the phone did ask
  for. So a session that starts finds nothing of its number, and its one subscription is not taken for greeted.

A step of one end moves a record from one of these places to the next, and each action has a lemma that
says so. TLC found the parts of `WaitInv` to hold in every state of the run's instance before they were proved.

| Theorem | States |
|---|---|
| `RelayInvAlways` | `RelaySpec => []RelayInvHolds`, which is `RelayInv /\ Waiting` |
| `ChannelsAlwaysAgree` | `RelaySpec => []ChannelsAgree` |
| `QuietInvAlways` | `RelaySpec => []QuietInv` |
| `QuietAlwaysMeansSealed` | `RelaySpec => []QuietMeansSealed` |
| `WaitInvAlways` | `RelaySpec => []WaitInv` |
| `NobodyEverWaitsForNothing` | `RelaySpec => []NobodyWaitsForNothing` |

### The WebSocket

`Stream_proofs` holds for any number of messages of each end, any number of payloads of a message
and any number of invalid frames (`WebSocketAssumption`). The inductive invariant is

    WsInv == WsTypes /\ ClosesAsSaid /\ CloseWasSaid /\ ClosedIsToldOnce /\ NothingAfterClose

`CloseIsFinal` is its last two parts. They are not inductive alone: what keeps a frame from
being written behind a close is that whoever wrote the close may write no more, so the invariant has
to say that a close on its way was said by its sender (`CloseWasSaid`), and that whoever has
said it is closed (`ClosesAsSaid`). `CommitKeepsInv` reduces every operation to what it makes of
its end (`Heeds`): it keeps the user attached, keeps a closed end closed, and writes a close
only as its last frame, being closed then. The one operation for which this is work is `OnData`: a read may hold
many frames, decoded one after the other (`PushTypes`), and the messages they make are handled
one after the other while a sink may close the socket in the middle (`MessagesHeed`). Both are
recursions and go by induction on the number of frames and of messages, with the lemmas of
the log's byte count; the second rests on `SaysNothing`, that an end which has said its close
answers no further ping.

**Messages arrive whole.** That the bytes implement `MessageStream`, in both directions, needs an
invariant about what is still to come:

    TransferInv == WsInv /\ types /\ a dead end is closed /\ \A e \in End : StreamIn(e)

`Pending(e)` is what the decoder of `e` would make of all that is buffered and on its way, and
`ToCome(e)` what its user was handed followed by the texts of that. `StreamIn(e)` says of an open end that
`ToCome(e)` is a prefix of what the other end sent; and, while the network speaks, that what is
under way is whole frames, that unless the decoding stops in them they leave no fragment of a message
behind, and that then, as long as the other end is open, `ToCome(e)` is *all* it sent. TLC found
`StreamIn` to hold in every state of the run before it was proved. Three lemmas carry it:

* `PushSplits`: however what arrives is cut into two reads, in the middle of a frame or
  behind one, the decoder makes the same of it. So a read moves messages from what is to come
  to what was handed on, and `ToCome` stays what it was (`ReadKeepsStream`). It rests on
  `DecodingGoesOn`, that decoding frames one after the other goes on where it stopped, also
  behind a close or a failure.
* `Carries`: what the frames of one method bring to a decoder that waits for a message. A
  text brings its message (`TextCarries`), fragments with a ping between them their sequence, or a refusal
  if that is too long (`FragmentsCarry`), control frames nothing (`ControlsCarry`), and what
  breaks the protocol nothing but a refusal (`InvalidCarries`): it is not handed on, nor glued to a message.
* `MoreArrives` joins the two: what is written behind what is under way adds its messages to what
  is to come, and nothing if the decoding stops before.

A read that ends in a close hands on what came before, and closes the end (`CloseIsTold`); one that
fails drops the messages of the same push, and closes the end too: a stream may stop at any
message, and skips none.

| Theorem | States |
|---|---|
| `WsInvHolds` | `WsSpec => []WsInv` |
| `ClosesForGood` | `WsSpec => []CloseIsFinal` |
| `TransferInvHolds` | `WsSpec => []TransferInv` |
| `MessagesArriveWhole` | `WsSpec => ImplementsStreams` |

### What stays with TLC

Every safety property that a run checks is proved. Only model-checked is all liveness
(`ConnectsForGood`, `StopCompletes`, `CatchesUp`, `EveryCallIsAnswered`, `StartedIsShown`,
`GonePeerIsNoticed`), because the prover has neither fairness nor ENABLED.

## 5. Not modelled

* **Limits of the relay**: sockets per source, claimants beyond the listener's own bound, idle
  time, bytes in flight. Only the quota that drops a frame is modelled, since it is the one that
  an honest phone can meet. The relay of `RelayTunnel` is honest.
* **The rate limiter** (`server.ts:77-107`): one counter per device and fixed minute, read by nothing
  else. As it is written, up to twice the limit passes around the turn of a minute.
* **Pings of the phone's relay session**, and which of `start` and `onLost` hears of a loss.
* **The upgrade handshake and masking of the WebSocket**, close codes and binary messages.
* **Encodings and cryptography**: signatures are genuine or not, nonces and tokens do
  not repeat, the short code is injective. They have no behaviour over time.
* **Parsing, routing, body limits, wording, logging, the audit log.**
  They decide whether a handler runs, not what it does afterwards.
* **Screens, Codex plugin**: they render or start the modelled parts; the camera's flow before a scan
  (`beginScanning`) too.
* **Phone storage**: the writes that the core does not await, and what a later start of the app reads
  back.
* **Durations.** A timer fires or has not fired; lifetimes are over or not. That the
  phone's deadline is later than the token's is the one order of durations that is used.

## 6. Where code and documentation part

Kept in the models as the code has them, and excepted by name in a property where one
touches them.

The stream:

* The pumps run while the handshake of a reopened connection still waits for
  `host.describe`. An approval that dsh replays then is recorded and cleared again by
  `onDshReady` of the same generation (`hub.ts:112-125`), where `connection.ts:15-18` and
  `rebaseline.ts:13-14` say that replayed answerable frames re-surface. `ObligationsFollowDsh`
  therefore promises nothing of an approval that was replayed before its generation was ready.
* `core.ts:571` advances the cursor to the hello's number before the delta is read;
  losing the connection in between leaves a gap that no later resume closes, where
  `ring.ts:13-15` says a reader always gets the rest or a refusal (mishap "delta torn").
* The open timeout lets a handshake succeed without both sockets
  (`connection.ts:188-201`), where its header says "Readiness requires BOTH downlink sockets open" and
  182-183 "Only then may onConnected fire". A socket that never opens nor fails stays that way.
* The hub counts ready generations only: frames of a first attempt that never became
  ready survive into the first ready one (`hub.ts:114`; hence `generation > 1` in
  `NoDeadObligationAfterRestart`).
* A restarted bridge counts from one again: an old cursor may be valid in the new log
  (`ring.ts:113-117`; mishap "bridge restarted").
* A resync that arrives while one is under way is dropped, and one that failed is not
  repeated (`core.ts:664,671-683`; mishaps).
* The resync's handler and `loadHistory` assign a session's history whole after an await
  (`useDsh.tsx:174-179,315`): what was folded since dsh answered, or fetched by a later read, is lost (mishap
  "frame overwritten"). A history that cannot be read is passed over (179-182), and the phone
  becomes ready without it (mishap "history unread").
* Nothing tells an envelope that a fetched history already covers from a new one: it is folded on top.
* An `unavailable` answer that was given before dsh came back takes a ready phone to harness-offline
  (`core.ts:888`), where it stays until the next lifecycle frame ("late refusal").

Requests and pairing:

* `respondChains` entries are never removed (`server.ts:655-658`).
* A claimed pairing does not expire until it is confirmed or cancelled (`pairing.ts:237-241`): `confirm`
  asks no clock, and expiry (172) reaches only a session that awaits a claim, where
  `server.ts:357-358` promises the operator "the remainder of the 120-second window, not a fresh one".
  A confirmation given in one window acts on the session of the
  newest (`bridge.ts:465-511`; hence `Alone` in two properties).
* `handleRpc` and `handleRespond` use the device record they captured before they waited for
  the body (`server.ts:461-520`), where the comment at 428-434 promises the record of the
  moment: a call whose device is revoked meanwhile still goes out, within the tier it had.
* A `paired` answer may be on its way when the device is revoked (`server.ts:297-315`,
  `pair-flow.ts:226`): the phone stores the bridge, and learns of the revocation when it first
  authenticates. `BelievesWhatIsOnRecord` promises that the pairing is the one on record, not that it lives.
* A start with a relay where no relay is set cancels whatever session there is, another window's too,
  and reports `pair-failed` before `beginPair` returns (`bridge.ts:335-342`); the panel then stores the
  handle of a window that never opened beside the failed snapshot (`panel/pairing.ts:104`). A
  `rendezvous.start()` that is refused or fails later is not modelled.
* A phone that dials the rendezvous twice stores the id of its second dial, while a confirmation
  may have recorded, and started the connector of, the first (`bridge.ts:227-241`); with two
  claimants, the first proven one may not be the one confirmed, and the route waits for the next poll.
  Both are exceptions in `StoredIsExpected` and `ConfirmedHasRoute`.
* A window whose token expires is reported over by its poll timer without `finish`
  (`bridge.ts:366-380`), so its rendezvous stays registered at the relay, where
  `panel/pairing.ts:28-31` says that `finish()` closes it.
* A page ignores the snapshot's `rev` (`panel.js:279-291`), which `panel/pairing.ts:65` provides
  to tell an old answer from a new one (`overtaken`). A page's confirmation carries neither `rev` nor the
  code it saw, and is answered `ok` even if the registration behind it fails (`panel/pairing.ts:114-120`).

The phone:

* `connect` returns at once while another call is under way, even if that one belongs
  to a replaced transport (`core.ts:368`). After `reconnectNow` in the middle of a connect both return, and the session is
  `connecting` with no transport, timer or stream, where `state.ts:34` says that it "will get there on
  its own" (mishap "connect swallowed").
* An authentication is adopted, and a failing request tears
  down, whatever transport it belonged to (`core.ts:514-523,742`; mishaps "authentication outlived its
  transport", "late failure"). Adopting one over the old bridge after a new pairing can write the old bridge back (519-523).
* `runPair` and `clear` go on after their awaited write without asking for their generation
  (`core.ts:335-337,354-355`), where the header says that "a generation counter guards every async
  continuation" (22). A write that settles late sets the state of whatever session there is then, a
  pairing that the user began since included (mishap "adopted late"). A reconnect during
  `runPair`'s write has already built a transport; the connect after the write builds
  another and does not close it, against line 19.
* `clear` tears everything down before its write and sets the state after it: a phone that was ready says so
  without a transport until the write settles, and for good if it is rejected, which also leaves
  `runPair` with a bridge and no connect (excepted in `ReadyIsLive` and `NeverIdle`).
* A pairing that fails on its relay ends in `relay-unavailable` with `nextRetryAt` set to now and no timer
  (`core.ts:913-921`); `state.ts:34` counts the state among those that get there on their own, and the old bridge is
  still set. `NeverIdle` counts it among the states at rest.
* A bridge restart (or 60 seconds) between challenge and proof answers `unauthenticated`, which
  `core.ts:857` takes for a revocation, where `tokens.ts:12-14` promises a silent
  re-authentication (mishap "nonce lost", excepted in `ForgetsForCause`).

The relay:

* `fail()` closes the relay socket and schedules a redial, and the close event that follows
  schedules a second one (`connector.ts:233-267`): the second dial drops the socket that the
  first one opened, while the relay still holds its registration (`Orphans`, excepted in two properties).
  That second dial tears nothing down either: the handshake, and that it was signed, are
  carried over to the new socket, against the comment "A redial always renegotiates"
  (`connector.ts:273-274`). It takes three dials: the relay still counts a lost connection, so
  the next registration is refused and its socket closed, which schedules two redials, and the
  first of them is in a handshake when the second comes. When the phone's session is another by then, the
  connector takes its signature for given and the handshake stalls until the phone's timeout:
  `QuietMeansSealed` excepts it (`carriedOver`), and without the exception TLC finds it at 4 dials,
  2 sessions, no request and 2 faults.
* The phone can end in a terminal `pin-mismatch` without an impostor: a signed handshake of
  the bridge for its last session is forwarded to the next one (`relay-transport.ts:252-268`). It can
  end in a terminal `routing-collision` with itself: it closes and reconnects, and the relay
  reads the new registration before it learns of the old socket's end (`server.ts:207-213`,
  `core.ts:831`; `types.ts:370-371` calls this the one error that waiting does not fix).
  Neither can happen to a phone's first session (`AccusedOnlyAfterOverlap`).
* The answer to a request of one tunnel is sent on the next (`connector.ts:491-502`), where ids start
  at `r1` again, against `tunnel.ts:303-305`.
* A frame of the bridge that the relay drops for its quota leaves a request to its timer and a
  handshake to its timeout (`overQuota`).
* A subscription's stream may open after its tunnel is gone, or after a later subscription's
  (`connector.ts:504-532`): nothing is checked after the await, so the connector keeps whichever
  opened last, and the one it no longer holds goes on sending into the tunnel of the moment.

Revocation and files:

* A revoked device's socket is dropped from the hub and not closed
  (`server.ts:183-187`); a token rotated for a stream that cannot attach
  is never told (`server.ts:794-818`).
* A revocation whose write fails leaves tokens, streams and the connector in place (`registry.ts:168-186`).
* A process that ends between the two files of a revocation leaves the route in
  `identity.json`; `syncConnectors` asks the registry, so no tunnel comes of it.
* The terminal's relay command writes back an identity file that it read earlier
  (`cli.ts:470-498`): a route the bridge added in between is lost, one that it removed is back; and the
  bridge's copy does not notice, where `api.ts:243` calls the hint to restart exact (`foreign`).
* Outside the models, by reading only: two processes that both start for the first time may
  each mint an identity (`IdentityStore.open`); in the Codex plugin a disposer may run while
  `start` is pending, and a start that fails half way stops nothing
  (`plugins/dsh-bridge/src/index.ts:143-270`).

## 7. Plan

Done: the log, the hub, the connection, resuming, answering, pairing in all its forms, the auth
service and what surrounds it, the phone's session, the relay's tunnel and the WebSocket;
and proofs of all of them. What is left, in order:

1. **RelayTunnel.** `start` and `onLost` reporting a loss once; pings; liveness of redials. An abstract
   request and stream interface (`src/m1/transport.ts`) that both transports implement.
2. **Relay server.** Its limits, idle time and the cap on claimants. Property: the last notice a peer
   received describes the pair once both ends are quiet.
3. **Smaller parts.** The rate limiter against its definition; a window that expires after it
   was claimed.
