----------------------------- MODULE StreamHub -----------------------------
(***************************************************************************)
(* The fanout hub: one dsh stream in, many phones out                      *)
(* (bridge/src/stream/hub.ts, with the stores of snapshots.ts).            *)
(*                                                                         *)
(* Every method of the hub is synchronous, so each is one action.  The     *)
(* module is both a specification of its own, in an environment that calls *)
(* the methods in any order the bridge can, and the vocabulary that        *)
(* BridgeCore composes with the dsh connection.                            *)
(*                                                                         *)
(* dsh mints an obligation's rpcId and approvalId together, so one name,   *)
(* a member of Rpc, stands for both; the order in which obligations are    *)
(* replayed is left out.                                                   *)
(***************************************************************************)
EXTENDS RingLog, FiniteSets, Functions

CONSTANTS
  Session,     \* dsh sessions
  Approval,    \* rpcIds of approval/requested frames
  Question,    \* rpcIds of question/requested frames
  SessionOf,   \* the session each obligation belongs to
  MaxSeq,      \* bound: projection sequence numbers
  Stream,      \* subscriber objects: one per phone socket
  DeviceOf,    \* the device each stream belongs to
  MaxBseq,     \* bound: envelopes published in a behaviour
  Offered      \* the frames dsh sends, out of MuxFrame and HostFrame

Rpc == Approval \cup Question
Device == Range(DeviceOf)

ASSUME HubAssumption == /\ Approval \cap Question = {}
                        /\ SessionOf \in [Rpc -> Session]
                        /\ DOMAIN DeviceOf = Stream
                        /\ MaxBseq \in Nat /\ MaxSeq \in Nat

VARIABLES
  ring,          \* the FrameRing
  snapshots,     \* SnapshotStore.snapshots: key -> newest frame
  projectionSeq, \* SnapshotStore.projectionSeq: key -> high-water seq
  pending,       \* PendingAnswerables.pending: the rpcIds with an entry
  byApprovalId,  \* PendingAnswerables.byApprovalId: the approvals with an entry
  dshReady,
  generation,    \* counts the generations that became ready
  stream,        \* per subscriber: its place in the hub and what it was sent
  log,           \* history: every frame published, frame i under bseq i
  consumed       \* history: obligations answered since they were last requested

hubVars == <<ring, snapshots, projectionSeq, pending, byApprovalId,
             dshReady, generation, stream, log, consumed>>

-----------------------------------------------------------------------------
\* Frames.

Requested(r) == [type |-> IF r \in Approval THEN "approval/requested"
                                            ELSE "question/requested", rpc |-> r]
Resolved(r)  == [type |-> IF r \in Approval THEN "approval/resolved"
                                            ELSE "question/resolved", rpc |-> r]
Projection(s, n) == [type |-> "session/projection", session |-> s, seq |-> n]
Queue(s)     == [type |-> "session/queue", session |-> s]
Event(s)     == [type |-> "session/event", session |-> s]
Removed(s)   == [type |-> "host/session-removed", session |-> s]
Workspace    == [type |-> "host/workspace-changed"]

Answerable(f) == f.type \in {"approval/requested", "question/requested"}

MuxFrame == {Requested(r) : r \in Rpc} \cup {Resolved(r) : r \in Rpc}
            \cup {Projection(s, n) : s \in Session, n \in 1 .. MaxSeq}
            \cup {Queue(s) : s \in Session} \cup {Event(s) : s \in Session}
HostFrame == {Removed(s) : s \in Session} \cup {Workspace}

DshRestarted     == [type |-> "resync-required"]
DshReadyFrame(g) == [type |-> "dsh-ready", generation |-> g]
DshDisconnected  == [type |-> "dsh-disconnected"]
DeviceRevoked    == [type |-> "device-revoked"]

-----------------------------------------------------------------------------
\* SnapshotStore.

SnapshotFrame(f) == f.type \in {"session/projection", "session/queue",
                                "host/workspace-changed"}
SnapshotKey(f) == IF f.type = "host/workspace-changed"
                  THEN <<f.type>> ELSE <<f.type, f.session>>

StaleProjection(f) ==
  /\ f.type = "session/projection"
  /\ SnapshotKey(f) \in DOMAIN projectionSeq
  /\ f.seq <= projectionSeq[SnapshotKey(f)]

Put(map, key, value) ==
  [k \in DOMAIN map \cup {key} |-> IF k = key THEN value ELSE map[k]]

RecordSnapshot(f) ==
  IF ~ SnapshotFrame(f) \/ StaleProjection(f)
  THEN UNCHANGED <<snapshots, projectionSeq>>
  ELSE /\ snapshots' = Put(snapshots, SnapshotKey(f), f)
       /\ projectionSeq' = IF f.type = "session/projection"
                           THEN Put(projectionSeq, SnapshotKey(f), f.seq)
                           ELSE projectionSeq

KeysOf(s) == {key \in DOMAIN snapshots : Len(key) = 2 /\ key[2] = s}

ForgetSnapshots_KeepSeq(s) ==
  /\ snapshots' = Restrict(snapshots, DOMAIN snapshots \ KeysOf(s))
  /\ UNCHANGED projectionSeq
ForgetSnapshots(s) ==
  /\ snapshots' = Restrict(snapshots, DOMAIN snapshots \ KeysOf(s))
  /\ projectionSeq' = Restrict(projectionSeq, DOMAIN projectionSeq \ KeysOf(s))

ClearSnapshots == snapshots' = <<>> /\ projectionSeq' = <<>>

-----------------------------------------------------------------------------
\* PendingAnswerables.

RecordPending(r) ==
  /\ pending' = pending \cup {r}
  /\ byApprovalId' = byApprovalId \cup ({r} \cap Approval)

\* An approval is looked up through byApprovalId, a question by its rpcId.
ResolvePending(r) ==
  IF r \in Approval /\ r \notin byApprovalId
  THEN UNCHANGED <<pending, byApprovalId>>
  ELSE /\ pending' = pending \ {r}
       /\ byApprovalId' = byApprovalId \ {r}

DropPending(rs) == /\ pending' = pending \ rs
                   /\ byApprovalId' = byApprovalId \ rs

ForgetPending(s) == DropPending({r \in pending : SessionOf[r] = s})

ClearPending_IndexOnly == byApprovalId' = {} /\ UNCHANGED pending
ClearPending == pending' = {} /\ byApprovalId' = {}

-----------------------------------------------------------------------------
\* Publishing: append to the ring, then deliver to every subscriber.

Room(n) == Len(log) + n <= MaxBseq

Deliver(streams, envelopes) ==
  [s \in Stream |-> IF s \in streams
                    THEN [stream[s] EXCEPT !.live = @ \o envelopes] ELSE stream[s]]

Subscribers == {s \in Stream : stream[s].state = "live"}

\* The ring becomes r, the one that `frames` were appended to.
PublishAs(r, frames) ==
  /\ Room(Len(frames))
  /\ ring' = r
  /\ log' = log \o frames
  /\ stream' = Deliver(Subscribers,
                 [i \in 1 .. Len(frames) |->
                    [bseq |-> ring.lastAssigned + i, frame |-> frames[i]]])

Publish(f) == PublishAs(RingAppend(ring, f), <<f>>)

\* The obligation is recorded before the frame is published.
IngestMux(f) ==
  /\ Publish(f)
  /\ RecordSnapshot(f)
  /\ \/ /\ Answerable(f)
        /\ RecordPending(f.rpc)
        /\ consumed' = consumed \ {f.rpc}
     \/ /\ f.type \in {"approval/resolved", "question/resolved"}
        /\ ResolvePending(f.rpc)
        /\ UNCHANGED consumed
     \/ /\ f.type \notin {"approval/requested", "question/requested",
                          "approval/resolved", "question/resolved"}
        /\ UNCHANGED <<pending, byApprovalId, consumed>>
  /\ UNCHANGED <<dshReady, generation>>

IngestHost(f) ==
  /\ Publish(f)
  /\ IF f.type = "host/session-removed"
     THEN ForgetSnapshots(f.session) /\ ForgetPending(f.session)
     ELSE RecordSnapshot(f) /\ UNCHANGED <<pending, byApprovalId>>
  /\ UNCHANGED <<dshReady, generation, consumed>>

-----------------------------------------------------------------------------
\* The dsh lifecycle.

\* The first generation only announces itself; a later one drops what
\* describes the generation before it and tells every phone to resync.
OnDshReady ==
  /\ generation' = generation + 1
  /\ dshReady' = TRUE
  /\ IF generation > 0
     THEN /\ ClearSnapshots
          /\ ClearPending
          /\ LET announced == DshReadyFrame(generation + 1)
             IN  PublishAs(RingAppend(RingAppend(ClearRetained(ring), DshRestarted), announced),
                           <<DshRestarted, announced>>)
     ELSE /\ UNCHANGED <<snapshots, projectionSeq, pending, byApprovalId>>
          /\ Publish(DshReadyFrame(1))
  /\ UNCHANGED consumed

OnDshDisconnected ==
  /\ dshReady' = FALSE
  /\ Publish(DshDisconnected)
  /\ UNCHANGED <<snapshots, projectionSeq, pending, byApprovalId, generation, consumed>>

-----------------------------------------------------------------------------
\* Subscribers.

unattached == [state |-> "new", after |-> 0, resynced |-> FALSE, lastBseq |-> 0,
               backlog |-> <<>>, snapshots |-> {}, owed |-> {}, live |-> <<>>]

AttachWith(s, after, owed) ==
  /\ dshReady
  /\ LET read == ReadAfter(ring, after)
     IN  stream' = [stream EXCEPT ![s] =
           [unattached EXCEPT !.state = "live", !.after = after,
              !.resynced = ~ read.ok, !.lastBseq = read.lastBseq,
              !.backlog = read.frames, !.owed = owed,
              !.snapshots = IF read.ok THEN {} ELSE Range(snapshots)]]
  /\ UNCHANGED <<ring, snapshots, projectionSeq, pending, byApprovalId,
                 dshReady, generation, log, consumed>>

Attach_OweOnResyncOnly(s, after) ==
  AttachWith(s, after, IF ReadAfter(ring, after).ok THEN {} ELSE pending)
\* attach, when it does not answer `not-ready`: every open obligation is
\* replayed, whether the delta could be served or not.
Attach(s, after) == AttachWith(s, after, pending)

Detach(s) ==
  /\ stream' = [stream EXCEPT ![s] = [unattached EXCEPT !.state = "closed"]]
  /\ UNCHANGED <<ring, snapshots, projectionSeq, pending, byApprovalId,
                 dshReady, generation, log, consumed>>

TokenExpiring == [type |-> "token-expiring"]

\* notifyDevice, as maintain calls it: to one device, outside the log.
NotifyDevice(d) ==
  /\ stream' = Deliver({s \in Subscribers : DeviceOf[s] = d},
                       << [bseq |-> ring.lastAssigned, frame |-> TokenExpiring] >>)
  /\ UNCHANGED <<ring, snapshots, projectionSeq, pending, byApprovalId,
                 dshReady, generation, log, consumed>>

\* Every live stream of the device is told why, then dropped. Of what it was sent, the
\* model keeps this last message only.
DisconnectDevice(d) ==
  /\ stream' = [s \in Stream |->
       IF stream[s].state = "live" /\ DeviceOf[s] = d
       THEN [unattached EXCEPT !.state = "dropped",
               !.live = <<[bseq |-> ring.lastAssigned, frame |-> DeviceRevoked]>>]
       ELSE stream[s]]
  /\ UNCHANGED <<ring, snapshots, projectionSeq, pending, byApprovalId,
                 dshReady, generation, log, consumed>>

ConsumePending(r) ==
  /\ r \in pending
  /\ DropPending({r})
  /\ consumed' = consumed \cup {r}
  /\ UNCHANGED <<ring, snapshots, projectionSeq, dshReady, generation, stream, log>>

-----------------------------------------------------------------------------
HubInit ==
  /\ ring = FreshRing /\ log = <<>>
  /\ snapshots = <<>> /\ projectionSeq = <<>>
  /\ pending = {} /\ byApprovalId = {} /\ consumed = {}
  /\ dshReady = FALSE /\ generation = 0
  /\ stream = [s \in Stream |-> unattached]

\* Bound: one expiry warning per stream.
Unwarned(d) == \A s \in Subscribers :
  DeviceOf[s] = d => \A i \in DOMAIN stream[s].live : stream[s].live[i].frame # TokenExpiring

\* The calls the rest of the bridge makes: frames come while a generation is
\* being established or is connected, readiness alternates.
HubNext ==
  \/ \E f \in Offered \cap MuxFrame : IngestMux(f)
  \/ \E f \in Offered \cap HostFrame : IngestHost(f)
  \/ ~ dshReady /\ OnDshReady
  \/ dshReady /\ OnDshDisconnected
  \/ \E s \in Stream, after \in 0 .. Len(log) + 1 :
       stream[s].state = "new" /\ Attach(s, after)
  \/ \E s \in Stream : stream[s].state = "live" /\ Detach(s)
  \/ \E d \in Device : (\E s \in Subscribers : DeviceOf[s] = d)
                       /\ (DisconnectDevice(d) \/ (Unwarned(d) /\ NotifyDevice(d)))
  \/ \E r \in Rpc : ConsumePending(r)

HubSpec == HubInit /\ [][HubNext]_hubVars

-----------------------------------------------------------------------------
Notice == {DeviceRevoked, TokenExpiring}
Index == 1 .. Len(log)

\* Where the current generation begins in the log: at its restart marker, or
\* at the beginning while no generation has replaced another.
GenerationStart ==
  LET markers == {i \in Index : log[i] = DshRestarted}
  IN  IF markers = {} THEN 1 ELSE CHOOSE i \in markers : \A j \in markers : j <= i

\* A phone that stays attached has the log from its cursor on, in order, every
\* frame once: what the delta held followed by what was delivered since, the notices
\* left out. After a resync the same holds from the number the hub answered with.
From(s)      == IF stream[s].resynced THEN stream[s].lastBseq ELSE stream[s].after
Delivered(s) == stream[s].backlog \o stream[s].live
OfLog(s)     == {i \in DOMAIN Delivered(s) : Delivered(s)[i].frame \notin Notice}
StreamIsContiguous ==
  \A s \in Subscribers :
    /\ \A i \in OfLog(s) : /\ Delivered(s)[i].bseq \in From(s) + 1 .. Len(log)
                           /\ Delivered(s)[i].frame = log[Delivered(s)[i].bseq]
    /\ \A i, j \in OfLog(s) : i < j => Delivered(s)[i].bseq < Delivered(s)[j].bseq
    /\ \A b \in From(s) + 1 .. Len(log) : \E i \in OfLog(s) : Delivered(s)[i].bseq = b

\* The pending set is what it is used as: an rpcId is in it exactly when the
\* current generation asked for it, and neither dsh resolved it, nor its session
\* went away, nor a phone's answer was accepted since; and the approvals among them can
\* be looked up by their second name too.
OpenInLog(r) ==
  /\ r \notin consumed
  /\ \E i \in GenerationStart .. Len(log) :
       /\ log[i] = Requested(r)
       /\ \A j \in i + 1 .. Len(log) :
            log[j] \notin {Resolved(r), Removed(SessionOf[r])}
PendingIsOpen ==
  /\ pending = {r \in Rpc : OpenInLog(r)}
  /\ byApprovalId = pending \cap Approval

\* Every open obligation has reached every attached phone, on its attach or
\* since: none can wait for an answer from a phone that was never asked.
EveryPhoneWasAsked ==
  \A s \in Subscribers, r \in pending :
    \/ r \in stream[s].owed
    \/ \E i \in DOMAIN Delivered(s) : Delivered(s)[i].frame = Requested(r)

\* The projection a resync would send for a session is the newest one dsh sent
\* since the session (re)appeared in this generation, and not an older redelivery.
ProjectionIsNewest ==
  \A s \in Session :
    LET from == {i \in GenerationStart .. Len(log) :
                   \A j \in i .. Len(log) : log[j] # Removed(s)}
        seqs == {n \in 1 .. MaxSeq : \E i \in from : log[i] = Projection(s, n)}
        key  == <<"session/projection", s>>
    IN  IF seqs = {} THEN key \notin DOMAIN snapshots
        ELSE /\ key \in DOMAIN snapshots
             /\ snapshots[key].seq \in seqs
             /\ \A n \in seqs : n <= snapshots[key].seq

\* A dsh restart cannot be slept through: whatever cursor from before it a phone
\* resumes with, it is refused or its delta holds a restart marker.
RestartIsNeverHidden ==
  \A m \in {i \in Index : log[i] = DshRestarted} :
    \A after \in 0 .. m - 1 :
      LET read == ReadAfter(ring, after)
      IN  read.ok => \E i \in DOMAIN read.frames : read.frames[i].frame = DshRestarted

\* What an attach or a resync replays is what the current generation still stands for,
\* after any sequence of frames, answers, removals and restarts: the open obligations,
\* and the newest projection of each session.
ReplaysAreCurrent == PendingIsOpen /\ ProjectionIsNewest

\* What a stream tells a phone is the log: nothing skipped, repeated or reordered on the
\* way, and no restart of dsh that a resume could step over.
StreamIsHonest == StreamIsContiguous /\ RestartIsNeverHidden
=============================================================================
