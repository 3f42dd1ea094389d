---------------------------- MODULE StreamResume ----------------------------
(***************************************************************************)
(* A phone that follows the bridge's stream through lost connections, dsh  *)
(* restarts and restarts of the bridge process: the hub (StreamHub), the   *)
(* upgrade handler that attaches a socket (bridge/src/http/server.ts,      *)
(* handleUpgrade) and the stream half of the phone's session core          *)
(* (src/m1/core.ts: openStream, onHello, onEnvelope, onStreamClosed,       *)
(* runResync, noteHarnessDown), under the layer that keeps what is shown   *)
(* (src/useDsh.tsx: emit, onResync, loadHistory).                          *)
(*                                                                         *)
(* A socket is one member of Stream, used once. What the upgrade handler   *)
(* and the hub send on it is a function of the hub's record of it (Sent),  *)
(* the phone reads it in order, and a lost connection loses what was not   *)
(* read. Snapshots and replayed obligations are left out of Sent: they     *)
(* carry the current number and never move the cursor.  One session is     *)
(* shown.                                                                  *)
(*                                                                         *)
(* Access tokens are the subject of AuthService; an upgrade that finds dsh *)
(* not ready is refused and the phone dials again, which changes nothing   *)
(* here.                                                                   *)
(***************************************************************************)
EXTENDS StreamHub

CONSTANTS
  NoStream,
  MaxRestarts,      \* bound: restarts of the bridge process
  MaxMishaps,       \* bound: how much may have gone wrong when it restarts
  MaxLag            \* bound: frames published while a read of the session's screen is
                    \* on its way

ASSUME ResumeAssumption ==
  NoStream \notin Stream /\ {MaxRestarts, MaxMishaps, MaxLag} \subseteq Nat

VARIABLES
  epoch,       \* which bridge process this is
  phoneState,  \* M1ClientState.name, as far as the stream moves it
  cursor,      \* lastBseq
  socket,      \* the stream the phone reads
  got,         \* how many items of it the phone has read
  resync,      \* resyncInFlight, and how far its handler's read of the history is
  view,        \* what the phone shows: its baseline, and the frames folded
  mishaps      \* history: what first happened that may cost the phone frames

streamVars == <<phoneState, cursor, socket, got>>
phoneVars == <<streamVars, resync, view>>
resumeVars == <<hubVars, epoch, phoneVars, mishaps>>

\* The first `base` frames of process `of` are covered by fetched state; frames, pairs
\* of a process and a bseq, are folded into what is shown, and some of them are kept.
EmptyView(e) == [of |-> e, base |-> 0, folded |-> {}, kept |-> {}]
\* A read of the session's history: asked, answered with what dsh had, and done.
Read(step) == [step |-> step, of |-> 0, base |-> 0]
Resyncing == resync.step # "none"

ResumeInit ==
  /\ HubInit
  /\ epoch = 1 /\ mishaps = {}
  /\ phoneState = "reconnecting" /\ cursor = 0 /\ socket = NoStream /\ got = 0
  /\ resync = Read("none") /\ view = EmptyView(1)

-----------------------------------------------------------------------------
\* The bridge.

Hello(s) == [kind |-> "hello", lastBseq |-> stream[s].lastBseq,
             resync |-> stream[s].resynced]
FromLog(envelopes) == [i \in DOMAIN envelopes |->
  [kind |-> "log", bseq |-> envelopes[i].bseq, frame |-> envelopes[i].frame]]
Overflow(s) == [kind |-> "inline", bseq |-> stream[s].lastBseq,
                frame |-> DshRestarted]

\* handleUpgrade: the hello, then the order to resync or the delta, and from
\* then on what the hub fans out.
Sent(s) == <<Hello(s)>>
           \o (IF stream[s].resynced THEN <<Overflow(s)>> ELSE FromLog(stream[s].backlog))
           \o FromLog(stream[s].live)

\* Bounds leave room in the log for dsh to come back.
DshEvent == /\ dshReady \/ Room(3)
            /\ \E f \in Offered \cap MuxFrame : IngestMux(f)
            /\ UNCHANGED <<epoch, phoneVars, mishaps>>
DshLost == /\ dshReady /\ Room(3)
           /\ OnDshDisconnected
           /\ UNCHANGED <<epoch, phoneVars, mishaps>>
DshBack == /\ ~ dshReady
           /\ OnDshReady
           /\ UNCHANGED <<epoch, phoneVars, mishaps>>

\* A refused call that comes late takes a phone offline, and costs it no frame.
Harmless == {"late refusal"}
Note(new) == mishaps' = IF mishaps \subseteq Harmless THEN mishaps \cup new ELSE mishaps

\* The delta was announced by the hello and not read to its end.
Torn == /\ socket # NoStream /\ got > 0 /\ stream[socket].state = "live"
        /\ ~ stream[socket].resynced
        /\ got < 1 + Len(stream[socket].backlog)
Tearing == IF Torn THEN {"delta torn"} ELSE {}

\* The bridge process is started again: everything in memory is new.
BridgeRestarts ==
  /\ epoch <= MaxRestarts /\ Cardinality(mishaps) <= MaxMishaps
  /\ epoch' = epoch + 1
  /\ ring' = FreshRing /\ log' = <<>>
  /\ snapshots' = <<>> /\ projectionSeq' = <<>>
  /\ pending' = {} /\ byApprovalId' = {} /\ consumed' = {}
  /\ dshReady' = FALSE /\ generation' = 0
  /\ stream' = [s \in Stream |-> IF stream[s].state = "live"
                                 THEN [unattached EXCEPT !.state = "closed"] ELSE stream[s]]
  /\ Note({"bridge restarted"} \cup Tearing)
  /\ UNCHANGED phoneVars

-----------------------------------------------------------------------------
\* The phone.

\* A socket is one attempt. They are alike, and are used in one order.
Unused == {s \in Stream : stream[s].state = "new"}
NextSocket == CHOOSE s \in Unused : TRUE

\* The retry timer fires, authentication succeeds, and openStream asks for
\* what follows the cursor. A phone without a cursor has shown nothing yet.
OpenStream(s) ==
  /\ phoneState = "reconnecting" /\ Unused # {} /\ s = NextSocket
  /\ Attach(s, cursor)
  /\ phoneState' = "connecting" /\ socket' = s /\ got' = 0
  /\ view' = IF cursor = 0 THEN EmptyView(epoch) ELSE view
  /\ UNCHANGED <<epoch, cursor, resync, mishaps>>

Larger(a, b) == IF a > b THEN a ELSE b

\* runResync up to its await. A resync that is already in flight swallows this one.
BeginResync ==
  IF Resyncing
  THEN /\ UNCHANGED <<resync, phoneState>>
       /\ Note({"resync swallowed"})
  ELSE /\ resync' = Read("asked")
       /\ phoneState' = "resyncing"
       /\ UNCHANGED mishaps

OnHello(item) ==
  /\ cursor' = Larger(cursor, item.lastBseq)
  /\ IF item.resync THEN BeginResync
     ELSE phoneState' = "ready" /\ UNCHANGED <<resync, mishaps>>

OnEnvelopeFrame(item) ==
  CASE item.frame = DshRestarted -> BeginResync
    [] item.frame = DshDisconnected ->
         phoneState' = "harness-offline" /\ UNCHANGED <<resync, mishaps>>
    [] item.frame.type = "dsh-ready" ->
         /\ phoneState' = IF phoneState = "harness-offline" THEN "ready" ELSE phoneState
         /\ UNCHANGED <<resync, mishaps>>
    [] OTHER -> UNCHANGED <<phoneState, resync, mishaps>>
OnEnvelope_KeepCursor(item) == UNCHANGED cursor /\ OnEnvelopeFrame(item)
OnEnvelope(item) == cursor' = Larger(cursor, item.bseq) /\ OnEnvelopeFrame(item)

\* What the consumer of the core's `envelope` events makes of a frame.
Fold(item) ==
  view' = IF item.kind = "log"
          THEN [view EXCEPT !.folded = @ \cup {<<epoch, item.bseq>>},
                            !.kept = @ \cup {<<epoch, item.bseq>>}]
          ELSE view

ReadNext ==
  /\ socket # NoStream /\ stream[socket].state = "live" /\ got < Len(Sent(socket))
  /\ LET item == Sent(socket)[got + 1]
     IN  IF item.kind = "hello" THEN OnHello(item) /\ UNCHANGED view
                                ELSE OnEnvelope(item) /\ Fold(item)
  /\ got' = got + 1
  /\ UNCHANGED <<hubVars, epoch, socket>>

\* The connection is lost and both ends learn of it; onStreamClosed backs off.
\* Bound: the last socket is not lost while the bridge keeps it.
LoseStream ==
  /\ socket # NoStream
  /\ stream[socket].state = "live" => Unused # {}
  /\ Note(Tearing)
  /\ IF stream[socket].state = "live" THEN Detach(socket) ELSE UNCHANGED hubVars
  /\ phoneState' = "reconnecting" /\ socket' = NoStream /\ got' = 0
  /\ UNCHANGED <<epoch, cursor, resync, view>>

\* A read of the history is answered through the bridge: the answer covers everything
\* published so far, whatever is folded until it arrives.
Answered == [step |-> "answered", of |-> epoch, base |-> Len(log)]

\* The answer takes the place of what is shown of the session (useDsh.tsx,
\* history.current.set): of what was folded since dsh gave it, and of what a later read
\* has fetched.
After(x, read) == x[1] > read.of \/ (x[1] = read.of /\ x[2] > read.base)
Overwrites(read) == \E x \in view.kept \cup {<<view.of, view.base>>} : After(x, read)
Replaces(read) ==
  /\ view' = [view EXCEPT !.of = read.of, !.base = read.base, !.kept = {}]
  /\ Note(IF Overwrites(read) THEN {"frame overwritten"} ELSE {})

ResyncIsAnswered ==
  /\ resync.step = "asked" /\ dshReady
  /\ resync' = Answered
  /\ UNCHANGED <<hubVars, epoch, streamVars, view, mishaps>>

ResyncAdopts ==
  /\ resync.step = "answered"
  /\ resync' = Read("done") /\ Replaces(resync)
  /\ UNCHANGED <<hubVars, epoch, streamVars>>

\* The history of a session cannot be read: the handler passes over it.
ResyncPassesOver ==
  /\ resync.step = "asked"
  /\ resync' = Read("done") /\ Note({"history unread"})
  /\ UNCHANGED <<hubVars, epoch, streamVars, view>>

ResyncReturns_Strand ==
  /\ resync' = Read("none")
  /\ UNCHANGED <<hubVars, epoch, phoneState, cursor, socket, got, view>>
\* The rest of runResync, after its handler returned or threw.
ResyncReturns ==
  /\ resync' = Read("none")
  /\ phoneState' = IF phoneState = "resyncing" THEN "ready" ELSE phoneState
  /\ UNCHANGED <<hubVars, epoch, cursor, socket, got, view>>

ResyncSucceeds == resync.step = "done" /\ ResyncReturns /\ UNCHANGED mishaps
\* The list of sessions cannot be read, which ends the handler.
ResyncFails == /\ resync.step = "asked" /\ ResyncReturns
               /\ Note({"resync failed"})

\* Requests of the phone are not followed: the answer to one, given some time ago, may
\* come at any time.

\* loadHistory: the screen of the session is opened, and its read answered.
LoadHistory ==
  /\ \E lag \in 0 .. MaxLag :
       lag <= Len(log) /\ Replaces([of |-> epoch, base |-> Len(log) - lag])
  /\ UNCHANGED <<hubVars, epoch, streamVars, resync>>

\* A call found dsh unavailable, which takes a phone offline that is ready now. Its answer
\* is late when dsh is back.
NoteHarnessDown ==
  /\ phoneState = "ready" /\ phoneState' = "harness-offline"
  /\ Note(IF dshReady THEN {"late refusal"} ELSE {})
  /\ UNCHANGED <<hubVars, epoch, cursor, socket, got, resync, view>>

ResumeNext ==
  \/ DshEvent \/ DshLost \/ DshBack \/ BridgeRestarts
  \/ (\E s \in Stream : OpenStream(s)) \/ ReadNext \/ LoseStream
  \/ ResyncIsAnswered \/ ResyncAdopts \/ ResyncPassesOver \/ ResyncSucceeds \/ ResyncFails
  \/ LoadHistory \/ NoteHarnessDown

ResumeSpec == ResumeInit /\ [][ResumeNext]_resumeVars

\* The phone's timers fire, its socket is read, its requests are answered or
\* fail, and dsh is started again. Nobody is obliged to lose a connection.
ResumeFairness ==
  /\ WF_resumeVars(DshBack)
  /\ WF_resumeVars(\E s \in Stream : OpenStream(s))
  /\ WF_resumeVars(ReadNext)
  /\ WF_resumeVars(socket # NoStream /\ stream[socket].state # "live" /\ LoseStream)
  /\ WF_resumeVars(ResyncIsAnswered \/ ResyncPassesOver \/ ResyncFails)
  /\ WF_resumeVars(ResyncAdopts) /\ WF_resumeVars(ResyncSucceeds)
ResumeFairSpec == ResumeSpec /\ ResumeFairness

-----------------------------------------------------------------------------
LastMarker == LET markers == {i \in Index : log[i] = DshRestarted}
              IN  IF markers = {} THEN 0 ELSE CHOOSE i \in markers : \A j \in markers : j <= i

\* The phone claims to be up to date and has read all there is.
Settled == /\ phoneState = "ready" /\ ~ Resyncing
           /\ stream[socket].state = "live" /\ got = Len(Sent(socket))

\* What the phone shows accounts for every session frame of the log: it was folded and
\* is still there, or the baseline covers it. The baseline is not older than the last
\* dsh restart, nor from before this bridge process watched dsh.
ViewComplete ==
  /\ view.of = epoch /\ view.base >= LastMarker
  /\ \A i \in view.base + 1 .. Len(log) :
       log[i] \in Offered => <<epoch, i>> \in view.kept

\* "A silent gap would corrupt the phone's fold" (ring.ts, header). The phone never
\* shows one as ready, whatever connections and dsh generations it lost, unless one
\* of the six mishaps happened that the model keeps a record of.
GapsAreExplained == mishaps \subseteq Harmless /\ Settled => ViewComplete

\* A resumed delta does not repeat: no frame of the log is folded twice, however often
\* the phone reconnects to one bridge process. (A frame that only a fetched baseline
\* covers may still be folded, once.)
NoFrameTwice ==
  [][\A s \in Stream :
       (socket = s /\ socket' = s /\ got' > got /\ Sent(s)[got'].kind = "log")
         => <<epoch, Sent(s)[got'].bseq>> \notin view.folded]_resumeVars

\* Unless a mishap happens, the phone catches up: from some point on it is ready
\* or, when dsh sends nothing, stays so, with nothing missing.
CatchesUp == <>[](mishaps # {} \/ (phoneState = "ready" /\ ViewComplete))
=============================================================================
