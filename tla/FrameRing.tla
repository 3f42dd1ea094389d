----------------------------- MODULE FrameRing -----------------------------
(***************************************************************************)
(* The resume log of the bridge over time (bridge/src/stream/ring.ts):     *)
(* frames are appended, a dsh restart clears what is retained, and readers *)
(* ask for the delta after any cursor they may hold.                       *)
(***************************************************************************)
EXTENDS RingLog

CONSTANTS
  Frame,       \* the frames published
  MaxBseq      \* bound: frames published in a behaviour

ASSUME MaxBseqAssumption == MaxBseq \in Nat
ASSUME WeightAssumption == \A f \in Frame : Weight(f) \in Nat

VARIABLES
  ring,        \* the fields of the FrameRing object
  log,         \* history: every frame ever appended, in order
  reply        \* the last result readAfter returned

vars == <<ring, log, reply>>

FrameRingInit == /\ ring = FreshRing
                 /\ log = <<>>
                 /\ reply = [kind |-> "none"]

AppendFrame(f) == /\ ring.lastAssigned < MaxBseq
                  /\ ring' = RingAppend(ring, f)
                  /\ log' = Append(log, f)
                  /\ UNCHANGED reply

Clear == /\ ring' = ClearRetained(ring)
         /\ UNCHANGED <<log, reply>>

\* Cursors a reader sends: any number it was once given, one from a bridge
\* process that counted further, and one that is not a cursor at all.
Cursor == -1 .. MaxBseq + 1

Read(after) ==
  LET result == ReadAfter(ring, after)
  IN  /\ reply' = IF result.ok
                  THEN [kind |-> "delta", after |-> after, frames |-> result.frames]
                  ELSE [kind |-> "resync-required"]
      /\ UNCHANGED <<ring, log>>

FrameRingNext == \/ \E f \in Frame : AppendFrame(f)
                 \/ Clear
                 \/ \E after \in Cursor : Read(after)

FrameRingSpec == FrameRingInit /\ [][FrameRingNext]_vars

-----------------------------------------------------------------------------
\* Type invariant: the object's fields, without `bytes` (see RetentionBound).
TypeOK == IsRing(ring, Frame) /\ log \in Seq(Frame)

\* What the ring retains is a window at the end of the history: none of its
\* frames missing, none twice, each under the number it was published with.
RetainedWindow == Retains(ring, log)

\* "never a partial delta" (ring.ts, header): whatever cursor a reader asks
\* for, an answer that is not a refusal holds every frame published after it.
NoPartialDelta ==
  \A after \in Cursor :
    LET result == ReadAfter(ring, after)
    IN  result.ok =>
          /\ after \in 0 .. Len(log)
          /\ result.frames = SuffixOf(log, after)

\* A refusal is never gratuitous: the reader asked for the future, or some
\* frame it lacks is no longer retained.
RefusedOnlyForCause ==
  \A after \in Cursor \cap Nat :
    ~ ReadAfter(ring, after).ok =>
      \/ after > Len(log)
      \/ \E b \in after + 1 .. Len(log) :
           \A i \in 1 .. Len(ring.entries) : ring.entries[i].bseq # b

\* What the log retains is well-typed and the end of what was published, whatever was
\* evicted or cleared on the way.
RingIsSound == TypeOK /\ RetainedWindow

\* A reader gets all that follows its cursor, or a refusal that has a cause.
ReadsAreExact == NoPartialDelta /\ RefusedOnlyForCause

\* Retention is bounded by both budgets, and the only thing that may exceed the
\* byte budget is a single frame that is alone larger than it. The running byte
\* count the eviction relies on is the size of what is retained.
RetentionBound == /\ Len(ring.entries) <= MaxFrames
                  /\ Len(ring.entries) > 1 => ring.bytes <= MaxBytes
                  /\ ring.bytes = BytesOf(ring.entries)

\* The log implements the abstract promise made to readers.
Promised == INSTANCE ResumeLog WITH Frame <- Frame, log <- log, reply <- reply
ImplementsResumeLog == Promised!ResumeLogSpec
=============================================================================
