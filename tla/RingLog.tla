------------------------------ MODULE RingLog ------------------------------
(***************************************************************************)
(* The bridge's bounded resume log as a value: the operations of class     *)
(* FrameRing (bridge/src/stream/ring.ts) as operators on a record that     *)
(* holds the object's fields.  Specifications keep such a record in a      *)
(* variable and apply these operators to it (FrameRing and StreamHub).     *)
(*                                                                         *)
(* An envelope is a record [bseq, frame].  What a frame holds is left to   *)
(* the specification that uses the log; the log only looks at its size,    *)
(* the operator Weight.                                                    *)
(***************************************************************************)
EXTENDS Integers, Sequences, SequencesExt

CONSTANTS
  MaxFrames,   \* RingLimits.maxFrames
  MaxBytes,    \* RingLimits.maxBytes
  Weight(_)    \* serialized size of the envelope of a frame

\* The two checks of the constructor.
ASSUME RingLimitsAssumption == /\ MaxFrames \in Nat \ {0}
                               /\ MaxBytes \in Nat \ {0}

FreshRing == [entries |-> <<>>, bytes |-> 0, nextBseq |-> 1,
              lastAssigned |-> 0, evictedThrough |-> 0]

BytesOf(entries) ==
  LET sum[i \in 0 .. Len(entries)] ==
        IF i = 0 THEN 0 ELSE sum[i - 1] + Weight(entries[i].frame)
  IN  sum[Len(entries)]

\* The condition of evict's loop, for n retained entries of b bytes.
OverBudget_OffByOne(n, b) == n > MaxFrames + 1 \/ (b > MaxBytes /\ n > 1)
OverBudget(n, b) == n > MaxFrames \/ (b > MaxBytes /\ n > 1)

\* The number of entries evict's loop shifts off: the first count at which
\* its condition is false.
Shed(r) ==
  LET Stops(k) == ~ OverBudget(Len(r.entries) - k,
                               r.bytes - BytesOf(SubSeq(r.entries, 1, k)))
  IN  CHOOSE k \in 0 .. Len(r.entries) :
        Stops(k) /\ \A j \in 0 .. k - 1 : ~ Stops(j)

Evict_NoMark(r) ==
  LET k == Shed(r)
  IN  [r EXCEPT !.entries = SubSeq(@, k + 1, Len(@)),
                !.bytes   = @ - BytesOf(SubSeq(r.entries, 1, k))]
Evict(r) ==
  LET k == Shed(r)
  IN  [r EXCEPT !.entries = SubSeq(@, k + 1, Len(@)),
                !.bytes   = @ - BytesOf(SubSeq(r.entries, 1, k)),
                !.evictedThrough = IF k = 0 THEN @ ELSE r.entries[k].bseq]

RingAppend(r, frame) ==
  Evict([r EXCEPT !.entries      = Append(@, [bseq |-> r.nextBseq, frame |-> frame]),
                  !.bytes        = @ + Weight(frame),
                  !.nextBseq     = @ + 1,
                  !.lastAssigned = r.nextBseq])

\* Drop every retained frame, keep counting.
ClearRetained_NoMark(r) == [r EXCEPT !.entries = <<>>, !.bytes = 0]
ClearRetained(r) ==
  [r EXCEPT !.evictedThrough = r.lastAssigned, !.entries = <<>>, !.bytes = 0]

\* The retained entries in bseq order, those up to `after` left out: the
\* entries are in bseq order, so what the filter keeps is a tail.
FramesAfter(r, after) ==
  LET n     == Len(r.entries)
      first == CHOOSE i \in 1 .. n + 1 :
                 /\ \A j \in 1 .. i - 1 : r.entries[j].bseq <= after
                 /\ \A j \in i .. n     : r.entries[j].bseq > after
  IN  SubSeq(r.entries, first, n)

Refuses_NoZeroCase(r, after) ==
  \/ after \notin Nat
  \/ after > r.lastAssigned
  \/ after > 0 /\ after < r.evictedThrough
Refuses_NoEvictedCase(r, after) ==
  \/ after \notin Nat
  \/ after > r.lastAssigned
  \/ after = 0 /\ r.evictedThrough > 0
\* readAfter's four refusals: not a cursor, the future, evicted, and a fresh
\* reader of a log that no longer starts at the beginning.
Refuses(r, after) ==
  \/ after \notin Nat
  \/ after > r.lastAssigned
  \/ after > 0 /\ after < r.evictedThrough
  \/ after = 0 /\ r.evictedThrough > 0

ReadAfter(r, after) ==
  IF Refuses(r, after)
  THEN [ok |-> FALSE, frames |-> <<>>, lastBseq |-> r.lastAssigned]
  ELSE [ok |-> TRUE, frames |-> FramesAfter(r, after), lastBseq |-> r.lastAssigned]

-----------------------------------------------------------------------------
\* What the properties and the proofs say of such a record.

\* The object's fields with frames of F, `bytes` left out.
IsRing(r, F) ==
  /\ DOMAIN r = {"entries", "bytes", "nextBseq", "lastAssigned", "evictedThrough"}
  /\ r.entries \in Seq([bseq : Nat, frame : F])
  /\ r.nextBseq \in Nat /\ r.lastAssigned \in Nat /\ r.evictedThrough \in Nat

\* r retains a window at the end of the history h: the frames numbered
\* evictedThrough + 1 up to lastAssigned, none missing, none twice, each under
\* the number it was published with.
Retains(r, h) ==
  /\ r.lastAssigned = Len(h)
  /\ r.nextBseq = Len(h) + 1
  /\ r.evictedThrough + Len(r.entries) = Len(h)
  /\ \A i \in 1 .. Len(r.entries) :
       /\ r.entries[i].bseq = r.evictedThrough + i
       /\ r.entries[i].frame = h[r.evictedThrough + i]

\* The envelopes of the history h after the first `after`.
SuffixOf(h, after) == [i \in 1 .. Len(h) - after |->
                         [bseq |-> after + i, frame |-> h[after + i]]]
=============================================================================
