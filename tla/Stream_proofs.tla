--------------------------- MODULE Stream_proofs ---------------------------
(***************************************************************************)
(* Theorems about the two ends of a phone's stream: the resume log it is   *)
(* fed from over time, for every set of frames, every retention limit and  *)
(* every weighing of frames; and the hand-written WebSocket that carries   *)
(* it, for every number and size of messages.                              *)
(*                                                                         *)
(* The inductive invariant of the log is the retained window together with *)
(* its types and its budgets: what a reader is told depends only on it, so *)
(* the other facts are consequences of it in each single state.            *)
(*                                                                         *)
(* That of the socket adds to the property who may still write: a sender   *)
(* that has said its close is closed, and a close on its way was said by   *)
(* its sender.  What a read makes of an end is a recursion over the frames *)
(* decoded and then over the messages; the lemmas follow it by induction.  *)
(* That the socket implements a stream of messages follows from what is    *)
(* still to come: what an end was handed and what its decoder would make   *)
(* of the bytes under way are together what the other end sent.            *)
(***************************************************************************)
EXTENDS FrameRing, WebSocket, RingLog_proofs

-----------------------------------------------------------------------------
\* The resume log.

IInv == TypeOK /\ RetainedWindow /\ RetentionBound

\* An empty log.
LEMMA InitEstablishesIInv == FrameRingInit => IInv
<1> SUFFICES ASSUME FrameRingInit PROVE IInv
  OBVIOUS
<1>1. /\ ring.entries = <<>> /\ log = <<>>
      /\ ring.nextBseq = 1 /\ ring.lastAssigned = 0 /\ ring.evictedThrough = 0
      /\ DOMAIN ring = {"entries", "bytes", "nextBseq", "lastAssigned", "evictedThrough"}
  BY DEF FrameRingInit, FreshRing
<1>2. Len(ring.entries) = 0 /\ Len(log) = 0
  BY <1>1
<1>3. TypeOK
  BY <1>1, EmptySeq DEF TypeOK, IsRing
<1>4. RetainedWindow
  BY <1>1, <1>2 DEF RetainedWindow, Retains
<1>5. RetentionBound
  BY <1>1, <1>2, NothingHasNoSize, RingLimitsAssumption
     DEF RetentionBound, FrameRingInit, FreshRing
<1> QED
  BY <1>3, <1>4, <1>5 DEF IInv

\* Append, clear and read.
LEMMA StepPreservesIInv == IInv /\ [FrameRingNext]_vars => IInv'
<1> SUFFICES ASSUME IInv, [FrameRingNext]_vars PROVE IInv'
  OBVIOUS
<1>1. ASSUME NEW f \in Frame, AppendFrame(f)
      PROVE  IInv'
  <2>1. ring' = RingAppend(ring, f) /\ log' = Append(log, f)
    BY <1>1 DEF AppendFrame
  <2>2. IsRing(ring', Frame) /\ Retains(ring', log') /\ Len(ring'.entries) \in 1 .. MaxFrames
    BY <2>1, AppendKeepsWindow DEF IInv, TypeOK, RetainedWindow
  <2>3. log' \in Seq(Frame)
    BY <2>1, AppendProperties DEF IInv, TypeOK
  <2>4. /\ ring'.bytes = BytesOf(ring'.entries)
        /\ Len(ring'.entries) > 1 => ring'.bytes <= MaxBytes
    BY <2>1, AppendKeepsSize, WeightAssumption DEF IInv, TypeOK, RetentionBound
  <2>5. RetentionBound'
    BY <2>2, <2>4, RingLimitsAssumption DEF RetentionBound
  <2> QED
    BY <2>2, <2>3, <2>5 DEF IInv, TypeOK, RetainedWindow
<1>2. ASSUME Clear
      PROVE  IInv'
  <2>1. ring' = ClearRetained(ring) /\ log' = log
    BY <1>2 DEF Clear
  <2>2. IsRing(ring', Frame) /\ Retains(ring', log') /\ Len(ring'.entries) = 0
    BY <2>1, ClearKeepsWindow DEF IInv, TypeOK, RetainedWindow
  <2>3. ring'.entries = <<>> /\ ring'.bytes = 0
    BY <2>1 DEF ClearRetained, IInv, TypeOK, IsRing
  <2>4. RetentionBound'
    BY <2>2, <2>3, NothingHasNoSize, RingLimitsAssumption DEF RetentionBound
  <2> QED
    BY <2>1, <2>2, <2>4 DEF IInv, TypeOK, RetainedWindow
<1>3. ASSUME NEW after \in Cursor, Read(after)
      PROVE  IInv'
  BY <1>3 DEF Read, IInv, TypeOK, RetainedWindow, RetentionBound
<1>4. CASE UNCHANGED vars
  BY <1>4 DEF vars, IInv, TypeOK, RetainedWindow, RetentionBound
<1> QED
  BY <1>1, <1>2, <1>3, <1>4 DEF FrameRingNext

\* The inductive invariant of the log holds in every behaviour.
THEOREM IInvHolds == FrameRingSpec => []IInv
  BY InitEstablishesIInv, StepPreservesIInv, PTL DEF FrameRingSpec

\* The fields of the log keep their types, and what it retains is always a window at the
\* end of the history, without gap, repetition or renumbering, under any sequence of
\* appends, clears and reads (ring.ts, append, evict and clearRetained).
THEOREM WindowIsRetained == FrameRingSpec => []RingIsSound
<1>1. IInv => RingIsSound
  BY DEF IInv, RingIsSound
<1> QED
  BY <1>1, IInvHolds, PTL

\* No reader ever receives a partial delta, whatever cursor it sends (ring.ts,
\* readAfter).
THEOREM DeltasAreWhole == FrameRingSpec => []NoPartialDelta
<1>1. ASSUME IInv
      PROVE  NoPartialDelta
  <2> SUFFICES ASSUME NEW after \in Cursor, ReadAfter(ring, after).ok
               PROVE  /\ after \in 0 .. Len(log)
                      /\ ReadAfter(ring, after).frames = SuffixOf(log, after)
    BY DEF NoPartialDelta
  <2>1. ~ Refuses(ring, after)
    BY DEF ReadAfter
  <2>2. after \in Int
    BY MaxBseqAssumption DEF Cursor
  <2>3. after \in 0 .. Len(log) /\ FramesAfter(ring, after) = SuffixOf(log, after)
    BY <1>1, <2>1, <2>2, DeltaIsSuffix DEF IInv, TypeOK, RetainedWindow
  <2> QED
    BY <2>1, <2>3 DEF ReadAfter
<1> QED
  BY <1>1, IInvHolds, PTL

\* A reader is refused only when it asks for the future or lacks a frame that is
\* gone (ring.ts, readAfter).
THEOREM RefusalsHaveCause == FrameRingSpec => []RefusedOnlyForCause
<1>1. ASSUME IInv
      PROVE  RefusedOnlyForCause
  <2> SUFFICES ASSUME NEW after \in Cursor \cap Nat, ~ ReadAfter(ring, after).ok,
                      ~ (after > Len(log))
               PROVE  \E b \in after + 1 .. Len(log) :
                        \A i \in 1 .. Len(ring.entries) : ring.entries[i].bseq # b
    BY DEF RefusedOnlyForCause
  <2>1. /\ Len(log) \in Nat /\ Len(ring.entries) \in Nat /\ ring.evictedThrough \in Nat
        /\ ring.lastAssigned = Len(log)
        /\ ring.evictedThrough + Len(ring.entries) = Len(log)
        /\ \A i \in 1 .. Len(ring.entries) : ring.entries[i].bseq = ring.evictedThrough + i
    BY <1>1, LenProperties DEF IInv, TypeOK, IsRing, RetainedWindow, Retains
  <2>2. Refuses(ring, after)
    BY DEF ReadAfter
  <2>3. after < ring.evictedThrough
    BY <2>1, <2>2 DEF Refuses
  <2>4. after + 1 \in after + 1 .. Len(log)
    BY <2>1, <2>3
  <2>5. ASSUME NEW i \in 1 .. Len(ring.entries)
        PROVE  ring.entries[i].bseq # after + 1
    BY <2>1, <2>3
  <2> QED
    BY <2>4, <2>5
<1> QED
  BY <1>1, IInvHolds, PTL

\* Every answer of the log is whole, and every refusal has its cause (ring.ts, readAfter).
THEOREM AnswersAreExact == FrameRingSpec => []ReadsAreExact
<1>1. NoPartialDelta /\ RefusedOnlyForCause => ReadsAreExact
  BY DEF ReadsAreExact
<1> QED
  BY <1>1, DeltasAreWhole, RefusalsHaveCause, PTL

\* Neither budget is exceeded between calls, but for the bytes of a single frame, and the
\* running byte count that eviction relies on is the size of what is retained, for every
\* weighing of the frames (ring.ts, append and evict).
THEOREM BudgetsHold == FrameRingSpec => []RetentionBound
<1>1. IInv => RetentionBound
  BY DEF IInv
<1> QED
  BY <1>1, IInvHolds, PTL

-----------------------------------------------------------------------------
\* The empty log implements the empty history.
LEMMA InitImplements == FrameRingInit => Promised!ResumeLogInit
  BY DEF FrameRingInit, Promised!ResumeLogInit

\* Each step of the log is one of the promise, or none.
LEMMA StepImplements ==
  IInv /\ [FrameRingNext]_vars => [Promised!ResumeLogNext]_<<log, reply>>
<1> SUFFICES ASSUME IInv, [FrameRingNext]_vars
             PROVE  [Promised!ResumeLogNext]_<<log, reply>>
  OBVIOUS
<1>1. ASSUME NEW f \in Frame, AppendFrame(f)
      PROVE  Promised!Publish
  BY <1>1 DEF AppendFrame, Promised!Publish
<1>2. ASSUME Clear
      PROVE  UNCHANGED <<log, reply>>
  BY <1>2 DEF Clear
<1>3. ASSUME NEW after \in Cursor, Read(after)
      PROVE  Promised!Answer
  <2>1. after \in Int
    BY MaxBseqAssumption DEF Cursor
  <2>2. CASE Refuses(ring, after)
    BY <1>3, <2>2 DEF Read, ReadAfter, Promised!Answer
  <2>3. CASE ~ Refuses(ring, after)
    <3>1. after \in 0 .. Len(log) /\ FramesAfter(ring, after) = SuffixOf(log, after)
      BY <2>1, <2>3, DeltaIsSuffix DEF IInv, TypeOK, RetainedWindow
    <3>2. SuffixOf(log, after) = Promised!Suffix(after)
      BY DEF SuffixOf, Promised!Suffix
    <3>3. reply' = [kind |-> "delta", after |-> after, frames |-> Promised!Suffix(after)]
      BY <1>3, <2>3, <3>1, <3>2 DEF Read, ReadAfter
    <3> QED
      BY <1>3, <3>1, <3>3 DEF Read, Promised!Answer
  <2> QED
    BY <2>2, <2>3
<1>4. CASE UNCHANGED vars
  BY <1>4 DEF vars
<1> QED
  BY <1>1, <1>2, <1>3, <1>4 DEF FrameRingNext, Promised!ResumeLogNext

\* The bounded log implements the promise of an unbounded one that may refuse:
\* eviction and clearing are invisible but for refusals (ring.ts, header).
THEOREM Refinement == FrameRingSpec => ImplementsResumeLog
<1> QED
  BY IInvHolds, InitImplements, StepImplements, PTL
     DEF FrameRingSpec, ImplementsResumeLog, Promised!ResumeLogSpec

-----------------------------------------------------------------------------
\* The types of a socket.

Op     == {"text", "continuation", "ping", "pong", "close", "invalid"}
Framed == [op : Op, fin : BOOLEAN, part : Nat]
Half   == Framed \X {1, 2}
Ends   == [buffer : Seq(Half), fragments : Seq(Nat), closed : BOOLEAN, closeSent : BOOLEAN,
           attached : BOOLEAN, pongTimer : BOOLEAN]
Whole  == [op : {"text", "ping", "pong", "close"}, parts : Seq(Nat)]
State  == [fragments : Seq(Nat), messages : Seq(Whole), stop : {"no", "close", "failed"}]
Result == [end : Ends, out : Seq(Framed)]

\* A sequence of halves is what a sequence of frames is cut into.
LEMMA HalvesOf ==
  ASSUME NEW fs \in Seq(Framed)
  PROVE  /\ Halves(fs) \in Seq(Half) /\ Len(Halves(fs)) = 2 * Len(fs)
         /\ \A i \in 1 .. 2 * Len(fs) :
              (i + 1) \div 2 \in 1 .. Len(fs) /\ Halves(fs)[i][1] = fs[(i + 1) \div 2]
<1> DEFINE n == Len(fs)
<1>1. n \in Nat /\ 2 * n \in Nat
  BY LenProperties
<1>2. ASSUME NEW i \in 1 .. 2 * n
      PROVE  /\ (i + 1) \div 2 \in 1 .. n
             /\ fs[(i + 1) \div 2] \in Framed
             /\ 2 - (i % 2) \in {1, 2}
  <2>1. (i + 1) \div 2 \in 1 .. n /\ 2 - (i % 2) \in {1, 2}
    <3> HIDE DEF n
    <3> QED
      BY <1>1
  <2> QED
    BY <2>1, ElementOfSeq
<1>3. Halves(fs) = [i \in 1 .. 2 * n |-> <<fs[(i + 1) \div 2], 2 - (i % 2)>>]
  BY DEF Halves
<1> HIDE DEF n
<1>4. Halves(fs) \in [1 .. 2 * n -> Half]
  BY <1>2, <1>3 DEF Half
<1>5. Halves(fs) \in Seq(Half)
  BY <1>1, <1>4, SeqDef
<1>6. Len(Halves(fs)) = 2 * n
  BY <1>1, <1>4, <1>5, LenProperties
<1> QED
  BY <1>2, <1>3, <1>5, <1>6 DEF n

\* One frame keeps the decoder within its types.
LEMMA DecodeFrameTypes ==
  ASSUME NEW d \in State, NEW f \in Framed
  PROVE  DecodeFrame(d, f) \in State
<1>1. CASE d.stop # "no"
  BY <1>1 DEF DecodeFrame
<1>2. CASE d.stop = "no" /\ Refused(d, f)
  BY <1>2 DEF DecodeFrame, State
<1>3. CASE d.stop = "no" /\ ~ Refused(d, f)
  <2>1. DecodeFrame(d, f) = Decoded(d, f)
    BY <1>3 DEF DecodeFrame
  <2>2. d.messages \in Seq(Whole) /\ d.fragments \in Seq(Nat) /\ f.part \in Nat
    BY DEF State, Framed
  <2>3. CASE IsControl(f)
    <3>1. Decodes(f.op, <<>>) \in Whole
      BY <2>3, EmptySeq DEF IsControl, Decodes, Whole
    <3>2. Append(d.messages, Decodes(f.op, <<>>)) \in Seq(Whole)
      BY <2>2, <3>1, AppendProperties
    <3> QED
      BY <2>1, <2>3, <3>2 DEF Decoded, State
  <2>4. CASE ~ IsControl(f) /\ ~ f.fin
    <3>1. Append(d.fragments, f.part) \in Seq(Nat)
      BY <2>2, AppendProperties
    <3> QED
      BY <2>1, <2>4, <3>1 DEF Decoded, State
  <2>5. CASE ~ IsControl(f) /\ f.fin
    <3>1. Append(d.fragments, f.part) \in Seq(Nat) /\ <<>> \in Seq(Nat)
      BY <2>2, AppendProperties, EmptySeq
    <3>2. Decodes("text", Append(d.fragments, f.part)) \in Whole
      BY <3>1 DEF Decodes, Whole
    <3>3. Append(d.messages, Decodes("text", Append(d.fragments, f.part))) \in Seq(Whole)
      BY <2>2, <3>2, AppendProperties
    <3> QED
      BY <2>1, <2>5, <3>1, <3>3 DEF Decoded, State
  <2> QED
    BY <2>3, <2>4, <2>5
<1> QED
  BY <1>1, <1>2, <1>3

-----------------------------------------------------------------------------
\* What the decoder makes of frames.

Begins(F) == [fragments |-> F, messages |-> <<>>, stop |-> "no"]

\* t decodes the frames fs, one after the other, from the fragments F.
Decoding(t, F, fs) ==
  /\ t \in [0 .. Len(fs) -> State]
  /\ t[0] = Begins(F)
  /\ \A i \in 1 .. Len(fs) : t[i] = DecodeFrame(t[i - 1], fs[i])

\* A push decodes the whole frames of what is buffered.
LEMMA PushDecodes ==
  ASSUME NEW w \in Ends, NEW chunk \in Seq(Half)
  PROVE  LET buffer == w.buffer \o chunk
             fs     == WholeFrames(buffer)
         IN  /\ buffer \in Seq(Half) /\ Len(buffer) = Len(w.buffer) + Len(chunk)
             /\ fs \in Seq(Framed) /\ Len(fs) = Len(buffer) \div 2
             /\ \A i \in 1 .. Len(fs) :
                  2 * i \in 1 .. Len(buffer) /\ fs[i] = buffer[2 * i][1]
             /\ Push(w, chunk).buffer = Remainder(buffer) /\ Remainder(buffer) \in Seq(Half)
             /\ \E t : Decoding(t, w.fragments, fs) /\ Push(w, chunk).result = t[Len(fs)]
<1> DEFINE buffer == w.buffer \o chunk
           frames == WholeFrames(buffer)
           n == Len(frames)
           b == Begins(w.fragments)
           Run(a) == [i \in 0 .. n |->
                       IF i = 0 THEN b ELSE DecodeFrame(a[i - 1], frames[i])]
           after == CHOOSE a : a = Run(a)
           H == [z \in State \X (1 .. n) |-> DecodeFrame(z[1], frames[z[2]])]
<1>1. Push(w, chunk) = [buffer |-> Remainder(buffer), result |-> after[n]]
  BY DEF Push, Begins
<1>0. /\ buffer \in Seq(Half) /\ Len(buffer) \in Nat
      /\ Len(buffer) = Len(w.buffer) + Len(chunk)
  <2>1. w.buffer \in Seq(Half)
    BY DEF Ends
  <2>2. buffer \in Seq(Half) /\ Len(buffer) = Len(w.buffer) + Len(chunk)
    BY <2>1, ConcatProperties
  <2> HIDE DEF buffer
  <2> QED
    BY <2>2, LenProperties
<1>2. buffer \in Seq(Half) /\ Len(buffer) \in Nat
  BY <1>0
<1> HIDE DEF buffer
<1>3. Remainder(buffer) \in Seq(Half)
  <2> DEFINE m == 2 * (Len(buffer) \div 2) + 1
  <2>1. m \in Int /\ m >= 1
    BY <1>2
  <2> HIDE DEF m
  <2>2. ASSUME NEW i \in m .. Len(buffer)
        PROVE  buffer[i] \in Half
    <3>1. i \in 1 .. Len(buffer)
      BY <1>2, <2>1
    <3> QED
      BY <1>2, <3>1, ElementOfSeq
  <2>3. SubSeq(buffer, m, Len(buffer)) \in Seq(Half)
    BY <1>2, <2>1, <2>2, SubSeqProperties
  <2> QED
    BY <2>3 DEF Remainder, m
<1>4. /\ frames \in Seq(Framed) /\ n = Len(buffer) \div 2
      /\ \A i \in 1 .. n : 2 * i \in 1 .. Len(buffer) /\ frames[i] = buffer[2 * i][1]
  <2> DEFINE k == Len(buffer) \div 2
  <2>1. k \in Nat /\ \A i \in 1 .. k : 2 * i \in 1 .. Len(buffer)
    BY <1>2
  <2>2. ASSUME NEW i \in 1 .. k
        PROVE  buffer[2 * i][1] \in Framed
    <3>1. buffer[2 * i] \in Half
      BY <1>2, <2>1, ElementOfSeq
    <3> QED
      BY <3>1 DEF Half
  <2>3. frames = [i \in 1 .. k |-> buffer[2 * i][1]]
    BY DEF WholeFrames
  <2> HIDE DEF k, frames
  <2>4. frames \in [1 .. k -> Framed]
    BY <2>2, <2>3
  <2>5. frames \in Seq(Framed)
    BY <2>1, <2>4, SeqDef
  <2>6. n = k
    BY <2>1, <2>4, <2>5, LenProperties
  <2> QED
    BY <2>1, <2>3, <2>5, <2>6 DEF k
<1>5. n \in Nat /\ \A i \in 1 .. n : frames[i] \in Framed
  <2> HIDE DEF frames
  <2> QED
    BY <1>4, LenProperties, ElementOfSeq
<1> HIDE DEF n, frames
<1>6. b \in State
  BY EmptySeq DEF Ends, State, Begins
<1>7. H \in [State \X (1 .. n) -> State]
  BY <1>5, DecodeFrameTypes
<1>8. PICK g : Stages(g, n, State, b, H)
  <2> HIDE DEF b, H
  <2> QED
    BY <1>5, <1>6, <1>7, StagesExist
<1> HIDE DEF b
<1>9. g = Run(g)
  <2>1. /\ g \in [0 .. n -> State] /\ g[0] = b
        /\ \A i \in 1 .. n : g[i] = H[<<g[i - 1], i>>]
    BY <1>8 DEF Stages
  <2>2. ASSUME NEW i \in 1 .. n
        PROVE  g[i] = DecodeFrame(g[i - 1], frames[i])
    <3>1. i - 1 \in 0 .. n
      BY <1>5
    <3>2. <<g[i - 1], i>> \in State \X (1 .. n)
      BY <2>1, <3>1
    <3> QED
      BY <2>1, <3>2
  <2> QED
    BY <1>5, <2>1, <2>2
<1>10. after = Run(after)
  <2> HIDE DEF Run
  <2> QED
    BY <1>9
<1> HIDE DEF after
<1>11. /\ after[0] = b /\ \A i \in 1 .. n : after[i] = DecodeFrame(after[i - 1], frames[i])
       /\ after = [i \in 0 .. n |-> after[i]]
  <2>1. after[0] = b /\ \A i \in 1 .. n : after[i] = DecodeFrame(after[i - 1], frames[i])
    BY <1>5, <1>10
  <2>2. after = [i \in 0 .. n |-> after[i]]
    <3> DEFINE G(i) == IF i = 0 THEN b ELSE DecodeFrame(after[i - 1], frames[i])
    <3>1. after = [i \in 0 .. n |-> G(i)]
      BY <1>10
    <3> HIDE DEF G
    <3> QED
      BY <3>1
  <2> QED
    BY <2>1, <2>2
<1>12. \A i \in 0 .. n : after[i] \in State
  <2> DEFINE S == {i \in 0 .. n : after[i] \in State}
  <2>1. 0 \in S
    BY <1>5, <1>6, <1>11
  <2>2. ASSUME NEW i \in 0 .. n - 1, i \in S
        PROVE  i + 1 \in S
    <3>1. i + 1 \in 1 .. n /\ (i + 1) - 1 = i
      BY <1>5
    <3>2. after[i + 1] = DecodeFrame(after[i], frames[i + 1])
      BY <1>11, <3>1
    <3> QED
      BY <1>5, <2>2, <3>1, <3>2, DecodeFrameTypes
  <2>3. \A i \in 0 .. n : i \in S
    <3> HIDE DEF S
    <3> QED
      BY <1>5, <2>1, <2>2, CountingUp
  <2> QED
    BY <2>3
<1>13. Decoding(after, w.fragments, frames)
  <2>1. after \in [0 .. n -> State]
    BY <1>11, <1>12
  <2> QED
    BY <1>11, <2>1 DEF Decoding, n, b
<1>14. Push(w, chunk).buffer = Remainder(buffer) /\ Push(w, chunk).result = after[n]
  BY <1>1
<1> QED
  BY <1>0, <1>3, <1>4, <1>13, <1>14 DEF buffer, frames, n

LEMMA PushTypes ==
  ASSUME NEW w \in Ends, NEW chunk \in Seq(Half)
  PROVE  Push(w, chunk).buffer \in Seq(Half) /\ Push(w, chunk).result \in State
<1> DEFINE fs == WholeFrames(w.buffer \o chunk)
<1>1. /\ fs \in Seq(Framed) /\ Push(w, chunk).buffer \in Seq(Half)
      /\ \E t : Decoding(t, w.fragments, fs) /\ Push(w, chunk).result = t[Len(fs)]
  BY PushDecodes
<1> HIDE DEF fs
<1>2. Len(fs) \in Nat
  BY <1>1, LenProperties
<1> QED
  BY <1>1, <1>2 DEF Decoding

-----------------------------------------------------------------------------
\* What a method makes of the end w.

\* A close is the last frame written, and whoever has written one is closed.
ClosesLast(r) ==
  \A i \in 1 .. Len(r.out) : r.out[i].op = "close" => i = Len(r.out) /\ r.end.closeSent

\* The result of a method: its user stays attached, a closed end stays closed.
Heeds(w, r) ==
  /\ r \in Result
  /\ r.end.attached = w.attached
  /\ w.closed => r.end.closed
  /\ r.end.closeSent => r.end.closed
  /\ ClosesLast(r)

\* A frame that is not a close, said before the close.
LEMMA SaysMore ==
  ASSUME NEW w, NEW r, Heeds(w, r), ~ r.end.closeSent, NEW x \in Ends, NEW op \in Op,
         x.attached = r.end.attached, r.end.closed => x.closed, x.closeSent => x.closed,
         op = "close" => x.closeSent
  PROVE  Heeds(w, Does(x, r.out \o <<Control(op)>>))
<1> DEFINE f == Control(op)
           q == r.out \o <<f>>
<1>1. f \in Framed /\ f.op = op
  BY DEF Control, EncodeFrame, Framed
<1>2. r.out \in Seq(Framed) /\ Len(r.out) \in Nat
  BY LenProperties DEF Heeds, Result
<1>3. <<f>> \in Seq(Framed) /\ Len(<<f>>) = 1 /\ <<f>>[1] = f
  <2> HIDE DEF f
  <2> QED
    BY <1>1
<1> HIDE DEF f
<1>4. /\ q \in Seq(Framed) /\ Len(q) = Len(r.out) + 1
      /\ \A i \in 1 .. Len(r.out) : q[i] = r.out[i]
      /\ q[Len(r.out) + 1] = f
  <2>1. /\ q \in Seq(Framed) /\ Len(q) = Len(r.out) + 1
        /\ \A i \in 1 .. Len(r.out) + 1 :
             q[i] = IF i <= Len(r.out) THEN r.out[i] ELSE <<f>>[i - Len(r.out)]
    BY <1>2, <1>3, ConcatProperties
  <2> HIDE DEF q
  <2> QED
    BY <1>2, <1>3, <2>1
<1> HIDE DEF q
<1>5. Does(x, q) \in Result /\ Does(x, q).end = x /\ Does(x, q).out = q
  BY <1>4 DEF Does, Result
<1>6. ClosesLast(Does(x, q))
  <2> SUFFICES ASSUME NEW i \in 1 .. Len(q), q[i].op = "close"
               PROVE  i = Len(q) /\ x.closeSent
    BY <1>5 DEF ClosesLast
  <2>1. CASE i \in 1 .. Len(r.out)
    <3>1. r.out[i].op = "close"
      BY <1>4, <2>1
    <3> QED
      BY <2>1, <3>1 DEF Heeds, ClosesLast
  <2>2. CASE i = Len(r.out) + 1
    BY <1>1, <1>4, <2>2
  <2> QED
    BY <1>2, <1>4, <2>1, <2>2
<1> QED
  BY <1>5, <1>6 DEF Heeds, q, f

\* A method that says nothing more.
LEMMA SaysNothing ==
  ASSUME NEW w, NEW r, Heeds(w, r), NEW x \in Ends,
         x.attached = r.end.attached, r.end.closed => x.closed, x.closeSent => x.closed,
         x.closeSent = r.end.closeSent
  PROVE  /\ Heeds(w, Does(x, r.out)) /\ Heeds(w, Does(x, r.out \o <<>>))
<1>1. r.out \in Seq(Framed) /\ r.out \o <<>> = r.out
  BY ConcatEmptySeq DEF Heeds, Result
<1>2. Does(x, r.out) \in Result /\ Does(x, r.out).end = x /\ Does(x, r.out).out = r.out
  BY <1>1 DEF Does, Result
<1>3. ClosesLast(Does(x, r.out))
  BY <1>2 DEF Heeds, ClosesLast
<1> QED
  BY <1>1, <1>2, <1>3 DEF Heeds

\* close: once, and with the close frame at the end of what was written.
LEMMA ClosingHeeds ==
  ASSUME NEW w, NEW r, Heeds(w, r)
  PROVE  Heeds(w, Does(Closing(r.end).end, r.out \o Closing(r.end).out))
<1> DEFINE x == [Teardown(r.end) EXCEPT !.closeSent = TRUE]
<1>1. r.end \in Ends /\ (r.end.closeSent => r.end.closed)
  BY DEF Heeds, Result
<1>2. CASE r.end.closeSent
  <2>1. Closing(r.end).end = r.end /\ Closing(r.end).out = <<>>
    BY <1>2 DEF Closing, Does
  <2> QED
    BY <1>1, <2>1, SaysNothing
<1>3. CASE ~ r.end.closeSent
  <2>1. Closing(r.end).end = x /\ Closing(r.end).out = <<Control("close")>>
    BY <1>3 DEF Closing, Does
  <2>2. x \in Ends /\ x.closed /\ x.closeSent /\ x.attached = r.end.attached
    BY <1>1 DEF Ends, Teardown
  <2>3. "close" \in Op
    BY DEF Op
  <2> HIDE DEF x
  <2> QED
    BY <1>3, <2>1, <2>2, <2>3, SaysMore
<1> QED
  BY <1>1, <1>2, <1>3 DEF Ends

\* One decoded message: pongs are answers to pings only before the close.
LEMMA MessageHeeds ==
  ASSUME NEW w, NEW r, Heeds(w, r), NEW m \in Whole
  PROVE  Heeds(w, OnDecoded(r, m))
<1>1. r.end \in Ends /\ (r.end.closeSent => r.end.closed) /\ r.end.closeSent \in BOOLEAN
  BY DEF Heeds, Result, Ends
<1>2. CASE m.op = "ping"
  <2>1. OnDecoded(r, m) = Does(r.end, r.out \o PongFor(r.end))
    BY <1>2 DEF OnDecoded
  <2>2. CASE r.end.closeSent
    BY <1>1, <2>1, <2>2, SaysNothing DEF PongFor
  <2>3. CASE ~ r.end.closeSent
    <3>1. "pong" \in Op /\ PongFor(r.end) = <<Control("pong")>>
      BY <2>3 DEF Op, PongFor
    <3> QED
      BY <1>1, <2>1, <2>3, <3>1, SaysMore
  <2> QED
    BY <2>2, <2>3
<1>3. CASE m.op = "pong"
  <2> DEFINE x == [r.end EXCEPT !.pongTimer = FALSE]
  <2>1. OnDecoded(r, m) = Does(x, r.out)
    BY <1>3 DEF OnDecoded
  <2>2. /\ x \in Ends /\ x.closed = r.end.closed /\ x.closeSent = r.end.closeSent
        /\ x.attached = r.end.attached
    BY <1>1 DEF Ends
  <2> HIDE DEF x
  <2> QED
    BY <1>1, <2>1, <2>2, SaysNothing
<1>4. CASE m.op = "close"
  <2>1. OnDecoded(r, m) = Does(Closing(r.end).end, r.out \o Closing(r.end).out)
    BY <1>4 DEF OnDecoded
  <2> QED
    BY <2>1, ClosingHeeds
<1>5. CASE m.op = "text"
  BY <1>5 DEF OnDecoded
<1> QED
  BY <1>2, <1>3, <1>4, <1>5 DEF Whole

\* Having said nothing yet.
LEMMA StartHeeds ==
  ASSUME NEW w \in Ends, w.closeSent => w.closed
  PROVE  Heeds(w, Does(w, <<>>))
<1>1. <<>> \in Seq(Framed) /\ Len(<<>>) = 0
  BY EmptySeq
<1>2. Does(w, <<>>) \in Result /\ Does(w, <<>>).end = w /\ Does(w, <<>>).out = <<>>
  BY <1>1 DEF Does, Result
<1> QED
  BY <1>1, <1>2 DEF Heeds, ClosesLast

\* A method that handles what was decoded leaves the decoder alone, and says control
\* frames only.
Answers(w, r) ==
  /\ r.end.buffer = w.buffer /\ r.end.fragments = w.fragments
  /\ \A i \in 1 .. Len(r.out) : IsControl(r.out[i])

LEMMA OneControlMore ==
  ASSUME NEW out \in Seq(Framed), \A i \in 1 .. Len(out) : IsControl(out[i]),
         NEW op \in {"ping", "pong", "close"}
  PROVE  \A i \in 1 .. Len(out \o <<Control(op)>>) : IsControl((out \o <<Control(op)>>)[i])
<1> DEFINE f == Control(op)
           q == out \o <<f>>
<1>1. f \in Framed /\ IsControl(f)
  BY DEF Control, EncodeFrame, Framed, Op, IsControl
<1> HIDE DEF f
<1>2. <<f>> \in Seq(Framed) /\ Len(<<f>>) = 1 /\ <<f>>[1] = f /\ Len(out) \in Nat
  BY <1>1, LenProperties
<1>3. /\ Len(q) = Len(out) + 1
      /\ \A i \in 1 .. Len(out) + 1 :
           q[i] = IF i <= Len(out) THEN out[i] ELSE <<f>>[i - Len(out)]
  BY <1>2, ConcatProperties
<1> HIDE DEF q
<1>4. ASSUME NEW i \in 1 .. Len(q)
      PROVE  IsControl(q[i])
  <2>1. CASE i \in 1 .. Len(out)
    BY <1>2, <1>3, <2>1
  <2>2. CASE i = Len(out) + 1
    BY <1>1, <1>2, <1>3, <2>2
  <2> QED
    BY <1>2, <1>3, <2>1, <2>2
<1> QED
  BY <1>4 DEF f, q

LEMMA ClosingAnswers ==
  ASSUME NEW w, NEW r, Heeds(w, r), Answers(w, r)
  PROVE  /\ Answers(w, Does(Closing(r.end).end, r.out \o Closing(r.end).out))
         /\ Closing(r.end).end.closed
<1>1. /\ r.end \in Ends /\ (r.end.closeSent => r.end.closed) /\ r.out \in Seq(Framed)
      /\ r.end.closeSent \in BOOLEAN
  BY DEF Heeds, Result, Ends
<1>2. CASE r.end.closeSent
  <2>1. Closing(r.end).end = r.end /\ Closing(r.end).out = <<>> /\ r.out \o <<>> = r.out
    BY <1>1, <1>2, ConcatEmptySeq DEF Closing, Does
  <2> QED
    BY <1>1, <1>2, <2>1 DEF Answers, Does
<1>3. CASE ~ r.end.closeSent
  <2> DEFINE x == [Teardown(r.end) EXCEPT !.closeSent = TRUE]
             q == r.out \o <<Control("close")>>
  <2>1. Closing(r.end).end = x /\ Closing(r.end).out = <<Control("close")>>
    BY <1>3 DEF Closing, Does
  <2>2. x.closed /\ x.buffer = r.end.buffer /\ x.fragments = r.end.fragments
    BY <1>1 DEF Ends, Teardown
  <2>3. \A i \in 1 .. Len(q) : IsControl(q[i])
    BY <1>1, OneControlMore DEF Answers
  <2> HIDE DEF x, q
  <2>4. Answers(w, Does(x, q))
    BY <2>2, <2>3 DEF Answers, Does
  <2> QED
    BY <2>1, <2>2, <2>4 DEF q
<1> QED
  BY <1>1, <1>2, <1>3

LEMMA MessageAnswers ==
  ASSUME NEW w, NEW r, Heeds(w, r), Answers(w, r), NEW m \in Whole
  PROVE  /\ Answers(w, OnDecoded(r, m))
         /\ m.op = "close" \/ r.end.closed => OnDecoded(r, m).end.closed
<1>1. r.end \in Ends /\ r.out \in Seq(Framed) /\ r.out \o <<>> = r.out
  BY ConcatEmptySeq DEF Heeds, Result
<1>2. CASE m.op = "ping"
  <2> DEFINE q == r.out \o PongFor(r.end)
  <2>1. OnDecoded(r, m) = Does(r.end, q)
    BY <1>2 DEF OnDecoded
  <2>2. \A i \in 1 .. Len(q) : IsControl(q[i])
    BY <1>1, OneControlMore DEF Answers, PongFor
  <2> HIDE DEF q
  <2>3. OnDecoded(r, m).end = r.end /\ OnDecoded(r, m).out = q
    BY <2>1 DEF Does
  <2> QED
    BY <1>2, <2>2, <2>3 DEF Answers
<1>3. CASE m.op = "pong"
  <2> DEFINE x == [r.end EXCEPT !.pongTimer = FALSE]
  <2>1. OnDecoded(r, m) = Does(x, r.out)
    BY <1>3 DEF OnDecoded
  <2>2. x.closed = r.end.closed /\ x.buffer = r.end.buffer /\ x.fragments = r.end.fragments
    BY <1>1 DEF Ends
  <2> HIDE DEF x
  <2>3. OnDecoded(r, m).end = x /\ OnDecoded(r, m).out = r.out
    BY <2>1 DEF Does
  <2> QED
    BY <1>3, <2>2, <2>3 DEF Answers
<1>4. CASE m.op = "close"
  <2>1. OnDecoded(r, m) = Does(Closing(r.end).end, r.out \o Closing(r.end).out)
    BY <1>4 DEF OnDecoded
  <2>2. OnDecoded(r, m).end = Closing(r.end).end
    BY <2>1 DEF Does
  <2> QED
    BY <2>1, <2>2, ClosingAnswers
<1>5. CASE m.op = "text"
  BY <1>5 DEF OnDecoded
<1> QED
  BY <1>2, <1>3, <1>4, <1>5 DEF Whole

\* The messages of a push, one after another, one of which its user may refuse
\* (onData of either class). A close among them closes the end.
LEMMA MessagesHeed ==
  ASSUME NEW w \in Ends, w.closeSent => w.closed, NEW ms \in Seq(Whole), NEW at
  PROVE  /\ Heeds(w, OnMessages(w, ms, at)) /\ Answers(w, OnMessages(w, ms, at))
         /\ (\E i \in 1 .. Len(ms) : ms[i].op = "close") => OnMessages(w, ms, at).end.closed
<1> DEFINE n == Len(ms)
           b == Does(w, <<>>)
           Handle(r, i) ==
             LET h == OnDecoded(r, ms[i])
             IN  IF i = at THEN LET c == Closing(h.end) IN Does(c.end, h.out \o c.out)
                 ELSE h
           Run(a) == [i \in 0 .. n |-> IF i = 0 THEN b ELSE Handle(a[i - 1], i)]
           after == CHOOSE a : a = Run(a)
           Good == {r \in Result : Heeds(w, r) /\ Answers(w, r)}
           H == [z \in Good \X (1 .. n) |-> Handle(z[1], z[2])]
<1>1. OnMessages(w, ms, at) = after[n]
  BY DEF OnMessages
<1>2. n \in Nat /\ \A i \in 1 .. n : ms[i] \in Whole
  BY LenProperties, ElementOfSeq
<1>3. \A r \in Good, i \in 1 .. n :
        /\ Handle(r, i) \in Good
        /\ ms[i].op = "close" \/ r.end.closed => Handle(r, i).end.closed
  <2> SUFFICES ASSUME NEW r \in Good, NEW i \in 1 .. n
               PROVE  /\ Handle(r, i) \in Good
                      /\ ms[i].op = "close" \/ r.end.closed => Handle(r, i).end.closed
    OBVIOUS
  <2> DEFINE h == OnDecoded(r, ms[i])
             c == Does(Closing(h.end).end, h.out \o Closing(h.end).out)
  <2>1. Heeds(w, h) /\ Answers(w, h) /\ (ms[i].op = "close" \/ r.end.closed => h.end.closed)
    BY <1>2, MessageHeeds, MessageAnswers
  <2>2. Handle(r, i) = IF i = at THEN c ELSE h
    OBVIOUS
  <2> HIDE DEF h
  <2>3. Heeds(w, c) /\ Answers(w, c) /\ c.end.closed
    BY <2>1, ClosingHeeds, ClosingAnswers DEF Does
  <2> HIDE DEF Handle, c
  <2>4. Heeds(w, Handle(r, i)) /\ Answers(w, Handle(r, i))
    BY <2>1, <2>2, <2>3
  <2> QED
    BY <2>1, <2>2, <2>3, <2>4 DEF Heeds
<1> HIDE DEF n, Handle
<1>4. b \in Good
  <2>1. b.end = w /\ b.out = <<>> /\ Len(<<>>) = 0
    BY EmptySeq DEF Does
  <2>2. Answers(w, b)
    BY <2>1 DEF Answers
  <2> QED
    BY <2>2, StartHeeds DEF Heeds
<1> HIDE DEF b, Good
<1>5. H \in [Good \X (1 .. n) -> Good]
  BY <1>3
<1>6. PICK g : Stages(g, n, Good, b, H)
  <2> HIDE DEF H
  <2> QED
    BY <1>2, <1>4, <1>5, StagesExist
<1>7. g = Run(g)
  <2>1. /\ g \in [0 .. n -> Good] /\ g[0] = b
        /\ \A i \in 1 .. n : g[i] = H[<<g[i - 1], i>>]
    BY <1>6 DEF Stages
  <2>2. ASSUME NEW i \in 1 .. n
        PROVE  g[i] = Handle(g[i - 1], i)
    <3>1. i - 1 \in 0 .. n
      BY <1>2
    <3>2. <<g[i - 1], i>> \in Good \X (1 .. n)
      BY <2>1, <3>1
    <3> QED
      BY <2>1, <3>2
  <2> QED
    BY <1>2, <2>1, <2>2
<1>8. after = Run(after)
  <2> HIDE DEF Run
  <2> QED
    BY <1>7
<1> HIDE DEF after
<1>9. /\ after[n] \in Good
      /\ (\E j \in 1 .. n : ms[j].op = "close") => after[n].end.closed
  <2> DEFINE Closes(i) == (\E j \in 1 .. i : ms[j].op = "close") => after[i].end.closed
             S == {i \in 0 .. n : after[i] \in Good /\ Closes(i)}
  <2>1. after[0] = b /\ \A i \in 1 .. n : after[i] = Handle(after[i - 1], i)
    BY <1>2, <1>8
  <2>2. 0 \in S
    BY <1>2, <1>4, <2>1
  <2>3. ASSUME NEW i \in 0 .. n - 1, i \in S
        PROVE  i + 1 \in S
    <3>1. i + 1 \in 1 .. n /\ i + 1 \in 0 .. n /\ (i + 1) - 1 = i
      BY <1>2
    <3>2. after[i + 1] = Handle(after[i], i + 1)
      BY <2>1, <3>1
    <3>3. after[i + 1] \in Good
      BY <1>3, <2>3, <3>1, <3>2
    <3>4. Closes(i + 1)
      <4>1. ASSUME NEW j \in 1 .. i + 1, ms[j].op = "close"
            PROVE  after[i + 1].end.closed
        <5>1. CASE j \in 1 .. i
          <6>1. after[i].end.closed /\ after[i] \in Good
            BY <2>3, <4>1, <5>1
          <6> QED
            BY <1>3, <3>1, <3>2, <6>1
        <5>2. CASE j = i + 1
          BY <1>3, <2>3, <3>1, <3>2, <4>1, <5>2
        <5> QED
          BY <1>2, <5>1, <5>2
      <4> QED
        BY <4>1
    <3> HIDE DEF Closes
    <3> QED
      BY <3>1, <3>3, <3>4
  <2>4. \A i \in 0 .. n : i \in S
    <3> HIDE DEF S
    <3> QED
      BY <1>2, <2>2, <2>3, CountingUp
  <2> QED
    BY <1>2, <2>4
<1> QED
  BY <1>1, <1>9 DEF Good, n

-----------------------------------------------------------------------------
\* The inductive invariant.

WsTypes ==
  /\ end \in [End -> Ends] /\ wire \in [End -> Seq(Half)]
  /\ sent \in [End -> Seq(Seq(Nat))] /\ notices \in [End -> Nat]

\* Whoever has said its close is closed, and a close on its way was said by the sender:
\* a sender that may still write has none on its way.
ClosesAsSaid == \A e \in End : end[e].closeSent => end[e].closed
CloseWasSaid ==
  \A e \in End : \A i \in 1 .. Len(wire[e]) :
    wire[e][i][1].op = "close" => end[Other(e)].closeSent

WsInv == WsTypes /\ ClosesAsSaid /\ CloseWasSaid /\ ClosedIsToldOnce /\ NothingAfterClose

LEMMA TwoEnds ==
  ASSUME NEW e \in End
  PROVE  Other(e) \in End /\ Other(e) # e /\ Other(Other(e)) = e
BY DEF End, Other

LEMMA SettledKeeps ==
  ASSUME NEW w \in Ends
  PROVE  /\ Settled(w) \in Ends /\ Settled(w).closed = w.closed
         /\ Settled(w).closeSent = w.closeSent /\ Settled(w).attached = w.attached
<1>1. <<>> \in Seq(Half) /\ <<>> \in Seq(Nat)
  BY EmptySeq
<1> QED
  BY <1>1 DEF Settled, Ends

\* The user of an end is told when the end closes, and not again (teardown).
LEMMA TellsOnce ==
  ASSUME WsTypes, ClosedIsToldOnce, NEW e \in End, NEW w \in Ends,
         w.attached = end[e].attached, end[e].closed => w.closed,
         end' = [end EXCEPT ![e] = Settled(w)], Tells(e, w)
  PROVE  /\ end' \in [End -> Ends] /\ notices' \in [End -> Nat]
         /\ end'[e].closed = w.closed /\ end'[e].closeSent = w.closeSent
         /\ \A o \in End : o # e => end'[o] = end[o]
         /\ ClosedIsToldOnce'
<1>1. /\ Settled(w) \in Ends /\ Settled(w).closed = w.closed
      /\ Settled(w).closeSent = w.closeSent /\ Settled(w).attached = w.attached
  BY SettledKeeps
<1>2. end \in [End -> Ends] /\ notices \in [End -> Nat]
  BY DEF WsTypes
<1>3. /\ end' \in [End -> Ends] /\ end'[e] = Settled(w)
      /\ \A o \in End : o # e => end'[o] = end[o]
  BY <1>1, <1>2
<1>4. /\ notices' \in [End -> Nat]
      /\ notices'[e] = IF w.attached /\ w.closed /\ ~ end[e].closed
                       THEN notices[e] + 1 ELSE notices[e]
      /\ \A o \in End : o # e => notices'[o] = notices[o]
  BY <1>2 DEF Tells
<1>5. ClosedIsToldOnce'
  <2> SUFFICES ASSUME NEW o \in End
               PROVE  notices'[o] = IF end'[o].attached /\ end'[o].closed THEN 1 ELSE 0
    BY DEF ClosedIsToldOnce
  <2>1. notices[o] = IF end[o].attached /\ end[o].closed THEN 1 ELSE 0
    BY DEF ClosedIsToldOnce
  <2>2. CASE o # e
    BY <1>3, <1>4, <2>1, <2>2
  <2>3. CASE o = e
    <3>1. /\ w.attached \in BOOLEAN /\ w.closed \in BOOLEAN
          /\ end[e].attached \in BOOLEAN /\ end[e].closed \in BOOLEAN
      BY <1>2 DEF Ends
    <3>2. end'[o].attached = w.attached /\ end'[o].closed = w.closed
      BY <1>1, <1>3, <2>3
    <3> QED
      BY <1>2, <1>4, <2>1, <2>3, <3>1, <3>2
  <2> QED
    BY <2>2, <2>3
<1> QED
  BY <1>1, <1>3, <1>4, <1>5

\* What a live end writes goes behind all that it wrote before, and what it has read is
\* gone from the front.
LEMMA CommitKeepsInv ==
  ASSUME WsInv, NEW e \in End, NEW n \in 0 .. Len(wire[e]), NEW r, Heeds(end[e], r),
         ~ end[e].closeSent, Commits(e, n, r), sent' \in [End -> Seq(Seq(Nat))]
  PROVE  WsInv'
<1> DEFINE o == Other(e)
           w == r.end
           q == Halves(r.out)
           k == Len(wire[o])
<1>1. /\ end \in [End -> Ends] /\ wire \in [End -> Seq(Half)]
      /\ o \in End /\ o # e /\ Other(o) = e /\ \A d \in End : d = e \/ d = o
  BY TwoEnds DEF WsInv, WsTypes, End, Other
<1>2. /\ w \in Ends /\ w.attached = end[e].attached /\ (end[e].closed => w.closed)
      /\ (w.closeSent => w.closed) /\ r.out \in Seq(Framed) /\ ClosesLast(r)
  BY DEF Heeds, Result
<1>3. /\ end' \in [End -> Ends] /\ notices' \in [End -> Nat]
      /\ end'[e].closed = w.closed /\ end'[e].closeSent = w.closeSent
      /\ end'[o] = end[o]
      /\ ClosedIsToldOnce'
  <2>1. end' = [end EXCEPT ![e] = Settled(w)] /\ Tells(e, w)
    BY DEF Commits
  <2> HIDE DEF o, w
  <2> QED
    BY <1>1, <1>2, <2>1, TellsOnce DEF WsInv
<1>4. /\ q \in Seq(Half) /\ Len(q) = 2 * Len(r.out) /\ Len(r.out) \in Nat
      /\ \A i \in 1 .. 2 * Len(r.out) :
           (i + 1) \div 2 \in 1 .. Len(r.out) /\ q[i][1] = r.out[(i + 1) \div 2]
  BY <1>2, HalvesOf, LenProperties
<1>5. /\ wire' = [wire EXCEPT ![e] = IF w.closed THEN <<>> ELSE SubSeq(@, n + 1, Len(@)),
                              ![o] = IF Carried(e) THEN @ \o q ELSE @]
  BY DEF Commits
<1> HIDE DEF o, w, q
<1>6. /\ wire'[e] = IF w.closed THEN <<>> ELSE SubSeq(wire[e], n + 1, Len(wire[e]))
      /\ wire'[o] = IF Carried(e) THEN wire[o] \o q ELSE wire[o]
      /\ DOMAIN wire' = End /\ wire' = [d \in End |-> wire'[d]]
  BY <1>1, <1>5
<1>7. Len(wire[e]) \in Nat /\ k \in Nat /\ wire[e] \in Seq(Half) /\ wire[o] \in Seq(Half)
  BY <1>1, LenProperties
<1> HIDE DEF k
<1>8. /\ wire'[e] \in Seq(Half)
      /\ \/ wire'[e] = <<>>
         \/ /\ Len(wire'[e]) = Len(wire[e]) - n
            /\ \A i \in 1 .. Len(wire'[e]) : wire'[e][i] = wire[e][n + i]
  <2>1. CASE w.closed
    BY <1>6, <2>1, EmptySeq
  <2>2. CASE ~ w.closed
    <3>1. ASSUME NEW i \in n + 1 .. Len(wire[e])
          PROVE  wire[e][i] \in Half
      <4>1. i \in 1 .. Len(wire[e])
        BY <1>7
      <4> QED
        BY <1>7, <4>1, ElementOfSeq
    <3> DEFINE u == SubSeq(wire[e], n + 1, Len(wire[e]))
    <3>2. /\ u \in Seq(Half)
          /\ Len(u) = IF n + 1 <= Len(wire[e]) THEN Len(wire[e]) - (n + 1) + 1 ELSE 0
          /\ \A i \in 1 .. Len(wire[e]) - (n + 1) + 1 : u[i] = wire[e][n + 1 + i - 1]
      <4>1. n + 1 \in Int /\ Len(wire[e]) \in Int
        BY <1>7
      <4> QED
        BY <3>1, <4>1, SubSeqProperties
    <3>3. wire'[e] = u
      BY <1>6, <2>2
    <3> HIDE DEF u
    <3>4. Len(u) = Len(wire[e]) - n
      BY <1>7, <3>2
    <3>5. ASSUME NEW i \in 1 .. Len(u)
          PROVE  u[i] = wire[e][n + i]
      <4>1. i \in 1 .. Len(wire[e]) - (n + 1) + 1 /\ n + 1 + i - 1 = n + i
        BY <1>7, <3>4
      <4> QED
        BY <3>2, <4>1
    <3> QED
      BY <3>2, <3>3, <3>4, <3>5
  <2> QED
    BY <2>1, <2>2
<1>9. /\ wire'[o] \in Seq(Half)
      /\ \/ wire'[o] = wire[o]
         \/ /\ Len(wire'[o]) = k + Len(q)
            /\ \A i \in 1 .. k : wire'[o][i] = wire[o][i]
            /\ \A i \in k + 1 .. k + Len(q) : wire'[o][i] = q[i - k]
  <2>1. /\ wire[o] \o q \in Seq(Half) /\ Len(wire[o] \o q) = k + Len(q)
        /\ \A i \in 1 .. k + Len(q) :
             (wire[o] \o q)[i] = IF i <= k THEN wire[o][i] ELSE q[i - k]
    BY <1>4, <1>7, ConcatProperties DEF k
  <2> DEFINE u == wire[o] \o q
  <2>2. wire'[o] = u \/ wire'[o] = wire[o]
    BY <1>6
  <2> HIDE DEF u
  <2>3. /\ u \in Seq(Half) /\ Len(u) = k + Len(q)
        /\ \A i \in 1 .. k + Len(q) : u[i] = IF i <= k THEN wire[o][i] ELSE q[i - k]
    BY <2>1 DEF u
  <2>4. Len(q) \in Nat
    BY <1>4
  <2>5. /\ \A i \in 1 .. k : u[i] = wire[o][i]
        /\ \A i \in k + 1 .. k + Len(q) : u[i] = q[i - k]
    BY <1>7, <2>3, <2>4
  <2> QED
    BY <1>7, <2>2, <2>3, <2>5
<1>10. WsTypes'
  BY <1>1, <1>3, <1>6, <1>8, <1>9 DEF WsTypes
<1>11. ClosesAsSaid'
  BY <1>1, <1>2, <1>3 DEF ClosesAsSaid, WsInv
\* Nothing the end wrote before was a close.
<1>12. \A i \in 1 .. k : wire[o][i][1].op # "close"
  BY <1>1 DEF WsInv, CloseWasSaid, k
<1>13. ASSUME NEW i \in 1 .. Len(wire'[e]), wire'[e][i][1].op = "close"
       PROVE  end[o].closeSent /\ i >= Len(wire'[e]) - 1
  <2>1. wire'[e] # <<>>
    BY <1>13, EmptySeq
  <2>2. n + i \in 1 .. Len(wire[e]) /\ wire'[e][i] = wire[e][n + i]
        /\ Len(wire'[e]) = Len(wire[e]) - n
    BY <1>7, <1>8, <2>1
  <2>3. end[Other(e)].closeSent
    BY <1>13, <2>2 DEF WsInv, CloseWasSaid
  <2>4. n + i >= Len(wire[e]) - 1
    BY <1>7, <1>13, <2>2, LenProperties DEF WsInv, NothingAfterClose
  <2> QED
    BY <1>7, <2>2, <2>3, <2>4 DEF o
<1>14. ASSUME NEW i \in 1 .. Len(wire'[o]), wire'[o][i][1].op = "close"
       PROVE  w.closeSent /\ i >= Len(wire'[o]) - 1
  <2>1. wire'[o] # wire[o]
    BY <1>12, <1>14 DEF k
  <2>2. Len(wire'[o]) = k + Len(q) /\ i \in k + 1 .. k + Len(q) /\ wire'[o][i] = q[i - k]
    <3>1. /\ Len(wire'[o]) = k + Len(q)
          /\ \A d \in 1 .. k : wire'[o][d] = wire[o][d]
          /\ \A d \in k + 1 .. k + Len(q) : wire'[o][d] = q[d - k]
      BY <1>9, <2>1
    <3>2. i \notin 1 .. k
      BY <1>12, <1>14, <3>1
    <3>3. i \in 1 .. k + Len(q)
      BY <3>1
    <3>4. Len(q) \in Nat
      BY <1>4
    <3>5. i \in k + 1 .. k + Len(q)
      BY <1>7, <3>2, <3>3, <3>4
    <3> QED
      BY <3>1, <3>5
  <2> DEFINE j == i - k
  <2>3. j \in 1 .. 2 * Len(r.out) /\ i = k + j
    <3>1. Len(q) = 2 * Len(r.out) /\ Len(r.out) \in Nat
      BY <1>4
    <3> QED
      BY <1>7, <2>2, <3>1
  <2>4. q[j][1].op = "close"
    BY <1>14, <2>2
  <2> HIDE DEF j
  <2>5. (j + 1) \div 2 \in 1 .. Len(r.out) /\ r.out[(j + 1) \div 2].op = "close"
    BY <1>4, <2>3, <2>4
  <2>6. (j + 1) \div 2 = Len(r.out) /\ w.closeSent
    BY <1>2, <2>5 DEF ClosesLast, w
  <2>7. j >= 2 * Len(r.out) - 1
    BY <1>4, <2>3, <2>6
  <2> QED
    BY <1>4, <1>7, <2>2, <2>3, <2>6, <2>7
<1>15. CloseWasSaid'
  <2> SUFFICES ASSUME NEW d \in End, NEW i \in 1 .. Len(wire'[d]),
                      wire'[d][i][1].op = "close"
               PROVE  end'[Other(d)].closeSent
    BY DEF CloseWasSaid
  <2>1. CASE d = e
    BY <1>3, <1>13, <2>1 DEF o
  <2>2. CASE d = o
    BY <1>1, <1>3, <1>14, <2>2
  <2> QED
    BY <1>1, <2>1, <2>2
<1>16. NothingAfterClose'
  <2> SUFFICES ASSUME NEW d \in End, NEW i \in DOMAIN wire'[d], wire'[d][i][1].op = "close"
               PROVE  i >= Len(wire'[d]) - 1
    BY DEF NothingAfterClose
  <2>1. wire'[d] \in Seq(Half)
    BY <1>10 DEF WsTypes
  <2>2. i \in 1 .. Len(wire'[d])
    BY <2>1, LenProperties
  <2> QED
    BY <1>1, <1>13, <1>14, <2>2
<1> QED
  BY <1>3, <1>10, <1>11, <1>15, <1>16 DEF WsInv

\* A destroyed socket takes what it had not read with it; what it said stays on its way.
LEMMA LossKeepsInv ==
  ASSUME WsInv, NEW e \in End, NEW w \in Ends, w.attached = end[e].attached, w.closed,
         end[e].closeSent => w.closeSent, Loses(e, w)
  PROVE  WsInv'
<1>1. end \in [End -> Ends] /\ wire \in [End -> Seq(Half)]
  BY DEF WsInv, WsTypes
<1>2. /\ end' \in [End -> Ends] /\ notices' \in [End -> Nat]
      /\ end'[e].closed = w.closed /\ end'[e].closeSent = w.closeSent
      /\ \A o \in End : o # e => end'[o] = end[o]
      /\ ClosedIsToldOnce'
  BY TellsOnce DEF Loses, WsInv
<1>3. wire' = [wire EXCEPT ![e] = <<>>] /\ sent' = sent
  BY DEF Loses
<1>4. /\ wire' \in [End -> Seq(Half)] /\ wire'[e] = <<>> /\ Len(wire'[e]) = 0
      /\ \A o \in End : o # e => wire'[o] = wire[o]
  BY <1>1, <1>3, EmptySeq
<1>5. WsTypes'
  BY <1>2, <1>3, <1>4 DEF WsTypes, WsInv
<1>6. ClosesAsSaid'
  BY <1>2 DEF ClosesAsSaid, WsInv
<1>7. \A o \in End : end[o].closeSent => end'[o].closeSent
  BY <1>2
<1>8. CloseWasSaid'
  <2> SUFFICES ASSUME NEW d \in End, NEW i \in 1 .. Len(wire'[d]),
                      wire'[d][i][1].op = "close"
               PROVE  end'[Other(d)].closeSent
    BY DEF CloseWasSaid
  <2>1. wire'[d] = wire[d]
    BY <1>4
  <2>2. end[Other(d)].closeSent
    BY <2>1 DEF WsInv, CloseWasSaid
  <2> QED
    BY <1>7, <2>2, TwoEnds
<1>9. NothingAfterClose'
  <2> SUFFICES ASSUME NEW d \in End, NEW i \in DOMAIN wire'[d], wire'[d][i][1].op = "close"
               PROVE  i >= Len(wire'[d]) - 1
    BY DEF NothingAfterClose
  <2>1. i \in 1 .. Len(wire'[d])
    BY <1>4, LenProperties
  <2>2. wire'[d] = wire[d]
    BY <1>4, <2>1
  <2> QED
    BY <2>2 DEF WsInv, NothingAfterClose
<1> QED
  BY <1>2, <1>5, <1>6, <1>8, <1>9 DEF WsInv

\* Frames none of which is a close.
LEMMA SpeakingHeeds ==
  ASSUME NEW w \in Ends, w.closeSent => w.closed, NEW x \in Ends,
         x.attached = w.attached, x.closed = w.closed, x.closeSent = w.closeSent,
         NEW fs \in Seq(Framed), \A i \in 1 .. Len(fs) : fs[i].op # "close"
  PROVE  Heeds(w, Does(x, fs))
<1>1. Does(x, fs) \in Result /\ Does(x, fs).end = x /\ Does(x, fs).out = fs
  BY DEF Does, Result
<1> QED
  BY <1>1 DEF Heeds, ClosesLast

\* A single frame.
LEMMA OneFrame ==
  ASSUME NEW f \in Framed, f.op # "close"
  PROVE  <<f>> \in Seq(Framed) /\ \A i \in 1 .. Len(<<f>>) : <<f>>[i].op # "close"
OBVIOUS

\* A message of n payloads in fragments.
LEMMA FragmentsAre ==
  ASSUME NEW n \in Nat \ {0}, NEW part \in Nat
  PROVE  LET fs == Fragments(n, part)
         IN  /\ fs \in Seq(Framed) /\ Len(fs) = n + 1
             /\ fs[1] = EncodeFrame("text", FALSE, part) /\ fs[2] = Control("ping")
             /\ \A j \in 1 .. n - 1 :
                  fs[j + 2] = EncodeFrame("continuation", j = n - 1, part)
<1> DEFINE a == EncodeFrame("text", FALSE, part)
           b == Control("ping")
           s == <<a, b>>
           t == [i \in 1 .. n - 1 |-> EncodeFrame("continuation", i = n - 1, part)]
<1>1. a \in Framed /\ b \in Framed
  BY DEF EncodeFrame, Control, Framed, Op
<1> HIDE DEF a, b
<1>2. s \in Seq(Framed) /\ Len(s) = 2 /\ s[1] = a /\ s[2] = b
  BY <1>1
<1>3. n - 1 \in Nat /\ t \in [1 .. n - 1 -> Framed]
  BY DEF EncodeFrame, Framed, Op
<1>4. \A i \in 1 .. n - 1 : t[i] = EncodeFrame("continuation", i = n - 1, part)
  OBVIOUS
<1>5. Fragments(n, part) = s \o t
  BY DEF Fragments, a, b
<1> HIDE DEF s, t
<1>6. t \in Seq(Framed) /\ Len(t) = n - 1
  <2>1. t \in Seq(Framed)
    BY <1>3, SeqDef
  <2> QED
    BY <1>3, <2>1, LenProperties
<1> DEFINE u == s \o t
<1>7. /\ u \in Seq(Framed) /\ Len(u) = n + 1
      /\ \A i \in 1 .. n + 1 : u[i] = IF i <= 2 THEN s[i] ELSE t[i - 2]
  <2>1. /\ u \in Seq(Framed) /\ Len(u) = Len(s) + Len(t)
        /\ \A i \in 1 .. Len(s) + Len(t) :
             u[i] = IF i <= Len(s) THEN s[i] ELSE t[i - Len(s)]
    BY <1>2, <1>6, ConcatProperties
  <2>2. Len(s) + Len(t) = n + 1
    BY <1>2, <1>6
  <2> HIDE DEF u
  <2> QED
    BY <1>2, <2>1, <2>2
<1> HIDE DEF u
<1>8. u[1] = a /\ u[2] = b
  BY <1>2, <1>7
<1>9. ASSUME NEW j \in 1 .. n - 1
      PROVE  u[j + 2] = EncodeFrame("continuation", j = n - 1, part)
  <2>1. j + 2 \in 1 .. n + 1 /\ ~ j + 2 <= 2 /\ (j + 2) - 2 = j
    OBVIOUS
  <2>2. u[j + 2] = t[j]
    BY <1>7, <2>1
  <2> QED
    BY <1>4, <2>2
<1> QED
  BY <1>5, <1>7, <1>8, <1>9 DEF u, a, b

\* What a peer that fragments or breaks the protocol writes holds no close.
LEMMA PeerFrames ==
  /\ \A part \in Nat : Text(part) \in Framed /\ Text(part).op = "text"
  /\ Control("ping") \in Framed /\ Control("ping").op = "ping"
  /\ \A n \in Nat \ {0}, part \in Nat :
       /\ Fragments(n, part) \in Seq(Framed)
       /\ \A i \in 1 .. Len(Fragments(n, part)) : Fragments(n, part)[i].op # "close"
  /\ \A fs \in Invalid : fs \in Seq(Framed) /\ \A i \in 1 .. Len(fs) : fs[i].op # "close"
<1>1. \A part \in Nat : Text(part) \in Framed /\ Text(part).op = "text"
  BY DEF Text, EncodeFrame, Framed, Op
<1>2. Control("ping") \in Framed /\ Control("ping").op = "ping"
  BY DEF Control, EncodeFrame, Framed, Op
<1>3. ASSUME NEW n \in Nat \ {0}, NEW part \in Nat
      PROVE  /\ Fragments(n, part) \in Seq(Framed)
             /\ \A i \in 1 .. Len(Fragments(n, part)) : Fragments(n, part)[i].op # "close"
  <2> DEFINE fs == Fragments(n, part)
  <2>1. /\ fs \in Seq(Framed) /\ Len(fs) = n + 1
        /\ fs[1].op = "text" /\ fs[2].op = "ping"
        /\ \A j \in 1 .. n - 1 : fs[j + 2].op = "continuation"
    <3>1. /\ fs \in Seq(Framed) /\ Len(fs) = n + 1
          /\ fs[1] = EncodeFrame("text", FALSE, part) /\ fs[2] = Control("ping")
          /\ \A j \in 1 .. n - 1 :
               fs[j + 2] = EncodeFrame("continuation", j = n - 1, part)
      BY FragmentsAre
    <3>2. \A op, fin : EncodeFrame(op, fin, part).op = op
      BY DEF EncodeFrame
    <3> HIDE DEF fs
    <3> QED
      BY <1>2, <3>1, <3>2
  <2> HIDE DEF fs
  <2>2. ASSUME NEW i \in 1 .. n + 1
        PROVE  fs[i].op # "close"
    <3>1. CASE i = 1 \/ i = 2
      BY <2>1, <3>1
    <3>2. CASE i > 2
      <4>1. i - 2 \in 1 .. n - 1 /\ (i - 2) + 2 = i
        BY <3>2
      <4> QED
        BY <2>1, <4>1
    <3> QED
      BY <3>1, <3>2
  <2> QED
    BY <2>1, <2>2 DEF fs
<1>4. ASSUME NEW fs \in Invalid
      PROVE  fs \in Seq(Framed) /\ \A i \in 1 .. Len(fs) : fs[i].op # "close"
  <2> DEFINE a == Control("invalid")
             b == EncodeFrame("continuation", TRUE, 0)
             c == EncodeFrame("text", FALSE, 0)
             d == Text(0)
  <2>1. /\ a \in Framed /\ b \in Framed /\ c \in Framed /\ d \in Framed
        /\ a.op # "close" /\ b.op # "close" /\ c.op # "close" /\ d.op # "close"
    BY DEF Control, EncodeFrame, Text, Framed, Op
  <2>2. fs = <<a>> \/ fs = <<b>> \/ fs = <<c, d>>
    BY DEF Invalid
  <2> HIDE DEF a, b, c, d
  <2>3. CASE fs = <<a>>
    BY <2>1, <2>3, OneFrame
  <2>4. CASE fs = <<b>>
    BY <2>1, <2>4, OneFrame
  <2>5. CASE fs = <<c, d>>
    BY <2>1, <2>5
  <2> QED
    BY <2>2, <2>3, <2>4, <2>5
<1> QED
  BY <1>1, <1>2, <1>3, <1>4

-----------------------------------------------------------------------------
\* The steps.

LEMMA InitMeetsWsInv == WsInit => WsInv
<1> SUFFICES ASSUME WsInit
             PROVE  WsInv
  OBVIOUS
<1>1. <<>> \in Seq(Half) /\ <<>> \in Seq(Nat) /\ <<>> \in Seq(Seq(Nat)) /\ Len(<<>>) = 0
  BY EmptySeq
<1>2. fresh \in Ends /\ ~ fresh.closed /\ ~ fresh.closeSent
  BY <1>1 DEF fresh, Ends
<1>3. \A e \in End : end[e] = fresh /\ wire[e] = <<>> /\ notices[e] = 0
  BY DEF WsInit
<1>4. WsTypes
  BY <1>1, <1>2 DEF WsInit, WsTypes
<1>5. ClosesAsSaid /\ CloseWasSaid /\ ClosedIsToldOnce /\ NothingAfterClose
  BY <1>1, <1>2, <1>3
     DEF ClosesAsSaid, CloseWasSaid, ClosedIsToldOnce, NothingAfterClose
<1> QED
  BY <1>4, <1>5 DEF WsInv

\* setSinks, which makes up for a close that came before.
LEMMA SetSinksKeepsWsInv ==
  ASSUME WsInv, NEW e \in End, SetSinks(e)
  PROVE  WsInv'
<1>1. end \in [End -> Ends] /\ notices \in [End -> Nat]
  BY DEF WsInv, WsTypes
<1>2. /\ end' = [end EXCEPT ![e].attached = TRUE] /\ ~ end[e].attached
      /\ wire' = wire /\ sent' = sent
      /\ notices' = [notices EXCEPT ![e] = IF end[e].closed THEN @ + 1 ELSE @]
  BY DEF SetSinks
<1>3. /\ end' \in [End -> Ends] /\ end'[e].attached /\ end'[e].closed = end[e].closed
      /\ end'[e].closeSent = end[e].closeSent
      /\ \A o \in End : o # e => end'[o] = end[o]
  BY <1>1, <1>2 DEF Ends
<1>4. /\ notices' \in [End -> Nat]
      /\ notices'[e] = IF end[e].closed THEN notices[e] + 1 ELSE notices[e]
      /\ \A o \in End : o # e => notices'[o] = notices[o]
  BY <1>1, <1>2
<1>5. WsTypes'
  BY <1>2, <1>3, <1>4 DEF WsInv, WsTypes
<1>6. ClosesAsSaid'
  BY <1>3 DEF WsInv, ClosesAsSaid
<1>7. CloseWasSaid'
  <2>1. \A o \in End : end'[o].closeSent = end[o].closeSent
    BY <1>3
  <2> QED
    BY <1>2, <2>1, TwoEnds DEF WsInv, CloseWasSaid
<1>8. NothingAfterClose'
  BY <1>2 DEF WsInv, NothingAfterClose
<1>9. ClosedIsToldOnce'
  <2> SUFFICES ASSUME NEW o \in End
               PROVE  notices'[o] = IF end'[o].attached /\ end'[o].closed THEN 1 ELSE 0
    BY DEF ClosedIsToldOnce
  <2>1. notices[o] = IF end[o].attached /\ end[o].closed THEN 1 ELSE 0
    BY DEF WsInv, ClosedIsToldOnce
  <2>2. CASE o # e
    BY <1>3, <1>4, <2>1, <2>2
  <2>3. CASE o = e
    BY <1>2, <1>3, <1>4, <2>1, <2>3
  <2> QED
    BY <2>2, <2>3
<1> QED
  BY <1>5, <1>6, <1>7, <1>8, <1>9 DEF WsInv

\* An end that is not closed writes frames of which none is a close.
LEMMA SpeakingKeepsWsInv ==
  ASSUME WsInv, NEW e \in End, ~ end[e].closed, NEW x \in Ends,
         x.attached = end[e].attached, x.closed = end[e].closed,
         x.closeSent = end[e].closeSent,
         NEW fs \in Seq(Framed), \A i \in 1 .. Len(fs) : fs[i].op # "close",
         Commits(e, 0, Does(x, fs)), sent' \in [End -> Seq(Seq(Nat))]
  PROVE  WsInv'
<1>1. /\ end[e] \in Ends /\ (end[e].closeSent => end[e].closed)
      /\ wire[e] \in Seq(Half)
  BY DEF WsInv, WsTypes, ClosesAsSaid
<1>2. 0 \in 0 .. Len(wire[e])
  BY <1>1, LenProperties
<1>3. Heeds(end[e], Does(x, fs))
  BY <1>1, SpeakingHeeds
<1> QED
  BY <1>1, <1>2, <1>3, CommitKeepsInv

\* send, of either end.
LEMMA SendKeepsWsInv ==
  ASSUME WsInv, NEW e \in End, Send(e)
  PROVE  WsInv'
<1> DEFINE part == NextText(e)
           f == Text(part)
<1>1. end[e] \in Ends /\ sent \in [End -> Seq(Seq(Nat))]
  BY DEF WsInv, WsTypes
<1>2. part \in Nat
  BY <1>1, LenProperties DEF NextText
<1>3. f \in Framed /\ f.op # "close"
  BY <1>2, PeerFrames
<1>4. /\ ~ end[e].closed /\ Commits(e, 0, Does(end[e], <<f>>))
      /\ sent' = [sent EXCEPT ![e] = Append(@, <<part>>)]
  BY DEF Send, MaySend
<1> HIDE DEF part, f
<1>5. sent' \in [End -> Seq(Seq(Nat))]
  <2>1. <<part>> \in Seq(Nat)
    BY <1>2
  <2>2. Append(sent[e], <<part>>) \in Seq(Seq(Nat))
    BY <1>1, <2>1, AppendProperties
  <2> QED
    BY <1>1, <1>4, <2>2
<1>6. <<f>> \in Seq(Framed) /\ \A i \in 1 .. Len(<<f>>) : <<f>>[i].op # "close"
  BY <1>3, OneFrame
<1> DEFINE fs == <<f>>
<1> HIDE DEF fs
<1> QED
  BY <1>1, <1>4, <1>5, <1>6, SpeakingKeepsWsInv DEF fs

\* A message of a phone in fragments.
LEMMA FragmentsKeepWsInv ==
  ASSUME WsInv, NEW n \in 2 .. MaxMessageParts + 1, SendFragmented(n)
  PROVE  WsInv'
<1> DEFINE e == "client"
           part == NextText(e)
           fs == Fragments(n, part)
<1>1. e \in End /\ n \in Nat \ {0}
  BY WebSocketAssumption DEF End
<1>2. end[e] \in Ends /\ sent \in [End -> Seq(Seq(Nat))]
  BY <1>1 DEF WsInv, WsTypes
<1>3. part \in Nat
  BY <1>1, <1>2, LenProperties DEF NextText
<1>4. /\ ~ end[e].closed /\ Commits(e, 0, Does(end[e], fs))
      /\ sent' = [sent EXCEPT ![e] = Append(@, [i \in 1..n |-> part])]
  BY DEF SendFragmented, MaySend
<1>5. fs \in Seq(Framed) /\ \A i \in 1 .. Len(fs) : fs[i].op # "close"
  BY <1>1, <1>3, PeerFrames
<1> HIDE DEF part, fs, e
<1>6. sent' \in [End -> Seq(Seq(Nat))]
  <2> DEFINE m == [i \in 1..n |-> part]
  <2>1. m \in Seq(Nat)
    <3>1. m \in [1..n -> Nat]
      BY <1>3
    <3> HIDE DEF m
    <3> QED
      BY <1>1, <3>1, SeqDef
  <2> HIDE DEF m
  <2>2. Append(sent[e], m) \in Seq(Seq(Nat))
    BY <1>1, <1>2, <2>1, AppendProperties
  <2>3. sent' = [sent EXCEPT ![e] = Append(@, m)]
    BY <1>4 DEF m
  <2> QED
    BY <1>1, <1>2, <2>2, <2>3
<1> QED
  BY <1>1, <1>2, <1>4, <1>5, <1>6, SpeakingKeepsWsInv

\* A phone that breaks the protocol.
LEMMA InvalidKeepsWsInv ==
  ASSUME WsInv, NEW fs \in Invalid, SendInvalid(fs)
  PROVE  WsInv'
<1>1. "client" \in End
  BY DEF End
<1>2. end["client"] \in Ends /\ sent \in [End -> Seq(Seq(Nat))]
  BY <1>1 DEF WsInv, WsTypes
<1>3. /\ ~ end["client"].closed /\ Commits("client", 0, Does(end["client"], fs))
      /\ sent' = sent
  BY DEF SendInvalid
<1>4. fs \in Seq(Framed) /\ \A i \in 1 .. Len(fs) : fs[i].op # "close"
  BY PeerFrames
<1> QED
  BY <1>1, <1>2, <1>3, <1>4, SpeakingKeepsWsInv

\* The ping of the server end.
LEMMA KeepAliveKeepsWsInv ==
  ASSUME WsInv, KeepAlive
  PROVE  WsInv'
<1> DEFINE w == end["server"]
           x == [w EXCEPT !.pongTimer = TRUE]
           f == Control("ping")
           fs == <<f>>
<1>1. "server" \in End
  BY DEF End
<1>2. w \in Ends /\ sent \in [End -> Seq(Seq(Nat))]
  BY <1>1 DEF WsInv, WsTypes
<1>3. /\ ~ w.closed /\ Commits("server", 0, Does(x, fs))
      /\ sent' = sent
  BY DEF KeepAlive, MayPing
<1>4. fs \in Seq(Framed) /\ \A i \in 1 .. Len(fs) : fs[i].op # "close"
  <2>1. f \in Framed /\ f.op # "close"
    BY PeerFrames
  <2> HIDE DEF f
  <2> QED
    BY <2>1, OneFrame
<1>5. /\ x \in Ends /\ x.attached = w.attached /\ x.closed = w.closed
      /\ x.closeSent = w.closeSent
  BY <1>2 DEF Ends
<1> HIDE DEF x, fs
<1> QED
  BY <1>1, <1>2, <1>3, <1>4, <1>5, SpeakingKeepsWsInv

\* close.
LEMMA CloseKeepsWsInv ==
  ASSUME WsInv, NEW e \in End, Close(e)
  PROVE  WsInv'
<1> DEFINE c == Closing(end[e])
           r == Does(end[e], <<>>)
<1>1. /\ end[e] \in Ends /\ (end[e].closeSent => end[e].closed)
      /\ wire[e] \in Seq(Half) /\ sent \in [End -> Seq(Seq(Nat))]
  BY DEF WsInv, WsTypes, ClosesAsSaid
<1>2. ~ end[e].closeSent /\ Commits(e, 0, c) /\ sent' = sent
  BY DEF Close
<1>3. Heeds(end[e], r) /\ r.end = end[e] /\ r.out = <<>>
  BY <1>1, StartHeeds DEF Does
<1> HIDE DEF r
<1>4. Heeds(end[e], Does(c.end, <<>> \o c.out))
  BY <1>3, ClosingHeeds
<1>5. Does(c.end, <<>> \o c.out) = c
  <2>1. c = Does([Teardown(end[e]) EXCEPT !.closeSent = TRUE], <<Control("close")>>)
    BY <1>2 DEF Closing
  <2>2. <<Control("close")>> \in Seq({Control("close")})
    OBVIOUS
  <2>3. <<>> \o <<Control("close")>> = <<Control("close")>>
    BY <2>2, ConcatEmptySeq
  <2> QED
    BY <2>1, <2>3 DEF Does
<1>6. 0 \in 0 .. Len(wire[e])
  BY <1>1, LenProperties
<1> HIDE DEF c
<1> QED
  BY <1>1, <1>2, <1>4, <1>5, <1>6, CommitKeepsInv

\* destroy, the pong timer, and a socket that errs or closes.
LEMMA LossesKeepWsInv ==
  ASSUME WsInv, NEW e \in End, Destroy(e) \/ SocketCloses(e)
  PROVE  WsInv'
<1> DEFINE t == Teardown(end[e])
           d == [t EXCEPT !.closeSent = TRUE]
<1>1. end[e] \in Ends
  BY DEF WsInv, WsTypes
<1>2. /\ t \in Ends /\ t.attached = end[e].attached /\ t.closed
      /\ t.closeSent = end[e].closeSent
  BY <1>1 DEF Teardown, Ends
<1> HIDE DEF t
<1>3. d \in Ends /\ d.attached = end[e].attached /\ d.closed /\ d.closeSent
  BY <1>2 DEF Ends
<1>4. Loses(e, d) \/ Loses(e, t)
  BY DEF Destroy, SocketCloses, t
<1> HIDE DEF d
<1> QED
  BY <1>2, <1>3, <1>4, LossKeepsInv

\* onData, whatever of the bytes has come (onData of either class).
LEMMA OnDataKeepsWsInv ==
  ASSUME WsInv, NEW e \in End, NEW n \in ReadSizes(e), OnData(e, n)
  PROVE  WsInv'
<1> DEFINE chunk == SubSeq(wire[e], 1, n)
           pushed == Push(end[e], chunk)
           w == [end[e] EXCEPT !.buffer = pushed.buffer,
                               !.fragments = pushed.result.fragments]
<1>1. /\ end[e] \in Ends /\ (end[e].closeSent => end[e].closed)
      /\ wire[e] \in Seq(Half) /\ sent \in [End -> Seq(Seq(Nat))]
  BY DEF WsInv, WsTypes, ClosesAsSaid
<1>2. n \in 1 .. Len(wire[e]) /\ Len(wire[e]) \in Nat
  BY <1>1, LenProperties DEF ReadSizes
<1>3. chunk \in Seq(Half)
  <2>1. ASSUME NEW i \in 1 .. n
        PROVE  wire[e][i] \in Half
    <3>1. i \in 1 .. Len(wire[e])
      BY <1>2
    <3> QED
      BY <1>1, <3>1, ElementOfSeq
  <2>2. 1 \in Int /\ n \in Int
    BY <1>2
  <2> QED
    BY <2>1, <2>2, SubSeqProperties
<1> HIDE DEF chunk
<1>4. pushed.buffer \in Seq(Half) /\ pushed.result \in State
  BY <1>1, <1>3, PushTypes
<1>5. /\ ~ end[e].closed /\ sent' = sent
      /\ \/ Commits(e, n, Closing(w))
         \/ \E at : Commits(e, n, OnMessages(w, pushed.result.messages, at))
  BY DEF OnData, chunk
<1> HIDE DEF pushed
<1>6. /\ w \in Ends /\ w.attached = end[e].attached /\ w.closed = end[e].closed
      /\ w.closeSent = end[e].closeSent
  BY <1>1, <1>4 DEF Ends, State
<1> HIDE DEF w
<1>7. \A r : Heeds(w, r) => Heeds(end[e], r)
  BY <1>6 DEF Heeds
<1>8. ~ end[e].closeSent /\ n \in 0 .. Len(wire[e])
  BY <1>1, <1>2, <1>5
<1>9. CASE Commits(e, n, Closing(w))
  <2> DEFINE c == Closing(w)
             r == Does(w, <<>>)
  <2>1. Heeds(w, r) /\ r.end = w /\ r.out = <<>>
    BY <1>1, <1>6, StartHeeds DEF Does
  <2> HIDE DEF r
  <2>2. Heeds(w, Does(c.end, <<>> \o c.out))
    BY <2>1, ClosingHeeds
  <2>3. Does(c.end, <<>> \o c.out) = c
    <3>1. c = Does([Teardown(w) EXCEPT !.closeSent = TRUE], <<Control("close")>>)
      BY <1>6, <1>8 DEF Closing
    <3>2. <<Control("close")>> \in Seq({Control("close")})
      OBVIOUS
    <3>3. <<>> \o <<Control("close")>> = <<Control("close")>>
      BY <3>2, ConcatEmptySeq
    <3> QED
      BY <3>1, <3>3 DEF Does
  <2> HIDE DEF c
  <2>4. Heeds(end[e], c)
    BY <1>7, <2>2, <2>3
  <2>5. Commits(e, n, c)
    BY <1>9 DEF c
  <2> QED
    BY <1>1, <1>5, <1>8, <2>4, <2>5, CommitKeepsInv
<1>10. ASSUME NEW at, Commits(e, n, OnMessages(w, pushed.result.messages, at))
       PROVE  WsInv'
  <2>1. pushed.result.messages \in Seq(Whole)
    BY <1>4 DEF State
  <2>2. Heeds(w, OnMessages(w, pushed.result.messages, at))
    BY <1>1, <1>6, <2>1, MessagesHeed
  <2> QED
    BY <1>1, <1>5, <1>7, <1>8, <1>10, <2>2, CommitKeepsInv
<1> QED
  BY <1>5, <1>9, <1>10

\* A silent network forgets what was on its way.
LEMMA VanishKeepsWsInv ==
  ASSUME WsInv, Vanish
  PROVE  WsInv'
<1>1. <<>> \in Seq(Half) /\ Len(<<>>) = 0
  BY EmptySeq
<1>2. /\ wire' \in [End -> Seq(Half)] /\ \A e \in End : wire'[e] = <<>>
      /\ end' = end /\ sent' = sent /\ notices' = notices
  BY <1>1 DEF Vanish
<1>3. WsTypes' /\ ClosesAsSaid' /\ ClosedIsToldOnce'
  BY <1>2 DEF WsInv, WsTypes, ClosesAsSaid, ClosedIsToldOnce
<1>4. CloseWasSaid' /\ NothingAfterClose'
  BY <1>1, <1>2 DEF CloseWasSaid, NothingAfterClose
<1> QED
  BY <1>3, <1>4 DEF WsInv

LEMMA StepPreservesWsInv == WsInv /\ [WsNext]_wsVars => WsInv'
<1> SUFFICES ASSUME WsInv, [WsNext]_wsVars
             PROVE  WsInv'
  OBVIOUS
<1>1. ASSUME NEW e \in End, SetSinks(e) \/ Send(e) \/ Close(e)
      PROVE  WsInv'
  BY <1>1, SetSinksKeepsWsInv, SendKeepsWsInv, CloseKeepsWsInv
<1>2. ASSUME NEW e \in End, Destroy(e) \/ SocketCloses(e)
      PROVE  WsInv'
  BY <1>2, LossesKeepWsInv
<1>3. ASSUME NEW e \in End, NEW n \in ReadSizes(e), OnData(e, n)
      PROVE  WsInv'
  BY <1>3, OnDataKeepsWsInv
<1>4. ASSUME NEW n \in 2 .. MaxMessageParts + 1, SendFragmented(n)
      PROVE  WsInv'
  BY <1>4, FragmentsKeepWsInv
<1>5. ASSUME NEW fs \in Invalid, SendInvalid(fs)
      PROVE  WsInv'
  BY <1>5, InvalidKeepsWsInv
<1>6. ASSUME PongTimeout
      PROVE  WsInv'
  <2>1. "server" \in End /\ Destroy("server")
    BY <1>6 DEF PongTimeout, End
  <2> QED
    BY <2>1, LossesKeepWsInv
<1>7. CASE UNCHANGED wsVars
  BY <1>7 DEF wsVars, WsInv, WsTypes, ClosesAsSaid, CloseWasSaid, ClosedIsToldOnce,
              NothingAfterClose
<1> QED
  BY <1>1, <1>2, <1>3, <1>4, <1>5, <1>6, <1>7, KeepAliveKeepsWsInv, VanishKeepsWsInv
     DEF WsNext

\* The inductive invariant of the socket holds in every behaviour.
THEOREM WsInvHolds == WsSpec => []WsInv
  BY InitMeetsWsInv, StepPreservesWsInv, PTL DEF WsSpec

\* Whichever of the ways to close come, in any order and number, the user of an end is told
\* once, and a close frame is the last thing an end says: neither a pong nor a message that
\* the same read still calls for follows it (websocket.ts, close, destroy, teardown,
\* setSinks and onData of both classes).
THEOREM ClosesForGood == WsSpec => []CloseIsFinal
<1>1. WsInv => CloseIsFinal
  BY DEF WsInv, CloseIsFinal
<1> QED
  BY <1>1, WsInvHolds, PTL

-----------------------------------------------------------------------------
\* What of the decoded messages the user of an end is handed.

\* t takes the texts of ms, one message after the other.
Taken(t, ms) ==
  /\ t \in [0 .. Len(ms) -> Seq(Seq(Nat))]
  /\ t[0] = <<>>
  /\ \A i \in 1 .. Len(ms) : t[i] = Taking(t[i - 1], ms[i])

LEMMA TakingTypes ==
  ASSUME NEW s \in Seq(Seq(Nat)), NEW m \in Whole
  PROVE  Taking(s, m) \in Seq(Seq(Nat))
<1>1. m.parts \in Seq(Nat)
  BY DEF Whole
<1>2. Append(s, m.parts) \in Seq(Seq(Nat))
  BY <1>1, AppendProperties
<1> QED
  BY <1>2 DEF Taking

LEMMA TextsTaken ==
  ASSUME NEW ms \in Seq(Whole)
  PROVE  \E t : Taken(t, ms) /\ Texts(ms) = t[Len(ms)]
<1> DEFINE n == Len(ms)
           X == Seq(Seq(Nat))
           Run(a) == [i \in 0 .. n |->
                       IF i = 0 THEN <<>> ELSE Taking(a[i - 1], ms[i])]
           texts == CHOOSE a : a = Run(a)
           H == [z \in X \X (1 .. n) |-> Taking(z[1], ms[z[2]])]
<1>1. Texts(ms) = texts[n]
  BY DEF Texts
<1>2. n \in Nat /\ \A i \in 1 .. n : ms[i] \in Whole
  BY LenProperties, ElementOfSeq
<1> HIDE DEF n
<1>3. <<>> \in X
  BY EmptySeq
<1>4. H \in [X \X (1 .. n) -> X]
  <2> SUFFICES ASSUME NEW z \in X \X (1 .. n)
               PROVE  Taking(z[1], ms[z[2]]) \in X
    OBVIOUS
  <2>1. z[1] \in X /\ ms[z[2]] \in Whole
    BY <1>2
  <2> QED
    BY <2>1, TakingTypes
<1> HIDE DEF X
<1>5. PICK g : Stages(g, n, X, <<>>, H)
  <2> HIDE DEF H
  <2> QED
    BY <1>2, <1>3, <1>4, StagesExist
<1>6. /\ g \in [0 .. n -> X] /\ g[0] = <<>>
      /\ \A i \in 1 .. n : g[i] = Taking(g[i - 1], ms[i])
  <2>1. /\ g \in [0 .. n -> X] /\ g[0] = <<>>
        /\ \A i \in 1 .. n : g[i] = H[<<g[i - 1], i>>]
    BY <1>5 DEF Stages
  <2>2. ASSUME NEW i \in 1 .. n
        PROVE  g[i] = Taking(g[i - 1], ms[i])
    <3>1. i - 1 \in 0 .. n
      BY <1>2
    <3>2. <<g[i - 1], i>> \in X \X (1 .. n)
      BY <2>1, <3>1
    <3> QED
      BY <2>1, <3>2
  <2> QED
    BY <2>1, <2>2
<1>7. g = Run(g)
  BY <1>2, <1>6
<1>8. texts = Run(texts)
  <2> HIDE DEF Run
  <2> QED
    BY <1>7
<1> HIDE DEF texts
<1>9. /\ texts[0] = <<>> /\ \A i \in 1 .. n : texts[i] = Taking(texts[i - 1], ms[i])
      /\ texts = [i \in 0 .. n |-> texts[i]]
  BY <1>2, <1>8
<1>10. \A i \in 0 .. n : texts[i] \in X
  <2> DEFINE S == {i \in 0 .. n : texts[i] \in X}
  <2>1. 0 \in S
    BY <1>2, <1>3, <1>9
  <2>2. ASSUME NEW i \in 0 .. n - 1, i \in S
        PROVE  i + 1 \in S
    <3>1. i + 1 \in 1 .. n /\ (i + 1) - 1 = i
      BY <1>2
    <3>2. texts[i + 1] = Taking(texts[i], ms[i + 1])
      BY <1>9, <3>1
    <3>3. texts[i] \in Seq(Seq(Nat)) /\ ms[i + 1] \in Whole
      BY <1>2, <2>2, <3>1 DEF X
    <3>4. texts[i + 1] \in X
      BY <3>2, <3>3, TakingTypes DEF X
    <3> QED
      BY <1>2, <3>1, <3>4
  <2>3. \A i \in 0 .. n : i \in S
    <3> HIDE DEF S
    <3> QED
      BY <1>2, <2>1, <2>2, CountingUp
  <2> QED
    BY <2>3
<1>11. texts \in [0 .. n -> X]
  BY <1>9, <1>10
<1>12. Taken(texts, ms)
  BY <1>9, <1>11 DEF Taken, n, X
<1> QED
  BY <1>1, <1>12 DEF n

\* Two ways to take the same texts agree.
LEMMA TakenAgree ==
  ASSUME NEW ms \in Seq(Whole), NEW ns \in Seq(Whole), NEW t, NEW u,
         Taken(t, ms), Taken(u, ns), Len(ms) <= Len(ns),
         \A i \in 1 .. Len(ms) : ms[i] = ns[i]
  PROVE  t[Len(ms)] = u[Len(ms)]
<1> DEFINE n == Len(ms)
           S == {i \in 0 .. n : t[i] = u[i]}
<1>1. n \in Nat /\ Len(ns) \in Nat
  BY LenProperties
<1>2. 0 \in S
  BY <1>1 DEF Taken
<1>3. ASSUME NEW i \in 0 .. n - 1, i \in S
      PROVE  i + 1 \in S
  <2>1. i + 1 \in 1 .. n /\ i + 1 \in 1 .. Len(ns) /\ (i + 1) - 1 = i
    BY <1>1
  <2>2. /\ t[i + 1] = Taking(t[i], ms[i + 1]) /\ u[i + 1] = Taking(u[i], ns[i + 1])
        /\ ms[i + 1] = ns[i + 1]
    BY <2>1 DEF Taken
  <2> QED
    BY <1>1, <1>3, <2>1, <2>2
<1>4. \A i \in 0 .. n : i \in S
  <2> HIDE DEF S, n
  <2> QED
    BY <1>1, <1>2, <1>3, CountingUp
<1> QED
  BY <1>1, <1>4

\* One message more.
LEMMA TextsGrow ==
  ASSUME NEW ms \in Seq(Whole)
  PROVE  /\ Texts(ms) \in Seq(Seq(Nat))
         /\ \A m \in Whole : Texts(Append(ms, m)) = Taking(Texts(ms), m)
<1>1. PICK t : Taken(t, ms) /\ Texts(ms) = t[Len(ms)]
  BY TextsTaken
<1>2. Len(ms) \in Nat
  BY LenProperties
<1>3. Texts(ms) \in Seq(Seq(Nat))
  BY <1>1, <1>2 DEF Taken
<1>4. ASSUME NEW m \in Whole
      PROVE  Texts(Append(ms, m)) = Taking(Texts(ms), m)
  <2> DEFINE ns == Append(ms, m)
  <2>1. /\ ns \in Seq(Whole) /\ Len(ns) = Len(ms) + 1 /\ ns[Len(ms) + 1] = m
        /\ \A i \in 1 .. Len(ms) : ms[i] = ns[i]
    BY AppendProperties
  <2> HIDE DEF ns
  <2>2. PICK u : Taken(u, ns) /\ Texts(ns) = u[Len(ns)]
    BY <2>1, TextsTaken
  <2>3. t[Len(ms)] = u[Len(ms)]
    BY <1>1, <1>2, <2>1, <2>2, TakenAgree
  <2>4. u[Len(ms) + 1] = Taking(u[Len(ms)], m)
    <3>1. Len(ms) + 1 \in 1 .. Len(ns) /\ (Len(ms) + 1) - 1 = Len(ms)
      BY <1>2, <2>1
    <3> QED
      BY <2>1, <2>2, <3>1 DEF Taken
  <2> QED
    BY <1>1, <2>1, <2>2, <2>3, <2>4 DEF ns
<1> QED
  BY <1>3, <1>4

LEMMA NoTexts == Texts(<<>>) = <<>>
<1>1. <<>> \in Seq(Whole) /\ Len(<<>>) = 0
  BY EmptySeq
<1>2. PICK t : Taken(t, <<>>) /\ Texts(<<>>) = t[Len(<<>>)]
  BY <1>1, TextsTaken
<1> QED
  BY <1>1, <1>2 DEF Taken

LEMMA JoinAppend ==
  ASSUME NEW X, NEW s \in Seq(X), NEW q \in Seq(X), NEW x \in X
  PROVE  s \o Append(q, x) = Append(s \o q, x)
<1>1. <<x>> \in Seq(X) /\ s \o q \in Seq(X)
  BY ConcatProperties
<1>2. s \o (q \o <<x>>) = (s \o q) \o <<x>>
  BY <1>1, ConcatAssociative
<1>3. Append(q, x) = q \o <<x>> /\ Append(s \o q, x) = (s \o q) \o <<x>>
  BY <1>1, AppendIsConcat
<1> QED
  BY <1>2, <1>3

\* The texts of two pushes are those of the first and those of the second.
LEMMA TextsJoin ==
  ASSUME NEW ms \in Seq(Whole), NEW ns \in Seq(Whole)
  PROVE  Texts(ms \o ns) = Texts(ms) \o Texts(ns)
<1> DEFINE k == Len(ms)
           n == Len(ns)
           q == ms \o ns
           X == Seq(Nat)
<1>1. k \in Nat /\ n \in Nat
  BY LenProperties
<1>2. /\ q \in Seq(Whole) /\ Len(q) = k + n
      /\ \A i \in 1 .. k + n : q[i] = IF i <= k THEN ms[i] ELSE ns[i - k]
  BY ConcatProperties
<1> HIDE DEF q, k, n
<1>3. PICK t : Taken(t, ms) /\ Texts(ms) = t[k]
  BY TextsTaken DEF k
<1>4. PICK u : Taken(u, ns) /\ Texts(ns) = u[n]
  BY TextsTaken DEF n
<1>5. PICK v : Taken(v, q) /\ Texts(q) = v[k + n]
  BY <1>2, TextsTaken
<1>6. t[k] = v[k]
  BY <1>1, <1>2, <1>3, <1>5, TakenAgree DEF k
<1>7. Texts(ms) \in Seq(X)
  BY TextsGrow
<1> DEFINE S == {j \in 0 .. n : v[k + j] = Texts(ms) \o u[j]}
<1>8. 0 \in S
  <2>1. u[0] = <<>> /\ Texts(ms) \o <<>> = Texts(ms)
    BY <1>4, <1>7, ConcatEmptySeq DEF Taken
  <2>2. 0 \in 0 .. n /\ k + 0 = k
    BY <1>1
  <2> QED
    BY <1>3, <1>6, <2>1, <2>2
<1>9. ASSUME NEW j \in 0 .. n - 1, j \in S
      PROVE  j + 1 \in S
  <2>1. /\ j + 1 \in 1 .. n /\ (j + 1) - 1 = j /\ j \in 0 .. n
        /\ k + (j + 1) \in 1 .. k + n /\ (k + (j + 1)) - 1 = k + j
        /\ ~ (k + (j + 1) <= k) /\ (k + (j + 1)) - k = j + 1
    BY <1>1
  <2>2. u[j + 1] = Taking(u[j], ns[j + 1]) /\ u[j] \in Seq(X)
    BY <1>4, <2>1 DEF Taken, n, X
  <2>3. v[k + (j + 1)] = Taking(v[k + j], ns[j + 1])
    <3>1. v[k + (j + 1)] = Taking(v[(k + (j + 1)) - 1], q[k + (j + 1)])
      BY <1>2, <1>5, <2>1 DEF Taken
    <3>2. q[k + (j + 1)] = ns[j + 1]
      BY <1>2, <2>1
    <3> QED
      BY <2>1, <3>1, <3>2
  <2>4. ns[j + 1].parts \in X
    <3>1. ns[j + 1] \in Whole
      BY <2>1, ElementOfSeq DEF n
    <3> QED
      BY <3>1 DEF Whole, X
  <2>5. v[k + j] = Texts(ms) \o u[j]
    BY <1>9
  <2>6. Texts(ms) \o Append(u[j], ns[j + 1].parts)
          = Append(Texts(ms) \o u[j], ns[j + 1].parts)
    <3> DEFINE r == Texts(ms)
               s == u[j]
               x == ns[j + 1].parts
    <3>1. r \in Seq(X) /\ s \in Seq(X) /\ x \in X
      BY <1>7, <2>2, <2>4
    <3> HIDE DEF X, r, s, x
    <3>2. r \o Append(s, x) = Append(r \o s, x)
      BY <3>1, JoinAppend
    <3> QED
      BY <3>2 DEF r, s, x
  <2>7. v[k + (j + 1)] = Texts(ms) \o u[j + 1]
    BY <2>2, <2>3, <2>5, <2>6 DEF Taking
  <2> QED
    BY <2>1, <2>7
<1>10. \A j \in 0 .. n : j \in S
  <2> HIDE DEF S
  <2> QED
    BY <1>1, <1>8, <1>9, CountingUp
<1> QED
  BY <1>1, <1>4, <1>5, <1>10 DEF q

-----------------------------------------------------------------------------
\* Decoding goes on where it stopped: two reads make of the frames what one would.

\* The state x of a decoder, if d was that of the read before.
After(d, x) == [fragments |-> x.fragments, messages |-> d.messages \o x.messages,
                stop |-> x.stop]

LEMMA DecodeOn ==
  ASSUME NEW d \in State, NEW x \in State, NEW f \in Framed
  PROVE  DecodeFrame(After(d, x), f) = After(d, DecodeFrame(x, f))
<1> DEFINE y == After(d, x)
<1>1. /\ y.fragments = x.fragments /\ y.stop = x.stop
      /\ y.messages = d.messages \o x.messages
      /\ d.messages \in Seq(Whole) /\ x.messages \in Seq(Whole)
      /\ x.fragments \in Seq(Nat) /\ f.part \in Nat
  BY DEF After, State, Framed
<1>2. Refused(y, f) = Refused(x, f)
  BY <1>1 DEF Refused
<1>3. CASE x.stop # "no"
  BY <1>1, <1>3 DEF DecodeFrame
<1>4. CASE x.stop = "no" /\ Refused(x, f)
  BY <1>1, <1>2, <1>4 DEF DecodeFrame, After, State
<1>5. CASE x.stop = "no" /\ ~ Refused(x, f)
  <2>1. DecodeFrame(y, f) = Decoded(y, f) /\ DecodeFrame(x, f) = Decoded(x, f)
    BY <1>1, <1>2, <1>5 DEF DecodeFrame
  <2>2. ASSUME NEW m \in Whole
        PROVE  Append(y.messages, m) = d.messages \o Append(x.messages, m)
    <3> DEFINE s == d.messages
               q == x.messages
    <3>1. s \in Seq(Whole) /\ q \in Seq(Whole)
      BY <1>1
    <3> HIDE DEF s, q
    <3>2. s \o Append(q, m) = Append(s \o q, m)
      BY <3>1, JoinAppend
    <3> QED
      BY <1>1, <3>2 DEF s, q
  <2>3. CASE IsControl(f)
    <3> DEFINE m == Decodes(f.op, <<>>)
    <3>1. m \in Whole
      BY <2>3, EmptySeq DEF IsControl, Decodes, Whole
    <3>2. Append(y.messages, m) = d.messages \o Append(x.messages, m)
      BY <2>2, <3>1
    <3> HIDE DEF m
    <3> DEFINE z == IF f.op = "close" THEN "close" ELSE x.stop
    <3>3. /\ Decoded(y, f) = [y EXCEPT !.messages = Append(@, m),
                                       !.stop = IF f.op = "close" THEN "close" ELSE @]
          /\ Decoded(x, f) = [x EXCEPT !.messages = Append(@, m),
                                       !.stop = IF f.op = "close" THEN "close" ELSE @]
      BY <2>3 DEF Decoded, m
    <3>4. /\ Decoded(y, f) = [fragments |-> x.fragments,
                              messages |-> Append(y.messages, m), stop |-> z]
          /\ Decoded(x, f) = [fragments |-> x.fragments,
                              messages |-> Append(x.messages, m), stop |-> z]
      BY <1>1, <3>3 DEF After, State
    <3> HIDE DEF z
    <3>5. After(d, Decoded(x, f)) = [fragments |-> x.fragments,
                              messages |-> d.messages \o Append(x.messages, m), stop |-> z]
      BY <3>4 DEF After
    <3> QED
      BY <2>1, <3>2, <3>4, <3>5
  <2>4. CASE ~ IsControl(f) /\ ~ f.fin
    <3> DEFINE g == Append(x.fragments, f.part)
    <3>1. /\ Decoded(y, f) = [y EXCEPT !.fragments = g]
          /\ Decoded(x, f) = [x EXCEPT !.fragments = g]
      BY <1>1, <2>4 DEF Decoded
    <3> HIDE DEF g
    <3> QED
      BY <1>1, <2>1, <3>1 DEF After, State
  <2>5. CASE ~ IsControl(f) /\ f.fin
    <3> DEFINE m == Decodes("text", Append(x.fragments, f.part))
    <3>1. m \in Whole
      <4>1. Append(x.fragments, f.part) \in Seq(Nat)
        BY <1>1, AppendProperties
      <4> QED
        BY <4>1 DEF Decodes, Whole
    <3>2. Append(y.messages, m) = d.messages \o Append(x.messages, m)
      BY <2>2, <3>1
    <3>3. /\ Decoded(y, f) = [y EXCEPT !.messages = Append(@, m), !.fragments = <<>>]
          /\ Decoded(x, f) = [x EXCEPT !.messages = Append(@, m), !.fragments = <<>>]
      BY <1>1, <2>5 DEF Decoded
    <3> HIDE DEF m
    <3> QED
      BY <1>1, <2>1, <3>2, <3>3 DEF After, State
  <2> QED
    BY <2>3, <2>4, <2>5
<1> QED
  BY <1>3, <1>4, <1>5 DEF State

\* Two decoders of the same frames agree.
LEMMA DecodingAgrees ==
  ASSUME NEW fs \in Seq(Framed), NEW gs \in Seq(Framed), NEW F, NEW t, NEW u,
         Decoding(t, F, fs), Decoding(u, F, gs), Len(gs) <= Len(fs),
         \A i \in 1 .. Len(gs) : gs[i] = fs[i]
  PROVE  t[Len(gs)] = u[Len(gs)]
<1> DEFINE n == Len(gs)
           S == {i \in 0 .. n : t[i] = u[i]}
<1>1. n \in Nat /\ Len(fs) \in Nat
  BY LenProperties
<1>2. 0 \in S
  BY <1>1 DEF Decoding
<1>3. ASSUME NEW i \in 0 .. n - 1, i \in S
      PROVE  i + 1 \in S
  <2>1. i + 1 \in 1 .. n /\ i + 1 \in 1 .. Len(fs) /\ (i + 1) - 1 = i
    BY <1>1
  <2>2. /\ t[i + 1] = DecodeFrame(t[i], fs[i + 1])
        /\ u[i + 1] = DecodeFrame(u[i], gs[i + 1])
        /\ gs[i + 1] = fs[i + 1]
    BY <2>1 DEF Decoding
  <2> QED
    BY <1>1, <1>3, <2>1, <2>2
<1>4. \A i \in 0 .. n : i \in S
  <2> HIDE DEF S, n
  <2> QED
    BY <1>1, <1>2, <1>3, CountingUp
<1> QED
  BY <1>1, <1>4

\* gs is what follows the first k of the frames fs.
Rest(fs, k, gs) ==
  Len(fs) = k + Len(gs) /\ \A i \in 1 .. Len(gs) : fs[k + i] = gs[i]

\* After the first k frames, what the rest makes.
LEMMA DecodingGoesOn ==
  ASSUME NEW fs \in Seq(Framed), NEW gs \in Seq(Framed), NEW F, NEW t, NEW u, NEW k \in Nat,
         Decoding(t, F, fs), Rest(fs, k, gs), Decoding(u, t[k].fragments, gs)
  PROVE  t[Len(fs)] = IF t[k].stop = "no" THEN After(t[k], u[Len(gs)]) ELSE t[k]
<1> DEFINE n == Len(gs)
<1>1. n \in Nat
  BY LenProperties
<1>0. Len(fs) = k + n /\ \A i \in 1 .. n : fs[k + i] = gs[i]
  BY DEF Rest
<1>2. t[k] \in State
  BY <1>0, <1>1 DEF Decoding
<1>3. \A i \in 1 .. n : gs[i] \in Framed
  BY ElementOfSeq
<1> HIDE DEF n
<1>4. ASSUME NEW j \in 0 .. n - 1
      PROVE  /\ j \in 0 .. n /\ j + 1 \in 0 .. n /\ gs[j + 1] \in Framed
             /\ t[k + (j + 1)] = DecodeFrame(t[k + j], gs[j + 1])
  <2>1. /\ j \in 0 .. n /\ j + 1 \in 1 .. n /\ k + (j + 1) \in 1 .. k + n
        /\ (k + (j + 1)) - 1 = k + j
    BY <1>1
  <2>2. t[k + (j + 1)] = DecodeFrame(t[(k + (j + 1)) - 1], fs[k + (j + 1)])
    BY <1>0, <2>1 DEF Decoding
  <2>3. fs[k + (j + 1)] = gs[j + 1]
    BY <1>0, <2>1
  <2> QED
    BY <1>3, <2>1, <2>2, <2>3
<1>5. ASSUME t[k].stop = "no"
      PROVE  t[k + n] = After(t[k], u[n])
  <2> DEFINE S == {j \in 0 .. n : t[k + j] = After(t[k], u[j])}
  <2>1. 0 \in S
    <3>1. t[k].messages \o <<>> = t[k].messages
      BY <1>2, ConcatEmptySeq DEF State
    <3>2. After(t[k], u[0]) = t[k]
      BY <1>2, <1>5, <3>1 DEF Decoding, Begins, After, State
    <3>3. 0 \in 0 .. n /\ k + 0 = k
      BY <1>1
    <3> QED
      BY <3>2, <3>3
  <2>2. ASSUME NEW j \in 0 .. n - 1, j \in S
        PROVE  j + 1 \in S
    <3>1. u[j] \in State /\ u[j + 1] = DecodeFrame(u[j], gs[j + 1])
      <4>1. j \in 0 .. n /\ j + 1 \in 1 .. n /\ (j + 1) - 1 = j
        BY <1>1
      <4> QED
        BY <1>5, <4>1 DEF Decoding, n
    <3>2. t[k + j] = After(t[k], u[j])
      BY <2>2
    <3>3. t[k + (j + 1)] = After(t[k], u[j + 1])
      BY <1>2, <1>4, <3>1, <3>2, DecodeOn
    <3> QED
      BY <1>4, <3>3
  <2>3. \A j \in 0 .. n : j \in S
    <3> HIDE DEF S
    <3> QED
      BY <1>1, <2>1, <2>2, CountingUp
  <2> QED
    BY <1>1, <2>3
<1>6. ASSUME t[k].stop # "no"
      PROVE  t[k + n] = t[k]
  <2> DEFINE S == {j \in 0 .. n : t[k + j] = t[k]}
  <2>1. 0 \in S
    BY <1>1
  <2>2. ASSUME NEW j \in 0 .. n - 1, j \in S
        PROVE  j + 1 \in S
    <3>1. t[k + (j + 1)] = DecodeFrame(t[k], gs[j + 1])
      BY <1>4, <2>2
    <3>2. DecodeFrame(t[k], gs[j + 1]) = t[k]
      BY <1>6 DEF DecodeFrame
    <3> QED
      BY <1>4, <3>1, <3>2
  <2>3. \A j \in 0 .. n : j \in S
    <3> HIDE DEF S
    <3> QED
      BY <1>1, <2>1, <2>2, CountingUp
  <2> QED
    <3>1. n \in 0 .. n
      BY <1>1
    <3> QED
      BY <2>3, <3>1
<1> QED
  BY <1>0, <1>5, <1>6 DEF n

\* What a push has read of a decoder's end.
Left(w, p) == [w EXCEPT !.buffer = p.buffer, !.fragments = p.result.fragments]

\* At most half a frame stays behind.
LEMMA RemainderLength ==
  ASSUME NEW b \in Seq(Half)
  PROVE  Len(Remainder(b)) = Len(b) % 2
<1> DEFINE l == Len(b)
           k == l \div 2
<1>1. l \in Nat
  BY LenProperties
<1>2. 2 * k + 1 \in Int /\ l \in Int /\ k \in Nat /\ l - 2 * k = l % 2 /\ l % 2 \in {0, 1}
  <2> HIDE DEF l
  <2> QED
    BY <1>1
<1>3. ASSUME NEW i \in 2 * k + 1 .. l
      PROVE  b[i] \in Half
  <2>1. i \in 1 .. l
    <3> HIDE DEF k, l
    <3> QED
      BY <1>1, <1>2
  <2> QED
    BY <2>1, ElementOfSeq
<1> HIDE DEF k
<1>4. Len(SubSeq(b, 2 * k + 1, l)) = IF 2 * k + 1 <= l THEN l - (2 * k + 1) + 1 ELSE 0
  BY <1>2, <1>3, SubSeqProperties
<1>5. Remainder(b) = SubSeq(b, 2 * k + 1, l)
  BY DEF Remainder, k
<1> HIDE DEF l
<1> QED
  BY <1>1, <1>2, <1>4, <1>5 DEF l

\* However what arrives is cut in two reads, the decoder makes the same of it.
LEMMA PushSplits ==
  ASSUME NEW w \in Ends, NEW c \in Seq(Half), NEW d \in Seq(Half)
  PROVE  LET p == Push(w, c)
         IN  /\ Left(w, p) \in Ends
             /\ Push(w, c \o d).result =
                  IF p.result.stop = "no" THEN After(p.result, Push(Left(w, p), d).result)
                  ELSE p.result
<1> DEFINE p == Push(w, c)
           v == Left(w, p)
           b == w.buffer \o c
           h == w.buffer \o (c \o d)
           rest == Remainder(b)
           g == rest \o d
           l == Len(b)
           m == Len(d)
           k == l \div 2
           es == WholeFrames(b)
           fs == WholeFrames(h)
           gs == WholeFrames(g)
<1>1. /\ b \in Seq(Half) /\ es \in Seq(Framed) /\ Len(es) = k
      /\ \A i \in 1 .. Len(es) : 2 * i \in 1 .. l /\ es[i] = b[2 * i][1]
      /\ p.buffer = rest /\ rest \in Seq(Half)
      /\ \E t : Decoding(t, w.fragments, es) /\ p.result = t[Len(es)]
  BY PushDecodes
<1>2. p.result \in State
  BY PushTypes
<1>3. c \o d \in Seq(Half) /\ w.buffer \in Seq(Half)
  BY ConcatProperties DEF Ends
<1>4. h = b \o d
  <2> DEFINE s == w.buffer
  <2>1. s \in Seq(Half)
    BY <1>3
  <2> HIDE DEF s
  <2>2. s \o (c \o d) = (s \o c) \o d
    BY <2>1, ConcatAssociative
  <2> QED
    BY <2>2 DEF s
<1> HIDE DEF p
<1>5. v \in Ends /\ v.buffer = rest /\ v.fragments = p.result.fragments
  BY <1>1, <1>2 DEF Left, Ends, State
<1>6. /\ h \in Seq(Half) /\ fs \in Seq(Framed) /\ Len(fs) = Len(h) \div 2
      /\ \A i \in 1 .. Len(fs) : 2 * i \in 1 .. Len(h) /\ fs[i] = h[2 * i][1]
      /\ \E t : Decoding(t, w.fragments, fs) /\ Push(w, c \o d).result = t[Len(fs)]
  <2> DEFINE e == c \o d
  <2>1. e \in Seq(Half)
    BY <1>3
  <2> HIDE DEF e
  <2>2. LET x == w.buffer \o e
            ts == WholeFrames(x)
        IN  /\ x \in Seq(Half) /\ ts \in Seq(Framed) /\ Len(ts) = Len(x) \div 2
            /\ \A i \in 1 .. Len(ts) : 2 * i \in 1 .. Len(x) /\ ts[i] = x[2 * i][1]
            /\ \E t : Decoding(t, w.fragments, ts) /\ Push(w, e).result = t[Len(ts)]
    BY <2>1, PushDecodes
  <2> QED
    BY <2>2 DEF e
<1> HIDE DEF v
<1>7. /\ g \in Seq(Half) /\ gs \in Seq(Framed) /\ Len(gs) = Len(g) \div 2
      /\ \A i \in 1 .. Len(gs) : 2 * i \in 1 .. Len(g) /\ gs[i] = g[2 * i][1]
      /\ \E t : Decoding(t, p.result.fragments, gs) /\ Push(v, d).result = t[Len(gs)]
  <2>1. LET x == v.buffer \o d
            ts == WholeFrames(x)
        IN  /\ x \in Seq(Half) /\ ts \in Seq(Framed) /\ Len(ts) = Len(x) \div 2
            /\ \A i \in 1 .. Len(ts) : 2 * i \in 1 .. Len(x) /\ ts[i] = x[2 * i][1]
            /\ \E t : Decoding(t, v.fragments, ts) /\ Push(v, d).result = t[Len(ts)]
    BY <1>5, PushDecodes
  <2> QED
    BY <1>5, <2>1
<1>8. l \in Nat /\ m \in Nat
  BY <1>1, LenProperties
<1>9. /\ Len(rest) = l - 2 * k
      /\ k \in Nat /\ l - 2 * k \in {0, 1}
  <2>1. Len(rest) = l % 2
    BY <1>1, RemainderLength
  <2> HIDE DEF l, rest
  <2> QED
    BY <1>8, <2>1
<1>10. /\ Len(h) = l + m
       /\ \A i \in 1 .. l + m : h[i] = IF i <= l THEN b[i] ELSE d[i - l]
  BY <1>1, <1>4, ConcatProperties
<1> HIDE DEF b, h, es, fs
<1>11. /\ Len(g) = Len(rest) + m
       /\ \A i \in 1 .. Len(rest) + m :
            g[i] = IF i <= Len(rest) THEN rest[i] ELSE d[i - Len(rest)]
  BY <1>1, ConcatProperties
<1> HIDE DEF g, gs, rest, l, m
<1>12. Len(fs) = k + Len(gs) /\ Len(es) = k /\ k <= Len(fs) /\ Len(gs) \in Nat
  <2>1. Len(es) = k /\ Len(fs) = Len(h) \div 2 /\ Len(gs) = Len(g) \div 2
    BY <1>1, <1>6, <1>7
  <2>2. Len(h) = l + m /\ Len(g) = Len(rest) + m
    BY <1>10, <1>11
  <2>3. (l + m) \div 2 = k + (Len(rest) + m) \div 2 /\ (Len(rest) + m) \div 2 \in Nat
    BY <1>8, <1>9
  <2> QED
    BY <1>9, <2>1, <2>2, <2>3
<1> HIDE DEF k
<1>13. ASSUME NEW i \in 1 .. Len(gs)
       PROVE  fs[k + i] = gs[i]
  <2> DEFINE x == 2 * (k + i)
             y == 2 * i
  <2>1. k + i \in 1 .. Len(fs)
    BY <1>9, <1>12
  <2>2. x \in 1 .. l + m /\ fs[k + i] = h[x][1]
    BY <1>6, <1>10, <2>1
  <2>3. y \in 1 .. Len(rest) + m /\ gs[i] = g[y][1]
    BY <1>7, <1>11
  <2>4. ~ x <= l /\ ~ y <= Len(rest) /\ x - l = y - Len(rest)
    BY <1>8, <1>9, <1>12
  <2> HIDE DEF x, y
  <2>5. h[x] = d[x - l] /\ g[y] = d[y - Len(rest)]
    BY <1>10, <1>11, <2>2, <2>3, <2>4
  <2> QED
    BY <2>2, <2>3, <2>4, <2>5
<1>14. ASSUME NEW i \in 1 .. Len(es)
       PROVE  es[i] = fs[i]
  <2>1. 2 * i \in 1 .. l /\ es[i] = b[2 * i][1]
    BY <1>1
  <2>2. i \in 1 .. Len(fs) /\ 2 * i \in 1 .. l + m /\ 2 * i <= l
    BY <1>8, <1>12, <2>1
  <2> QED
    BY <1>6, <1>10, <2>1, <2>2
<1>15. PICK t : Decoding(t, w.fragments, fs) /\ Push(w, c \o d).result = t[Len(fs)]
  BY <1>6
<1>16. PICK s : Decoding(s, w.fragments, es) /\ p.result = s[Len(es)]
  BY <1>1
<1>17. PICK u : Decoding(u, p.result.fragments, gs) /\ Push(v, d).result = u[Len(gs)]
  BY <1>7
<1>18. p.result = t[k]
  <2>1. fs \in Seq(Framed) /\ es \in Seq(Framed) /\ Len(es) <= Len(fs)
    BY <1>1, <1>6, <1>12
  <2>2. t[Len(es)] = s[Len(es)]
    BY <1>14, <1>15, <1>16, <2>1, DecodingAgrees
  <2> QED
    BY <1>12, <1>16, <2>2
<1>19. t[Len(fs)] = IF t[k].stop = "no" THEN After(t[k], u[Len(gs)]) ELSE t[k]
  <2>1. fs \in Seq(Framed) /\ gs \in Seq(Framed) /\ k \in Nat
    BY <1>6, <1>7, <1>9
  <2>2. Decoding(t, w.fragments, fs) /\ Decoding(u, t[k].fragments, gs)
    BY <1>15, <1>17, <1>18
  <2>3. Rest(fs, k, gs)
    BY <1>12, <1>13 DEF Rest
  <2>4. \A x, y \in Seq(Framed) : \A F, a, z : \A j \in Nat :
          Decoding(a, F, x) /\ Rest(x, j, y) /\ Decoding(z, a[j].fragments, y)
            => a[Len(x)] = IF a[j].stop = "no" THEN After(a[j], z[Len(y)]) ELSE a[j]
    BY DecodingGoesOn
  <2> QED
    BY <2>1, <2>2, <2>3, <2>4
<1> QED
  BY <1>5, <1>15, <1>17, <1>18, <1>19 DEF p, v

\* A push looks at what is buffered, and at the fragments.
LEMMA SamePush ==
  ASSUME NEW v, NEW w, v.buffer = w.buffer, v.fragments = w.fragments, NEW c
  PROVE  Push(v, c) = Push(w, c)
BY DEF Push

-----------------------------------------------------------------------------
\* What the frames of one method bring to a decoder that waits for a message.

Delivers(d, ts) ==
  \/ d.stop # "no" /\ Texts(d.messages) = <<>>
  \/ d.stop = "no" /\ d.fragments = <<>> /\ Texts(d.messages) = ts
Carries(fs, ts) == \A t : Decoding(t, <<>>, fs) => Delivers(t[Len(fs)], ts)

\* Pings, pongs and closes are no part of a message.
LEMMA ControlsPass ==
  ASSUME NEW fs \in Seq(Framed), NEW F, NEW t, Decoding(t, F, fs),
         \A i \in 1 .. Len(fs) : IsControl(fs[i])
  PROVE  Texts(t[Len(fs)].messages) = <<>> /\ t[Len(fs)].fragments = F
<1> DEFINE n == Len(fs)
           S == {i \in 0 .. n : Texts(t[i].messages) = <<>> /\ t[i].fragments = F}
<1>1. n \in Nat
  BY LenProperties
<1>2. 0 \in S
  BY <1>1, NoTexts DEF Decoding, Begins
<1>3. ASSUME NEW i \in 0 .. n - 1, i \in S
      PROVE  i + 1 \in S
  <2>1. i \in 0 .. n /\ i + 1 \in 1 .. n /\ (i + 1) - 1 = i
    BY <1>1
  <2> DEFINE d == t[i]
             f == fs[i + 1]
  <2>2. t[i + 1] = DecodeFrame(d, f) /\ d \in State /\ f \in Framed /\ IsControl(f)
    BY <2>1, ElementOfSeq DEF Decoding
  <2>3. Texts(d.messages) = <<>> /\ d.fragments = F
    BY <1>3
  <2> HIDE DEF d, f
  <2>4. ~ Refused(d, f)
    BY <2>2 DEF Refused, IsControl
  <2>5. CASE d.stop # "no"
    BY <2>1, <2>2, <2>3, <2>5 DEF DecodeFrame
  <2>6. CASE d.stop = "no"
    <3> DEFINE m == Decodes(f.op, <<>>)
    <3>1. m \in Whole /\ ~ IsText(m)
      BY <2>2, EmptySeq DEF IsControl, IsText, Decodes, Whole
    <3> HIDE DEF m
    <3>2. DecodeFrame(d, f) = [d EXCEPT !.messages = Append(@, m),
                                        !.stop = IF f.op = "close" THEN "close" ELSE @]
      BY <2>2, <2>4, <2>6 DEF DecodeFrame, Decoded, m
    <3>3. d.messages \in Seq(Whole)
      BY <2>2 DEF State
    <3>4. Texts(Append(d.messages, m)) = Texts(d.messages)
      BY <3>1, <3>3, TextsGrow DEF Taking
    <3>5. t[i + 1].messages = Append(d.messages, m) /\ t[i + 1].fragments = d.fragments
      BY <2>2, <3>2 DEF State
    <3>6. i + 1 \in 0 .. n
      BY <1>1, <2>1
    <3> QED
      BY <2>3, <3>4, <3>5, <3>6
  <2> QED
    BY <2>5, <2>6
<1>4. \A i \in 0 .. n : i \in S
  <2> HIDE DEF S, n
  <2> QED
    BY <1>1, <1>2, <1>3, CountingUp
<1> QED
  BY <1>1, <1>4

LEMMA ControlsCarry ==
  ASSUME NEW fs \in Seq(Framed), \A i \in 1 .. Len(fs) : IsControl(fs[i])
  PROVE  Carries(fs, <<>>)
<1> SUFFICES ASSUME NEW t, Decoding(t, <<>>, fs)
             PROVE  Delivers(t[Len(fs)], <<>>)
  BY DEF Carries
<1>1. Texts(t[Len(fs)].messages) = <<>> /\ t[Len(fs)].fragments = <<>>
  BY ControlsPass
<1> QED
  BY <1>1 DEF Delivers

\* A frame of a message, if the decoder does not refuse it.
LEMMA PartDecodes ==
  ASSUME NEW d \in State, d.stop = "no", NEW f \in Framed, ~ IsControl(f), ~ Refused(d, f)
  PROVE  LET x == DecodeFrame(d, f)
         IN  /\ x.stop = "no"
             /\ ~ f.fin => /\ x.fragments = Append(d.fragments, f.part)
                           /\ x.messages = d.messages
             /\ f.fin => /\ x.fragments = <<>>
                         /\ Texts(x.messages) =
                              Append(Texts(d.messages), Append(d.fragments, f.part))
<1>1. DecodeFrame(d, f) = Decoded(d, f)
  BY DEF DecodeFrame
<1>2. CASE ~ f.fin
  BY <1>1, <1>2 DEF Decoded, State
<1>3. CASE f.fin
  <2> DEFINE g == Append(d.fragments, f.part)
             m == Decodes("text", g)
  <2>1. m \in Whole /\ IsText(m) /\ m.parts = g
    <3>1. g \in Seq(Nat)
      BY AppendProperties DEF State, Framed
    <3> HIDE DEF g
    <3> QED
      BY <3>1 DEF Decodes, Whole, IsText
  <2>2. Decoded(d, f) = [d EXCEPT !.messages = Append(@, m), !.fragments = <<>>]
    BY <1>3 DEF Decoded
  <2> HIDE DEF m
  <2>3. d.messages \in Seq(Whole)
    BY DEF State
  <2>4. Texts(Append(d.messages, m)) = Append(Texts(d.messages), g)
    BY <2>1, <2>3, TextsGrow DEF Taking
  <2> QED
    BY <1>1, <1>3, <2>2, <2>4 DEF State
<1> QED
  BY <1>2, <1>3

LEMMA TextCarries ==
  ASSUME NEW part \in Nat
  PROVE  Carries(<<Text(part)>>, <<<<part>>>>)
<1> DEFINE f == Text(part)
           fs == <<f>>
<1>1. f \in Framed /\ ~ IsControl(f) /\ f.op = "text" /\ f.fin /\ f.part = part
  BY DEF Text, EncodeFrame, Framed, Op, IsControl
<1> HIDE DEF f
<1> SUFFICES ASSUME NEW t, Decoding(t, <<>>, fs)
             PROVE  Delivers(t[Len(fs)], <<<<part>>>>)
  BY DEF Carries, f
<1>2. /\ Len(fs) = 1 /\ t[0] = Begins(<<>>) /\ t[0] \in State
      /\ t[1] = DecodeFrame(t[0], f)
  BY DEF Decoding
<1>3. /\ ~ Refused(t[0], f) /\ t[0].stop = "no" /\ t[0].fragments = <<>>
      /\ t[0].messages = <<>>
  BY <1>1, <1>2, WebSocketAssumption DEF Refused, Begins
<1>4. t[1].stop = "no" /\ t[1].fragments = <<>>
      /\ Texts(t[1].messages) = Append(Texts(<<>>), Append(<<>>, part))
  BY <1>1, <1>2, <1>3, PartDecodes
<1> QED
  BY <1>2, <1>4, NoTexts DEF Delivers

LEMMA InvalidCarries ==
  ASSUME NEW fs \in Invalid
  PROVE  Carries(fs, <<>>)
<1> SUFFICES ASSUME NEW t, Decoding(t, <<>>, fs)
             PROVE  Delivers(t[Len(fs)], <<>>)
  BY DEF Carries
<1>1. ASSUME NEW f \in {Control("invalid"), EncodeFrame("continuation", TRUE, 0)},
             fs = <<f>>
      PROVE  Delivers(t[Len(fs)], <<>>)
  <2>1. Len(fs) = 1 /\ fs[1] = f
    BY <1>1
  <2>2. t[0] = Begins(<<>>) /\ t[1] = DecodeFrame(t[0], f)
    BY <2>1 DEF Decoding
  <2>3. Refused(t[0], f) /\ t[0].stop = "no" /\ t[0].messages = <<>>
    BY <2>2 DEF Refused, Begins, Control, EncodeFrame, IsControl
  <2>4. t[1].stop = "failed" /\ t[1].messages = <<>>
    BY <2>2, <2>3 DEF DecodeFrame, Begins
  <2> QED
    BY <2>1, <2>4, NoTexts DEF Delivers
<1>2. CASE fs = <<EncodeFrame("text", FALSE, 0), Text(0)>>
  <2> DEFINE f == EncodeFrame("text", FALSE, 0)
             g == Text(0)
  <2>1. /\ f \in Framed /\ ~ IsControl(f) /\ f.op = "text" /\ ~ f.fin /\ f.part = 0
        /\ g.op = "text"
    BY DEF Text, EncodeFrame, Framed, Op, IsControl
  <2> HIDE DEF f, g
  <2>2. /\ Len(fs) = 2 /\ t[0] = Begins(<<>>) /\ t[0] \in State /\ t[1] \in State
        /\ t[1] = DecodeFrame(t[0], f) /\ t[2] = DecodeFrame(t[1], g)
    <3>1. Len(fs) = 2 /\ fs[1] = f /\ fs[2] = g
      BY <1>2 DEF f, g
    <3> QED
      BY <3>1 DEF Decoding
  <2>3. /\ ~ Refused(t[0], f) /\ t[0].stop = "no" /\ t[0].fragments = <<>>
        /\ t[0].messages = <<>>
    BY <2>1, <2>2, WebSocketAssumption DEF Refused, Begins
  <2>4. t[1].stop = "no" /\ t[1].fragments = Append(<<>>, 0) /\ t[1].messages = <<>>
    BY <2>1, <2>2, <2>3, PartDecodes
  <2>5. Append(<<>>, 0) # <<>>
    OBVIOUS
  <2>6. Refused(t[1], g)
    BY <2>1, <2>4, <2>5 DEF Refused, IsControl
  <2>7. t[2].stop = "failed" /\ t[2].messages = <<>>
    BY <2>2, <2>4, <2>6 DEF DecodeFrame, State
  <2> QED
    BY <2>2, <2>7, NoTexts DEF Delivers
<1> QED
  BY <1>1, <1>2 DEF Invalid

\* The decoder puts them together, or finds the message too long.
LEMMA FragmentsCarry ==
  ASSUME NEW n \in 2 .. MaxMessageParts + 1, NEW part \in Nat
  PROVE  Carries(Fragments(n, part), <<[i \in 1 .. n |-> part]>>)
<1> DEFINE fs == Fragments(n, part)
           q == [i \in 1 .. n |-> part]
<1>1. n \in Nat \ {0} /\ n >= 2 /\ MaxMessageParts \in Nat \ {0} /\ n <= MaxMessageParts + 1
  BY WebSocketAssumption
<1>2. /\ fs \in Seq(Framed) /\ Len(fs) = n + 1
      /\ fs[1] = EncodeFrame("text", FALSE, part) /\ fs[2] = Control("ping")
      /\ \A j \in 1 .. n - 1 : fs[j + 2] = EncodeFrame("continuation", j = n - 1, part)
  BY <1>1, FragmentsAre
<1> HIDE DEF fs
<1> SUFFICES ASSUME NEW t, Decoding(t, <<>>, fs)
             PROVE  Delivers(t[Len(fs)], <<q>>)
  BY DEF Carries, fs
<1> HIDE DEF q
<1>3. /\ t[0] = Begins(<<>>) /\ \A i \in 0 .. n + 1 : t[i] \in State
      /\ \A i \in 1 .. n + 1 : t[i] = DecodeFrame(t[i - 1], fs[i])
  BY <1>2 DEF Decoding
<1>4. /\ t[1].stop = "no" /\ t[1].fragments = Append(<<>>, part) /\ t[1].messages = <<>>
  <2> DEFINE f == EncodeFrame("text", FALSE, part)
  <2>1. f \in Framed /\ ~ IsControl(f) /\ f.op = "text" /\ ~ f.fin /\ f.part = part
    BY DEF EncodeFrame, Framed, Op, IsControl
  <2> HIDE DEF f
  <2>2. t[1] = DecodeFrame(t[0], f) /\ t[0] \in State
    <3>1. 1 \in 1 .. n + 1 /\ 1 - 1 = 0 /\ 0 \in 0 .. n + 1
      BY <1>1
    <3>2. t[1] = DecodeFrame(t[0], fs[1]) /\ t[0] \in State
      BY <1>3, <3>1
    <3> QED
      BY <1>2, <3>2 DEF f
  <2>3. /\ ~ Refused(t[0], f) /\ t[0].stop = "no" /\ t[0].fragments = <<>>
        /\ t[0].messages = <<>>
    BY <1>3, <2>1, WebSocketAssumption DEF Refused, Begins
  <2> QED
    BY <2>1, <2>2, <2>3, PartDecodes
\* The ping between the first fragment and the second.
<1>5. /\ t[2].stop = "no" /\ t[2].fragments = Append(<<>>, part)
      /\ Texts(t[2].messages) = <<>>
  <2> DEFINE f == Control("ping")
             m == Decodes("ping", <<>>)
  <2>1. t[2] = DecodeFrame(t[1], f) /\ t[1] \in State
    BY <1>1, <1>2, <1>3
  <2>2. m \in Whole /\ ~ IsText(m)
    BY EmptySeq DEF Decodes, Whole, IsText
  <2> HIDE DEF m
  <2>3. t[2] = [t[1] EXCEPT !.messages = Append(@, m)]
    BY <1>4, <2>1 DEF DecodeFrame, Refused, Decoded, IsControl, Control, EncodeFrame, m,
                      State
  <2>4. Texts(Append(<<>>, m)) = <<>>
    <3>1. <<>> \in Seq(Whole)
      BY EmptySeq
    <3> QED
      BY <2>2, <3>1, TextsGrow, NoTexts DEF Taking
  <2> QED
    BY <1>4, <2>1, <2>3, <2>4 DEF State
\* A fragment in the middle.
<1> DEFINE Mid(j) == /\ t[j + 2].stop = "no" /\ Texts(t[j + 2].messages) = <<>>
                     /\ Len(t[j + 2].fragments) = j + 1
                     /\ \A i \in 1 .. j + 1 : t[j + 2].fragments[i] = part
           S == {j \in 0 .. n - 2 : Mid(j)}
<1>6. 0 \in S
  <2>1. <<>> \in Seq(Nat) /\ Len(<<>>) = 0
    BY EmptySeq
  <2>2. Len(Append(<<>>, part)) = 1 /\ Append(<<>>, part)[1] = part
    BY <2>1, AppendProperties
  <2>3. 0 + 2 = 2 /\ 0 + 1 = 1 /\ 0 \in 0 .. n - 2
    BY <1>1
  <2>4. Mid(0)
    <3> DEFINE g == t[2].fragments
    <3>1. Len(g) = 1 /\ g[1] = part
      BY <1>5, <2>2
    <3> HIDE DEF g
    <3>2. \A i \in 1 .. 1 : g[i] = part
      BY <3>1
    <3> QED
      BY <1>5, <2>3, <3>1, <3>2 DEF g
  <2> HIDE DEF Mid
  <2> QED
    BY <2>3, <2>4
<1>7. ASSUME NEW j \in 0 .. n - 2, Mid(j)
      PROVE  LET x == t[j + 2]
                 f == fs[j + 3]
             IN  /\ x \in State /\ f \in Framed /\ t[j + 3] = DecodeFrame(x, f)
                 /\ ~ IsControl(f) /\ f.part = part /\ (f.fin <=> j = n - 2)
                 /\ Refused(x, f) <=> j + 1 = MaxMessageParts
                 /\ Append(x.fragments, part) \in Seq(Nat)
                 /\ Len(Append(x.fragments, part)) = j + 2
                 /\ \A i \in 1 .. j + 2 : Append(x.fragments, part)[i] = part
  <2> DEFINE x == t[j + 2]
             f == fs[j + 3]
             g == Append(x.fragments, part)
  <2>1. /\ j + 2 \in 0 .. n + 1 /\ j + 3 \in 1 .. n + 1 /\ (j + 3) - 1 = j + 2
        /\ j + 1 \in 1 .. n - 1 /\ (j + 1) + 2 = j + 3 /\ (j + 1 = n - 1 <=> j = n - 2)
    BY <1>1
  <2>2. x \in State /\ t[j + 3] = DecodeFrame(x, f)
    BY <1>3, <2>1
  <2>3. f = EncodeFrame("continuation", j + 1 = n - 1, part)
    BY <1>2, <2>1
  <2>4. /\ f \in Framed /\ ~ IsControl(f) /\ f.part = part /\ (f.fin <=> j = n - 2)
        /\ f.op = "continuation"
    <3> HIDE DEF f
    <3> QED
      BY <2>1, <2>3 DEF EncodeFrame, Framed, Op, IsControl
  <2>5. /\ x.fragments \in Seq(Nat) /\ Len(x.fragments) = j + 1
        /\ \A i \in 1 .. j + 1 : x.fragments[i] = part
    BY <1>7, <2>2 DEF State
  <2> HIDE DEF x, f
  <2>6. x.fragments # <<>>
    BY <2>1, <2>5, EmptySeq
  <2>7. Refused(x, f) <=> j + 1 = MaxMessageParts
    BY <2>4, <2>5, <2>6 DEF Refused
  <2>8. g \in Seq(Nat) /\ Len(g) = j + 2 /\ \A i \in 1 .. j + 2 : g[i] = part
    <3>1. /\ g \in Seq(Nat) /\ Len(g) = (j + 1) + 1 /\ g[(j + 1) + 1] = part
          /\ \A i \in 1 .. j + 1 : g[i] = x.fragments[i]
      BY <2>5, AppendProperties
    <3> HIDE DEF g
    <3>2. ASSUME NEW i \in 1 .. j + 2
          PROVE  g[i] = part
      <4>1. (i \in 1 .. j + 1 \/ i = j + 2) /\ (j + 1) + 1 = j + 2
        BY <2>1
      <4> QED
        BY <2>5, <3>1, <4>1
    <3> QED
      BY <2>1, <3>1, <3>2
  <2> QED
    BY <2>2, <2>4, <2>7, <2>8 DEF x, f, g
<1>8. ASSUME NEW j \in 0 .. (n - 2) - 1, j \in S
      PROVE  j + 1 \in S
  <2> DEFINE x == t[j + 2]
             f == fs[j + 3]
  <2>1. j \in 0 .. n - 2 /\ j + 1 \in 0 .. n - 2 /\ (j + 1) + 2 = j + 3 /\ j # n - 2
        /\ j + 1 # MaxMessageParts /\ (j + 1) + 1 = j + 2
    BY <1>1
  <2>2. Mid(j)
    BY <1>8
  <2>3. /\ x \in State /\ f \in Framed /\ t[j + 3] = DecodeFrame(x, f)
        /\ ~ IsControl(f) /\ f.part = part /\ ~ f.fin /\ ~ Refused(x, f)
        /\ Len(Append(x.fragments, part)) = j + 2
        /\ \A i \in 1 .. j + 2 : Append(x.fragments, part)[i] = part
    <3> HIDE DEF Mid
    <3> QED
      BY <1>7, <2>1, <2>2
  <2>4. x.stop = "no" /\ Texts(x.messages) = <<>>
    BY <2>2
  <2> HIDE DEF x, f, Mid
  <2>5. /\ t[j + 3].stop = "no" /\ t[j + 3].fragments = Append(x.fragments, part)
        /\ t[j + 3].messages = x.messages
    BY <2>3, <2>4, PartDecodes
  <2>6. Mid(j + 1)
    BY <2>1, <2>3, <2>4, <2>5 DEF Mid
  <2> QED
    BY <2>1, <2>6
<1>9. Mid(n - 2)
  <2> HIDE DEF Mid
  <2>1. n - 2 \in Nat
    BY <1>1
  <2>2. \A j \in 0 .. n - 2 : j \in S
    <3> HIDE DEF S
    <3> QED
      BY <1>6, <1>8, <2>1, CountingUp
  <2> QED
    BY <2>1, <2>2
\* The last one.
<1> DEFINE x == t[n]
           f == fs[n + 1]
<1>10. /\ x \in State /\ f \in Framed /\ t[n + 1] = DecodeFrame(x, f)
       /\ ~ IsControl(f) /\ f.part = part /\ f.fin
       /\ Append(x.fragments, part) \in Seq(Nat)
       /\ Len(Append(x.fragments, part)) = n
       /\ \A i \in 1 .. n : Append(x.fragments, part)[i] = part
       /\ x.stop = "no" /\ Texts(x.messages) = <<>>
  <2>1. n - 2 \in 0 .. n - 2 /\ (n - 2) + 2 = n /\ (n - 2) + 3 = n + 1
    BY <1>1
  <2>2. x.stop = "no" /\ Texts(x.messages) = <<>>
    BY <1>9, <2>1
  <2> HIDE DEF Mid
  <2> QED
    BY <1>7, <1>9, <2>1, <2>2
<1> HIDE DEF x, f, Mid, S
<1>11. CASE Refused(x, f)
  <2>1. t[n + 1] = [x EXCEPT !.stop = "failed"]
    BY <1>10, <1>11 DEF DecodeFrame
  <2> QED
    BY <1>2, <1>10, <2>1 DEF Delivers, State
<1>12. CASE ~ Refused(x, f)
  <2>1. /\ t[n + 1].stop = "no" /\ t[n + 1].fragments = <<>>
        /\ Texts(t[n + 1].messages) = Append(<<>>, Append(x.fragments, part))
    <3> DEFINE y == DecodeFrame(x, f)
    <3>1. /\ y.stop = "no" /\ y.fragments = <<>>
          /\ Texts(y.messages) = Append(Texts(x.messages), Append(x.fragments, f.part))
      BY <1>10, <1>12, PartDecodes
    <3> HIDE DEF y
    <3>2. t[n + 1] = y
      BY <1>10 DEF y
    <3> QED
      BY <1>10, <3>1, <3>2
  <2>2. Append(x.fragments, part) = q
    <3>1. q \in Seq(Nat) /\ Len(q) = n /\ \A i \in 1 .. n : q[i] = part
      <4>1. q \in [1 .. n -> Nat]
        BY DEF q
      <4>2. q \in Seq(Nat)
        BY <1>1, <4>1, SeqDef
      <4> QED
        BY <1>1, <4>1, <4>2, LenProperties DEF q
    <3> QED
      BY <1>10, <3>1, SeqEqual
  <2> QED
    BY <1>2, <2>1, <2>2 DEF Delivers
<1> QED
  BY <1>11, <1>12

\* A close says at most its frame, and closes.
LEMMA ClosingCarries ==
  ASSUME NEW w \in Ends, w.closeSent => w.closed
  PROVE  /\ Closing(w).end \in Ends /\ Closing(w).end.closed
         /\ Closing(w).out \in Seq(Framed) /\ Carries(Closing(w).out, <<>>)
<1>1. CASE w.closeSent
  <2>1. Closing(w).end = w /\ Closing(w).out = <<>>
    BY <1>1 DEF Closing, Does
  <2>2. <<>> \in Seq(Framed) /\ \A i \in 1 .. Len(<<>>) : IsControl(<<>>[i])
    BY EmptySeq
  <2>3. Carries(<<>>, <<>>)
    BY <2>2, ControlsCarry
  <2> QED
    BY <1>1, <2>1, <2>2, <2>3
<1>2. CASE ~ w.closeSent
  <2> DEFINE f == Control("close")
             fs == <<f>>
             x == [Teardown(w) EXCEPT !.closeSent = TRUE]
  <2>1. Closing(w).end = x /\ Closing(w).out = fs
    BY <1>2 DEF Closing, Does
  <2>2. x \in Ends /\ x.closed
    BY DEF Ends, Teardown
  <2>3. f \in Framed /\ IsControl(f)
    BY DEF Control, EncodeFrame, Framed, Op, IsControl
  <2> HIDE DEF f, x
  <2>4. fs \in Seq(Framed) /\ \A i \in 1 .. Len(fs) : IsControl(fs[i])
    BY <2>3
  <2> HIDE DEF fs
  <2>5. Carries(fs, <<>>)
    BY <2>4, ControlsCarry
  <2> QED
    BY <2>1, <2>2, <2>4, <2>5
<1> QED
  BY <1>1, <1>2

\* Decoding that stopped at a close has it among its messages.
LEMMA CloseIsTold ==
  ASSUME NEW fs \in Seq(Framed), NEW F, NEW t, Decoding(t, F, fs), t[Len(fs)].stop = "close"
  PROVE  \E j \in 1 .. Len(t[Len(fs)].messages) : t[Len(fs)].messages[j].op = "close"
<1> DEFINE n == Len(fs)
           Told(d) == d.stop = "close" =>
                        \E j \in 1 .. Len(d.messages) : d.messages[j].op = "close"
           S == {i \in 0 .. n : Told(t[i])}
<1>1. n \in Nat
  BY LenProperties
<1>2. 0 \in S
  BY <1>1 DEF Decoding, Begins
<1>3. ASSUME NEW i \in 0 .. n - 1, i \in S
      PROVE  i + 1 \in S
  <2>1. i \in 0 .. n /\ i + 1 \in 1 .. n /\ i + 1 \in 0 .. n /\ (i + 1) - 1 = i
    BY <1>1
  <2> DEFINE d == t[i]
             x == t[i + 1]
             f == fs[i + 1]
  <2>2. x = DecodeFrame(d, f) /\ d \in State /\ f \in Framed
    BY <2>1, ElementOfSeq DEF Decoding
  <2>3. Told(d)
    BY <1>3
  <2> HIDE DEF d, x, f
  <2>4. ASSUME d.stop # "no"
        PROVE  Told(x)
    BY <2>2, <2>3, <2>4 DEF DecodeFrame
  <2>5. ASSUME d.stop = "no", x.stop = "close"
        PROVE  \E j \in 1 .. Len(x.messages) : x.messages[j].op = "close"
    <3>1. x = Decoded(d, f) /\ IsControl(f) /\ f.op = "close"
      BY <2>2, <2>5 DEF DecodeFrame, Decoded, State
    <3> DEFINE m == Decodes(f.op, <<>>)
    <3>2. m \in Whole /\ m.op = "close"
      BY <3>1, EmptySeq DEF Decodes, Whole
    <3> HIDE DEF m
    <3>3. x.messages = Append(d.messages, m) /\ d.messages \in Seq(Whole)
      BY <2>2, <3>1 DEF Decoded, State, m
    <3>4. /\ Len(x.messages) = Len(d.messages) + 1 /\ Len(d.messages) \in Nat
          /\ x.messages[Len(d.messages) + 1] = m
      BY <3>2, <3>3, AppendProperties, LenProperties
    <3>5. Len(d.messages) + 1 \in 1 .. Len(x.messages)
      BY <3>4
    <3> QED
      BY <3>2, <3>4, <3>5
  <2>6. Told(x)
    BY <2>2, <2>4, <2>5 DEF State
  <2> HIDE DEF Told
  <2> QED
    BY <2>1, <2>6 DEF x
<1>4. \A i \in 0 .. n : i \in S
  <2> HIDE DEF S, n
  <2> QED
    BY <1>1, <1>2, <1>3, CountingUp
<1> QED
  BY <1>1, <1>4

-----------------------------------------------------------------------------
\* What an end was handed, with what is buffered and on its way to it.

Pending(e) == Push(end[e], wire[e]).result
ToCome(e)  == received[e] \o Texts(Pending(e).messages)

\* An open end has been handed, or will be, what the other sent: all of it, unless the
\* network went silent or the other broke the protocol or said its close. What is under
\* way is whole frames of whole messages.
StreamIn(e) ==
  LET o == Other(e)
  IN  IF end[e].closed THEN IsPrefix(received[e], sent[o])
      ELSE /\ IsPrefix(ToCome(e), sent[o])
           /\ ~ vanished =>
                /\ (Len(end[e].buffer) + Len(wire[e])) % 2 = 0
                /\ Pending(e).stop = "no" =>
                     /\ Pending(e).fragments = <<>>
                     /\ ~ end[o].closed => ToCome(e) = sent[o]

TransferInv ==
  /\ WsInv
  /\ received \in [End -> Seq(Seq(Nat))]
  /\ dead \in [End -> BOOLEAN] /\ \A e \in End : dead[e] => end[e].closed
  /\ \A e \in End : StreamIn(e)

LEMMA TransferTypes ==
  ASSUME TransferInv, NEW e \in End
  PROVE  /\ Other(e) \in End /\ Other(e) # e /\ Other(Other(e)) = e
         /\ end[e] \in Ends /\ wire[e] \in Seq(Half) /\ end[e].buffer \in Seq(Half)
         /\ end[e].closed \in BOOLEAN /\ end[Other(e)] \in Ends
         /\ end[Other(e)].closed \in BOOLEAN
         /\ sent[Other(e)] \in Seq(Seq(Nat)) /\ received[e] \in Seq(Seq(Nat))
         /\ Pending(e) \in State /\ Texts(Pending(e).messages) \in Seq(Seq(Nat))
         /\ ToCome(e) \in Seq(Seq(Nat))
<1>1. Other(e) \in End /\ Other(e) # e /\ Other(Other(e)) = e
  BY TwoEnds
<1>2. /\ end[e] \in Ends /\ wire[e] \in Seq(Half) /\ end[Other(e)] \in Ends
      /\ sent[Other(e)] \in Seq(Seq(Nat)) /\ received[e] \in Seq(Seq(Nat))
  BY <1>1 DEF TransferInv, WsInv, WsTypes
<1>3. Pending(e) \in State
  BY <1>2, PushTypes DEF Pending
<1>4. Texts(Pending(e).messages) \in Seq(Seq(Nat))
  BY <1>3, TextsGrow DEF State
<1>5. ToCome(e) \in Seq(Seq(Nat))
  BY <1>2, <1>4, ConcatProperties DEF ToCome
<1>6. /\ end[e].buffer \in Seq(Half) /\ end[e].closed \in BOOLEAN
      /\ end[Other(e)].closed \in BOOLEAN
  BY <1>2 DEF Ends
<1> QED
  BY <1>1, <1>2, <1>3, <1>4, <1>5, <1>6

-----------------------------------------------------------------------------
\* What arrives, and what is read.

LEMMA PrefixMeans ==
  ASSUME NEW X, NEW s \in Seq(X), NEW v \in Seq(X)
  PROVE  IsPrefix(s, v) <=> \E u \in Seq(X) : v = s \o u
<1> DEFINE k == Len(s)
           n == Len(v)
<1>1. k \in Nat /\ n \in Nat
  BY LenProperties
<1>2. SubSeq(s, 1, k) = s /\ SubSeq(v, 1, n) = v
  BY SubSeqFull
<1>3. ASSUME IsPrefix(s, v)
      PROVE  \E u \in Seq(X) : v = s \o u
  <2>1. k <= n /\ SubSeq(s, 1, k) = SubSeq(v, 1, k)
    BY <1>3 DEF IsPrefix
  <2>2. \A i \in k + 1 .. n : v[i] \in X
    <3> SUFFICES ASSUME NEW i \in k + 1 .. n
                 PROVE  v[i] \in X
      OBVIOUS
    <3>1. i \in 1 .. n
      BY <1>1
    <3> QED
      BY <3>1, ElementOfSeq
  <2> HIDE DEF k
  <2>3. SubSeq(v, k + 1, n) \in Seq(X)
    <3>1. k + 1 \in Int /\ n \in Int
      BY <1>1
    <3> HIDE DEF n
    <3> QED
      BY <2>2, <3>1, SubSeqProperties
  <2>4. SubSeq(v, 1, k) \o SubSeq(v, k + 1, n) = SubSeq(v, 1, n)
    <3>1. 1 \in 1 .. n + 1 /\ k \in 1 - 1 .. n /\ n \in k .. n
      BY <1>1, <2>1
    <3> QED
      BY <3>1, ConcatAdjacentSubSeq
  <2>5. v = s \o SubSeq(v, k + 1, n)
    BY <1>2, <2>1, <2>4
  <2> QED
    BY <2>3, <2>5
<1>4. ASSUME NEW u \in Seq(X), v = s \o u
      PROVE  IsPrefix(s, v)
  <2>1. /\ n = k + Len(u) /\ Len(u) \in Nat
        /\ \A i \in 1 .. k + Len(u) : v[i] = IF i <= k THEN s[i] ELSE u[i - k]
    BY <1>4, ConcatProperties, LenProperties
  <2>2. /\ SubSeq(v, 1, k) \in Seq(X) /\ Len(SubSeq(v, 1, k)) = k
        /\ \A i \in 1 .. k : SubSeq(v, 1, k)[i] = v[i]
    <3>1. \A i \in 1 .. k : v[i] \in X
      <4> SUFFICES ASSUME NEW i \in 1 .. k
                   PROVE  v[i] \in X
        OBVIOUS
      <4>1. i \in 1 .. n
        BY <1>1, <2>1
      <4> QED
        BY <4>1, ElementOfSeq
    <3>2. 1 \in Int /\ k \in Int
      BY <1>1
    <3> HIDE DEF k
    <3>3. /\ SubSeq(v, 1, k) \in Seq(X)
          /\ Len(SubSeq(v, 1, k)) = IF 1 <= k THEN k - 1 + 1 ELSE 0
          /\ \A i \in 1 .. k - 1 + 1 : SubSeq(v, 1, k)[i] = v[1 + i - 1]
      BY <3>1, <3>2, SubSeqProperties
    <3> QED
      BY <1>1, <3>3
  <2> HIDE DEF k, n
  <2>3. \A i \in 1 .. k : SubSeq(v, 1, k)[i] = s[i]
    BY <1>1, <2>1, <2>2
  <2>4. SubSeq(v, 1, k) = s
    BY <2>2, <2>3, SeqEqual DEF k
  <2> QED
    BY <1>1, <1>2, <2>1, <2>4 DEF IsPrefix, k, n
<1> QED
  BY <1>3, <1>4

LEMMA PrefixJoins ==
  ASSUME NEW X, NEW s \in Seq(X), NEW u \in Seq(X), NEW v \in Seq(X)
  PROVE  /\ IsPrefix(s, s) /\ IsPrefix(s, s \o u)
         /\ IsPrefix(s \o u, v) => IsPrefix(s, v)
         /\ IsPrefix(s, v) => IsPrefix(s, v \o u)
<1>1. s \o u \in Seq(X) /\ v \o u \in Seq(X) /\ <<>> \in Seq(X) /\ s \o <<>> = s
  BY ConcatProperties, EmptySeq, ConcatEmptySeq
<1>2. IsPrefix(s, s) /\ IsPrefix(s, s \o u)
  BY <1>1, PrefixMeans
<1>3. ASSUME IsPrefix(s \o u, v)
      PROVE  IsPrefix(s, v)
  <2> DEFINE p == s \o u
  <2>1. p \in Seq(X) /\ IsPrefix(p, v)
    BY <1>1, <1>3
  <2> HIDE DEF p
  <2>2. PICK x \in Seq(X) : v = p \o x
    BY <2>1, PrefixMeans
  <2>3. (s \o u) \o x = s \o (u \o x)
    BY ConcatAssociative
  <2>4. u \o x \in Seq(X)
    BY ConcatProperties, Zenon
  <2>5. v = s \o (u \o x)
    BY <2>2, <2>3 DEF p
  <2> QED
    BY <2>4, <2>5, PrefixMeans
<1>4. ASSUME IsPrefix(s, v)
      PROVE  IsPrefix(s, v \o u)
  <2>1. PICK x \in Seq(X) : v = s \o x
    BY <1>4, PrefixMeans
  <2>2. (s \o x) \o u = s \o (x \o u)
    BY ConcatAssociative
  <2>3. x \o u \in Seq(X)
    BY ConcatProperties, Zenon
  <2>4. v \o u = s \o (x \o u)
    BY <2>1, <2>2
  <2> QED
    BY <1>1, <2>3, <2>4, PrefixMeans
<1> QED
  BY <1>2, <1>3, <1>4

InTurn(r, s, u) == r \o (s \o u) = (r \o s) \o u
LEMMA JoinsInTurn == \A r, s, u \in Seq(Seq(Nat)) : InTurn(r, s, u)
<1>1. ASSUME NEW X, NEW r \in Seq(X), NEW s \in Seq(X), NEW u \in Seq(X)
      PROVE  (r \o s) \o u = r \o (s \o u)
  BY ConcatAssociative
<1>2. ASSUME NEW X, NEW r \in Seq(X), NEW s \in Seq(X), NEW u \in Seq(X)
      PROVE  InTurn(r, s, u)
  BY <1>1 DEF InTurn
<1> QED
  BY <1>2

\* Behind whole frames, frames are read as they were written.
LEMMA FramesArrive ==
  ASSUME NEW w \in Ends, NEW c \in Seq(Half), (Len(w.buffer) + Len(c)) % 2 = 0,
         NEW fs \in Seq(Framed)
  PROVE  LET p == Push(w, c)
         IN  \E t : /\ Decoding(t, p.result.fragments, fs)
                    /\ Push(Left(w, p), Halves(fs)).result = t[Len(fs)]
<1> DEFINE p == Push(w, c)
           v == Left(w, p)
           b == w.buffer \o c
           h == Halves(fs)
           n == Len(fs)
<1>1. /\ b \in Seq(Half) /\ Len(b) = Len(w.buffer) + Len(c) /\ p.buffer = Remainder(b)
  BY PushDecodes
<1>2. Remainder(b) = <<>>
  <2> HIDE DEF b
  <2>1. Len(b) \in Nat /\ Len(b) % 2 = 0
    BY <1>1, LenProperties
  <2>2. /\ 2 * (Len(b) \div 2) + 1 \in Int /\ Len(b) \in Int
        /\ Len(b) < 2 * (Len(b) \div 2) + 1
    BY <2>1
  <2> QED
    BY <2>2, SubSeqEmpty DEF Remainder
<1>3. v \in Ends
  BY PushSplits
<1>4. p.result \in State
  BY PushTypes
<1> HIDE DEF p, b
<1>5. v.buffer = <<>> /\ v.fragments = p.result.fragments
  BY <1>1, <1>2, <1>4 DEF Left, Ends, State
<1> HIDE DEF v
<1>6. /\ h \in Seq(Half) /\ Len(h) = 2 * n
      /\ \A i \in 1 .. 2 * n : h[i][1] = fs[(i + 1) \div 2]
  BY HalvesOf
<1>7. n \in Nat
  BY LenProperties
<1> HIDE DEF h
<1>8. PICK t : Decoding(t, v.fragments, WholeFrames(v.buffer \o h))
               /\ Push(v, h).result = t[Len(WholeFrames(v.buffer \o h))]
  BY <1>3, <1>6, PushDecodes
<1>9. WholeFrames(v.buffer \o h) = fs
  <2>1. v.buffer \o h = h
    BY <1>5, <1>6, ConcatEmptySeq
  <2> DEFINE gs == WholeFrames(h)
  <2>2. /\ gs \in Seq(Framed) /\ Len(gs) = Len(h) \div 2
        /\ \A i \in 1 .. Len(gs) : gs[i] = h[2 * i][1]
    <3>1. LET x  == v.buffer \o h
              ts == WholeFrames(x)
          IN  /\ ts \in Seq(Framed) /\ Len(ts) = Len(x) \div 2
              /\ \A i \in 1 .. Len(ts) : ts[i] = x[2 * i][1]
      BY <1>3, <1>6, PushDecodes
    <3> QED
      BY <2>1, <3>1
  <2> HIDE DEF gs, n
  <2>3. Len(gs) = n
    BY <1>6, <1>7, <2>2
  <2>4. ASSUME NEW i \in 1 .. Len(gs)
        PROVE  gs[i] = fs[i]
    <3>1. 2 * i \in 1 .. 2 * n /\ (2 * i + 1) \div 2 = i
      BY <1>7, <2>3
    <3>2. h[2 * i][1] = fs[(2 * i + 1) \div 2]
      BY <1>6, <3>1
    <3> QED
      BY <2>2, <3>1, <3>2
  <2> QED
    BY <2>1, <2>2, <2>3, <2>4, SeqEqual DEF gs, n
<1> QED
  BY <1>5, <1>8, <1>9 DEF p, v, h

\* What follows whole frames of whole messages adds its texts to what is to come.
LEMMA TextsArrive ==
  ASSUME NEW w \in Ends, NEW c \in Seq(Half), (Len(w.buffer) + Len(c)) % 2 = 0,
         Push(w, c).result.stop = "no", Push(w, c).result.fragments = <<>>,
         NEW fs \in Seq(Framed), NEW ts \in Seq(Seq(Nat)), Carries(fs, ts)
  PROVE  LET p == Push(w, c).result
             q == Push(w, c \o Halves(fs)).result
         IN  \/ q.stop # "no" /\ Texts(q.messages) = Texts(p.messages)
             \/ /\ q.stop = "no" /\ q.fragments = <<>>
                /\ Texts(q.messages) = Texts(p.messages) \o ts
<1> DEFINE p == Push(w, c)
           h == Halves(fs)
           v == Left(w, p)
           q == Push(w, c \o h).result
<1>1. h \in Seq(Half)
  BY HalvesOf
<1>2. PICK t : Decoding(t, p.result.fragments, fs) /\ Push(v, h).result = t[Len(fs)]
  BY FramesArrive
<1> HIDE DEF h
<1>3. q = After(p.result, Push(v, h).result)
  BY <1>1, PushSplits
<1>4. p.result \in State
  BY PushTypes
<1> DEFINE x == t[Len(fs)]
           d == p.result
<1>5. x \in State /\ d \in State /\ q = After(d, x) /\ d.stop = "no" /\ d.fragments = <<>>
  <2>1. Len(fs) \in 0 .. Len(fs)
    BY LenProperties
  <2> QED
    BY <1>2, <1>3, <1>4, <2>1 DEF Decoding
<1>6. Delivers(x, ts)
  BY <1>2, <1>5 DEF Carries
<1> HIDE DEF p, v, x, d, q
<1>7. d.messages \in Seq(Whole) /\ x.messages \in Seq(Whole)
  BY <1>5 DEF State
<1>8. /\ q.stop = x.stop /\ q.fragments = x.fragments
      /\ q.messages = d.messages \o x.messages
  BY <1>5 DEF After
<1>9. /\ Texts(q.messages) = Texts(d.messages) \o Texts(x.messages)
      /\ Texts(d.messages) \in Seq(Seq(Nat))
  BY <1>7, <1>8, TextsJoin, TextsGrow
<1>10. Texts(d.messages) \o <<>> = Texts(d.messages)
  BY <1>9, ConcatEmptySeq
<1>11. \/ q.stop # "no" /\ Texts(q.messages) = Texts(d.messages)
       \/ /\ q.stop = "no" /\ q.fragments = <<>>
          /\ Texts(q.messages) = Texts(d.messages) \o ts
  BY <1>6, <1>8, <1>9, <1>10 DEF Delivers
<1> QED
  BY <1>11 DEF p, q, d, h

\* What a method of the other end sent, or did not, is to come (the receiver untouched).
LEMMA MoreArrives ==
  ASSUME TransferInv, NEW e \in End,
         NEW fs \in Seq(Framed), NEW ts \in Seq(Seq(Nat)), Carries(fs, ts),
         NEW c \in BOOLEAN,
         end'[e].buffer = end[e].buffer, end'[e].fragments = end[e].fragments,
         end'[e].closed = end[e].closed, received'[e] = received[e],
         sent'[Other(e)] = sent[Other(e)] \o ts, ts = <<>> \/ ~ end[Other(e)].closed,
         end[Other(e)].closed => end'[Other(e)].closed,
         vanished' = vanished, c => ~ vanished,
         ~ end[e].closed =>
           /\ wire'[e] = IF c THEN wire[e] \o Halves(fs) ELSE wire[e]
           /\ ~ vanished /\ ~ end'[Other(e)].closed => c
  PROVE  StreamIn(e)'
<1> DEFINE o == Other(e)
           w == end[e]
           p == Push(w, wire[e]).result
           q == Push(w, wire'[e]).result
           h == Halves(fs)
<1>1. /\ w \in Ends /\ wire[e] \in Seq(Half) /\ w.buffer \in Seq(Half)
      /\ sent[o] \in Seq(Seq(Nat)) /\ received[e] \in Seq(Seq(Nat))
      /\ p \in State /\ Texts(p.messages) \in Seq(Seq(Nat))
      /\ received[e] \o Texts(p.messages) \in Seq(Seq(Nat))
      /\ w.closed \in BOOLEAN
  BY TransferTypes DEF Pending, ToCome
<1>2. /\ w.closed => IsPrefix(received[e], sent[o])
      /\ ~ w.closed =>
           /\ IsPrefix(received[e] \o Texts(p.messages), sent[o])
           /\ ~ vanished =>
                /\ (Len(w.buffer) + Len(wire[e])) % 2 = 0
                /\ p.stop = "no" =>
                     /\ p.fragments = <<>>
                     /\ ~ end[o].closed => received[e] \o Texts(p.messages) = sent[o]
  BY DEF TransferInv, StreamIn, Pending, ToCome
<1>3. Pending(e)' = q
  BY SamePush DEF Pending
<1>4. \A s \in Seq(Seq(Nat)) : IsPrefix(s, sent[o]) => IsPrefix(s, sent'[o])
  BY <1>1, PrefixJoins
<1>5. CASE w.closed
  BY <1>1, <1>2, <1>4, <1>5 DEF StreamIn
<1>6. CASE ~ w.closed
  <2> DEFINE all == received[e] \o Texts(q.messages)
  <2>1. /\ IsPrefix(all, sent'[o])
        /\ ~ vanished =>
             /\ (Len(w.buffer) + Len(wire'[e])) % 2 = 0
             /\ q.stop = "no" =>
                  /\ q.fragments = <<>>
                  /\ ~ end'[o].closed => all = sent'[o]
    <3>1. CASE ~ c
      <4>1. q = p /\ wire'[e] = wire[e] /\ (vanished \/ end'[o].closed)
        BY <1>6, <3>1
      <4> HIDE DEF p, q
      <4> QED
        BY <1>1, <1>2, <1>4, <1>6, <4>1
    <3>2. CASE c
      <4>1. wire'[e] = wire[e] \o h /\ ~ vanished
        BY <1>6, <3>2
      <4>2. h \in Seq(Half) /\ Len(h) = 2 * Len(fs) /\ Len(fs) \in Nat
        BY HalvesOf, LenProperties
      <4> HIDE DEF h
      <4>3. (Len(w.buffer) + Len(wire'[e])) % 2 = 0
        <5> DEFINE a == Len(w.buffer)
                   b == Len(wire[e])
                   n == Len(fs)
        <5>1. /\ Len(wire'[e]) = b + 2 * n
              /\ a \in Nat /\ b \in Nat /\ n \in Nat /\ (a + b) % 2 = 0
          <6>1. a \in Nat /\ b \in Nat /\ n \in Nat
            BY <1>1, LenProperties
          <6>2. Len(wire'[e]) = b + Len(h)
            <7>1. \A s, u \in Seq(Half) : Len(s \o u) = Len(s) + Len(u)
              BY ConcatProperties
            <7> QED
              BY <1>1, <4>1, <4>2, <7>1
          <6>3. (a + b) % 2 = 0
            BY <1>2, <1>6, <4>1
          <6> QED
            BY <4>2, <6>1, <6>2, <6>3
        <5> HIDE DEF a, b, n
        <5>2. (a + (b + 2 * n)) % 2 = 0
          BY <5>1
        <5> QED
          BY <5>1, <5>2 DEF a
      <4>4. CASE p.stop # "no"
        <5>1. q = p
          <6>1. Push(w, wire[e] \o h).result = p
            BY <1>1, <4>2, <4>4, PushSplits
          <6> QED
            BY <4>1, <6>1
        <5> HIDE DEF p, q
        <5> QED
          BY <1>1, <1>2, <1>4, <1>6, <4>3, <4>4, <5>1
      <4>5. CASE p.stop = "no"
        <5>1. \/ q.stop # "no" /\ Texts(q.messages) = Texts(p.messages)
              \/ /\ q.stop = "no" /\ q.fragments = <<>>
                 /\ Texts(q.messages) = Texts(p.messages) \o ts
          <6>1. p.fragments = <<>> /\ (Len(w.buffer) + Len(wire[e])) % 2 = 0
            BY <1>2, <1>6, <4>1, <4>5
          <6>2. LET x == Push(w, wire[e]).result
                    y == Push(w, wire[e] \o Halves(fs)).result
                IN  \/ y.stop # "no" /\ Texts(y.messages) = Texts(x.messages)
                    \/ /\ y.stop = "no" /\ y.fragments = <<>>
                       /\ Texts(y.messages) = Texts(x.messages) \o ts
            BY <1>1, <4>5, <6>1, TextsArrive
          <6> QED
            BY <4>1, <6>2 DEF h
        <5> HIDE DEF p, q
        <5>2. /\ IsPrefix(received[e] \o Texts(p.messages), sent[o])
              /\ ~ end[o].closed => received[e] \o Texts(p.messages) = sent[o]
          BY <1>2, <1>6, <4>1, <4>5
        <5>3. received[e] \o (Texts(p.messages) \o ts)
                = (received[e] \o Texts(p.messages)) \o ts
          <6> DEFINE r == received[e]
                     x == Texts(p.messages)
          <6>1. r \in Seq(Seq(Nat)) /\ x \in Seq(Seq(Nat)) /\ ts \in Seq(Seq(Nat))
            BY <1>1
          <6> HIDE DEF r, x
          <6>2. InTurn(r, x, ts)
            BY <6>1, JoinsInTurn
          <6> QED
            BY <6>2 DEF InTurn, r, x
        <5>4. CASE q.stop # "no"
          BY <1>1, <1>4, <4>3, <5>1, <5>2, <5>4
        <5>5. CASE q.stop = "no"
          <6>1. all = (received[e] \o Texts(p.messages)) \o ts
            BY <5>1, <5>3, <5>5
          <6>2. CASE ~ end[o].closed
            <7>1. all = sent'[o]
              BY <5>2, <6>1, <6>2
            <7>2. sent'[o] \in Seq(Seq(Nat))
              BY <1>1, ConcatProperties
            <7>3. IsPrefix(all, sent'[o])
              BY <7>1, <7>2, PrefixJoins
            <7> QED
              BY <4>3, <5>1, <5>5, <7>1, <7>3
          <6>3. CASE end[o].closed
            <7>1. ts = <<>> /\ end'[o].closed
              BY <6>3
            <7>2. all = received[e] \o Texts(p.messages)
              BY <1>1, <6>1, <7>1, ConcatEmptySeq
            <7> QED
              BY <1>1, <1>4, <4>3, <5>1, <5>2, <5>5, <7>1, <7>2
          <6> QED
            BY <6>2, <6>3
        <5> QED
          BY <5>4, <5>5
      <4> QED
        BY <4>4, <4>5
    <3> QED
      BY <3>1, <3>2
  <2> HIDE DEF q
  <2> QED
    BY <1>3, <1>6, <2>1 DEF StreamIn, ToCome
<1> QED
  BY <1>5, <1>6

\* What is read is the front of what is on its way.
LEMMA CutWire ==
  ASSUME NEW s \in Seq(Half), NEW n \in 0 .. Len(s)
  PROVE  LET c == SubSeq(s, 1, n)
             d == SubSeq(s, n + 1, Len(s))
         IN  /\ c \in Seq(Half) /\ d \in Seq(Half) /\ s = c \o d
             /\ Len(c) = n /\ Len(d) = Len(s) - n
<1> DEFINE l == Len(s)
<1>1. l \in Nat /\ n \in Nat /\ n <= l
  BY LenProperties
<1>2. \A i \in 1 .. l : s[i] \in Half
  BY ElementOfSeq
<1>3. SubSeq(s, 1, l) = s
  BY SubSeqFull
<1>4. SubSeq(s, 1, n) \o SubSeq(s, n + 1, l) = SubSeq(s, 1, l)
  <2>1. 1 \in 1 .. l + 1 /\ n \in 1 - 1 .. l /\ l \in n .. l
    BY <1>1
  <2> QED
    BY <2>1, ConcatAdjacentSubSeq
<1> HIDE DEF l
<1>5. SubSeq(s, 1, n) \in Seq(Half) /\ Len(SubSeq(s, 1, n)) = n
  <2>1. (\A i \in 1 .. n : s[i] \in Half) /\ 1 \in Int /\ n \in Int
    BY <1>1, <1>2
  <2>2. /\ SubSeq(s, 1, n) \in Seq(Half)
        /\ Len(SubSeq(s, 1, n)) = IF 1 <= n THEN n - 1 + 1 ELSE 0
    BY <2>1, SubSeqProperties
  <2> QED
    BY <1>1, <2>2
<1>6. SubSeq(s, n + 1, l) \in Seq(Half) /\ Len(SubSeq(s, n + 1, l)) = l - n
  <2>1. (\A i \in n + 1 .. l : s[i] \in Half) /\ n + 1 \in Int /\ l \in Int
    BY <1>1, <1>2
  <2>2. /\ SubSeq(s, n + 1, l) \in Seq(Half)
        /\ Len(SubSeq(s, n + 1, l)) = IF n + 1 <= l THEN l - (n + 1) + 1 ELSE 0
    BY <2>1, SubSeqProperties
  <2> QED
    BY <1>1, <2>2
<1> QED
  BY <1>3, <1>4, <1>5, <1>6 DEF l

\* A read of an open end: r is what its method made of the messages that w completes with
\* the halves c. An outcome that failed closes the end and drops them; another hands them
\* on, and leaves an end open only if there is no close among them.
Reads(w, c, r, before, after) ==
  LET p == Push(w, c)
  IN  \/ p.result.stop = "failed" /\ r.end.closed /\ after = before
      \/ /\ p.result.stop # "failed" /\ after = before \o Texts(p.result.messages)
         /\ ~ r.end.closed =>
              /\ p.result.stop = "no" /\ r.end.buffer = p.buffer
              /\ r.end.fragments = p.result.fragments

LEMMA ReadKeepsStream ==
  ASSUME TransferInv, NEW e \in End, ~ end[e].closed, NEW n \in 1 .. Len(wire[e]),
         NEW r, r.end \in Ends, end'[e] = Settled(r.end),
         Reads(end[e], SubSeq(wire[e], 1, n), r, received[e], received'[e]),
         wire'[e] = IF r.end.closed THEN <<>> ELSE SubSeq(wire[e], n + 1, Len(wire[e])),
         end'[Other(e)].closed = end[Other(e)].closed, sent'[Other(e)] = sent[Other(e)],
         vanished' = vanished
  PROVE  /\ StreamIn(e)'
         /\ received'[e] \in Seq(Seq(Nat)) /\ IsPrefix(received[e], received'[e])
         /\ IsPrefix(received'[e], sent[Other(e)])
<1> DEFINE o == Other(e)
           c == SubSeq(wire[e], 1, n)
           d == SubSeq(wire[e], n + 1, Len(wire[e]))
           u == end[e]
           p == Push(u, c)
           v == Left(u, p)
           q == Push(v, d).result
           all == Pending(e)
<1>1. /\ u \in Ends /\ wire[e] \in Seq(Half) /\ u.buffer \in Seq(Half)
      /\ sent[o] \in Seq(Seq(Nat)) /\ received[e] \in Seq(Seq(Nat))
      /\ all \in State
  BY TransferTypes
<1>2. /\ IsPrefix(received[e] \o Texts(all.messages), sent[o])
      /\ ~ vanished =>
           /\ (Len(u.buffer) + Len(wire[e])) % 2 = 0
           /\ all.stop = "no" =>
                /\ all.fragments = <<>>
                /\ ~ end[o].closed => received[e] \o Texts(all.messages) = sent[o]
  BY DEF TransferInv, StreamIn, ToCome
<1>3. /\ c \in Seq(Half) /\ d \in Seq(Half) /\ wire[e] = c \o d
      /\ Len(c) = n /\ Len(d) = Len(wire[e]) - n
  <2>1. n \in 0 .. Len(wire[e])
    BY <1>1, LenProperties
  <2> QED
    BY <1>1, <2>1, CutWire
<1>4. Reads(u, c, r, received[e], received'[e])
  OBVIOUS
<1>5. wire'[e] = IF r.end.closed THEN <<>> ELSE d
  OBVIOUS
<1> HIDE DEF c, d
<1>6. p.result \in State /\ v \in Ends
      /\ all = IF p.result.stop = "no" THEN After(p.result, q) ELSE p.result
  <2>1. all = Push(u, c \o d).result
    BY <1>3 DEF Pending
  <2>2. p.result \in State
    BY <1>1, <1>3, PushTypes
  <2> QED
    BY <1>1, <1>3, <2>1, <2>2, PushSplits
<1>7. q \in State
  BY <1>3, <1>6, PushTypes
<1> DEFINE x == Texts(p.result.messages)
           y == Texts(q.messages)
           got == received[e] \o x
<1> HIDE DEF p, v, q, all
<1>8. x \in Seq(Seq(Nat)) /\ y \in Seq(Seq(Nat)) /\ got \in Seq(Seq(Nat))
  <2>1. x \in Seq(Seq(Nat)) /\ y \in Seq(Seq(Nat))
    BY <1>6, <1>7, TextsGrow DEF State
  <2> HIDE DEF x
  <2> QED
    BY <1>1, <2>1, ConcatProperties
<1>9. /\ p.result.stop = "no" =>
           /\ received[e] \o Texts(all.messages) = got \o y
           /\ all.stop = q.stop /\ all.fragments = q.fragments
      /\ p.result.stop # "no" => received[e] \o Texts(all.messages) = got
  <2>1. CASE p.result.stop = "no"
    <3>1. /\ all.messages = p.result.messages \o q.messages
          /\ all.stop = q.stop /\ all.fragments = q.fragments
      BY <1>6, <2>1 DEF After
    <3>2. Texts(all.messages) = x \o y
      BY <1>6, <1>7, <3>1, TextsJoin DEF State
    <3> HIDE DEF x, y
    <3>3. InTurn(received[e], x, y)
      BY <1>1, <1>8, JoinsInTurn
    <3> QED
      BY <2>1, <3>1, <3>2, <3>3 DEF InTurn
  <2>2. CASE p.result.stop # "no"
    BY <1>6, <2>2
  <2> QED
    BY <2>1, <2>2
<1> HIDE DEF y
<1>10. /\ IsPrefix(got, sent[o]) /\ IsPrefix(received[e], got)
       /\ IsPrefix(received[e], sent[o]) /\ IsPrefix(received[e], received[e])
  <2> HIDE DEF x
  <2>1. IsPrefix(got, sent[o])
    <3> HIDE DEF got
    <3>1. IsPrefix(got \o y, sent[o]) \/ IsPrefix(got, sent[o])
      BY <1>2, <1>6, <1>9 DEF State
    <3> QED
      BY <1>1, <1>8, <3>1, PrefixJoins
  <2>2. IsPrefix(received[e], got) /\ IsPrefix(received[e], received[e])
    BY <1>1, <1>8, PrefixJoins
  <2>3. IsPrefix(received[e], sent[o])
    BY <1>1, <1>8, <2>1, PrefixJoins
  <2> QED
    BY <2>1, <2>2, <2>3
<1>11. received'[e] = received[e] \/ received'[e] = got
  BY <1>4 DEF Reads, p
<1> HIDE DEF got
<1>12. /\ received'[e] \in Seq(Seq(Nat)) /\ IsPrefix(received[e], received'[e])
       /\ IsPrefix(received'[e], sent[o])
  BY <1>1, <1>8, <1>10, <1>11
<1>13. CASE r.end.closed
  <2>1. end'[e].closed
    BY <1>13, SettledKeeps
  <2> QED
    BY <1>12, <2>1 DEF StreamIn
<1>14. CASE ~ r.end.closed
  <2>1. end'[e] = r.end /\ wire'[e] = d
    BY <1>5, <1>14 DEF Settled
  <2>2. /\ p.result.stop = "no" /\ received'[e] = got
        /\ r.end.buffer = p.buffer /\ r.end.fragments = p.result.fragments
    BY <1>4, <1>14 DEF Reads, p, got, x
  <2>3. v.buffer = p.buffer /\ v.fragments = p.result.fragments
    BY <1>1 DEF v, Left, Ends
  <2>4. Pending(e)' = q
    <3>1. Push(r.end, d) = Push(v, d)
      BY <2>2, <2>3, SamePush
    <3> QED
      BY <2>1, <3>1 DEF Pending, q
  <2>5. ToCome(e)' = got \o y
    BY <2>2, <2>4 DEF ToCome, y
  <2>6. IsPrefix(got \o y, sent[o])
    BY <1>2, <1>9, <2>2
  <2>7. ASSUME ~ vanished
        PROVE  (Len(p.buffer) + Len(d)) % 2 = 0
    <3> DEFINE a == Len(u.buffer)
               l == Len(wire[e])
    <3>1. a \in Nat /\ l \in Nat /\ n \in 1 .. l /\ (a + l) % 2 = 0 /\ Len(d) = l - n
      BY <1>1, <1>2, <1>3, <2>7, LenProperties
    <3>2. Len(p.buffer) = (a + n) % 2
      <4> DEFINE b == u.buffer \o c
      <4>1. b \in Seq(Half) /\ Len(b) = a + n /\ p.buffer = Remainder(b)
        BY <1>1, <1>3, PushDecodes DEF p
      <4> HIDE DEF b, a
      <4> QED
        BY <4>1, RemainderLength
    <3> HIDE DEF a, l
    <3>3. (((a + n) % 2) + (l - n)) % 2 = 0
      BY <3>1
    <3> QED
      BY <3>1, <3>2, <3>3
  <2>8. ASSUME ~ vanished, q.stop = "no"
        PROVE  q.fragments = <<>> /\ (~ end[o].closed => got \o y = sent[o])
    BY <1>2, <1>9, <2>2, <2>8
  <2>9. /\ (~ end'[e].closed) /\ IsPrefix(ToCome(e)', sent'[o])
        /\ ~ vanished' =>
             /\ (Len(end'[e].buffer) + Len(wire'[e])) % 2 = 0
             /\ Pending(e)'.stop = "no" =>
                  /\ Pending(e)'.fragments = <<>>
                  /\ ~ end'[o].closed => ToCome(e)' = sent'[o]
    BY <1>14, <2>1, <2>2, <2>4, <2>5, <2>6, <2>7, <2>8
  <2>10. StreamIn(e)'
    BY <2>9 DEF StreamIn
  <2> QED
    BY <1>12, <2>10
<1> QED
  BY <1>13, <1>14

-----------------------------------------------------------------------------
\* The steps keep the transfer.

\* A receiver and what is on its way to it, left alone; the sender may close.
LEMMA StreamStays ==
  ASSUME TransferInv, NEW e \in End,
         end'[e].buffer = end[e].buffer, end'[e].fragments = end[e].fragments,
         end'[e].closed = end[e].closed, wire'[e] = wire[e], received'[e] = received[e],
         sent'[Other(e)] = sent[Other(e)], vanished' = vanished,
         end[Other(e)].closed => end'[Other(e)].closed
  PROVE  StreamIn(e)'
<1>1. Pending(e)' = Pending(e)
  BY SamePush DEF Pending
<1>2. end[Other(e)].closed \in BOOLEAN /\ end[e].closed \in BOOLEAN
  BY TransferTypes
<1> QED
  BY <1>1, <1>2 DEF TransferInv, StreamIn, ToCome

\* What an end was handed, the other has sent.
LEMMA HandedWasSent ==
  ASSUME TransferInv, NEW e \in End
  PROVE  IsPrefix(received[e], sent[Other(e)])
<1> DEFINE x == Texts(Pending(e).messages)
<1>1. /\ received[e] \in Seq(Seq(Nat)) /\ sent[Other(e)] \in Seq(Seq(Nat))
      /\ x \in Seq(Seq(Nat))
  BY TransferTypes
<1>2. IsPrefix(received[e], sent[Other(e)]) \/ IsPrefix(received[e] \o x, sent[Other(e)])
  BY DEF TransferInv, StreamIn, ToCome
<1> HIDE DEF x
<1> QED
  BY <1>1, <1>2, PrefixJoins

\* A closed end keeps what it was handed.
LEMMA ClosedKeepsStream ==
  ASSUME TransferInv, NEW e \in End, end'[e].closed, received'[e] = received[e],
         sent'[Other(e)] = sent[Other(e)]
  PROVE  StreamIn(e)'
BY HandedWasSent DEF StreamIn

\* What a method of s wrote goes to the other end, which is not touched.
LEMMA CommitArrives ==
  ASSUME TransferInv, NEW s \in End, NEW n, NEW r, r.end \in Ends, r.out \in Seq(Framed),
         end[s].closed => r.end.closed, Commits(s, n, r),
         NEW ts \in Seq(Seq(Nat)), Carries(r.out, ts), ts = <<>> \/ ~ end[s].closed,
         received'[Other(s)] = received[Other(s)], sent'[s] = sent[s] \o ts,
         vanished' = vanished
  PROVE  StreamIn(Other(s))' /\ end'[Other(s)] = end[Other(s)] /\ end'[s] = Settled(r.end)
<1> DEFINE e == Other(s)
           c == Carried(s)
<1>1. e \in End /\ e # s /\ Other(e) = s
  BY TwoEnds
<1>2. /\ end \in [End -> Ends] /\ wire \in [End -> Seq(Half)]
      /\ (dead[s] => end[s].closed)
  BY DEF TransferInv, WsInv, WsTypes
<1>3. /\ end' = [end EXCEPT ![s] = Settled(r.end)]
      /\ wire' = [wire EXCEPT ![s] = IF r.end.closed THEN <<>>
                                     ELSE SubSeq(@, n + 1, Len(@)),
                              ![e] = IF c THEN @ \o Halves(r.out) ELSE @]
  BY DEF Commits
<1>4. end'[e] = end[e] /\ end'[s] = Settled(r.end) /\ end'[s].closed = r.end.closed
  BY <1>1, <1>2, <1>3, SettledKeeps
<1>5. wire'[e] = IF c THEN wire[e] \o Halves(r.out) ELSE wire[e]
  BY <1>1, <1>2, <1>3
<1>6. c \in BOOLEAN /\ (c => ~ vanished)
      /\ (~ end[e].closed /\ ~ vanished /\ ~ end'[s].closed => c)
  BY <1>1, <1>2, <1>4 DEF Carried
<1>7. /\ end'[e].buffer = end[e].buffer /\ end'[e].fragments = end[e].fragments
      /\ end'[e].closed = end[e].closed /\ received'[e] = received[e]
      /\ sent'[Other(e)] = sent[Other(e)] \o ts /\ (ts = <<>> \/ ~ end[Other(e)].closed)
      /\ end[Other(e)].closed => end'[Other(e)].closed
      /\ ~ end[e].closed /\ ~ vanished /\ ~ end'[Other(e)].closed => c
  BY <1>1, <1>4, <1>6
<1> HIDE DEF c, e
<1>8. StreamIn(e)'
  BY <1>1, <1>5, <1>6, <1>7, MoreArrives
<1> QED
  BY <1>4, <1>8 DEF e

\* The parts of a step.
LEMMA StepKeepsTransfer ==
  ASSUME TransferInv, WsInv', NEW s \in End, StreamIn(s)', StreamIn(Other(s))',
         received' \in [End -> Seq(Seq(Nat))], dead' \in [End -> BOOLEAN],
         \A e \in End : dead'[e] => end'[e].closed
  PROVE  TransferInv'
<1>1. \A e \in End : e = s \/ e = Other(s)
  BY DEF End, Other
<1>2. \A e \in End : StreamIn(e)'
  <2> SUFFICES ASSUME NEW e \in End
               PROVE  StreamIn(e)'
    OBVIOUS
  <2>1. CASE e = s
    BY <2>1
  <2>2. CASE e = Other(s)
    BY <2>2
  <2> QED
    BY <1>1, <2>1, <2>2
<1> QED
  BY <1>2 DEF TransferInv

\* An end that is not closed says the frames of a message, or frames of none.
LEMMA SpeakingKeepsTransfer ==
  ASSUME TransferInv, WsInv', NEW s \in End, ~ end[s].closed, NEW x \in Ends,
         x.buffer = end[s].buffer, x.fragments = end[s].fragments,
         x.closed = end[s].closed,
         NEW fs \in Seq(Framed), NEW ts \in Seq(Seq(Nat)), Carries(fs, ts),
         Commits(s, 0, Does(x, fs)), sent' = [sent EXCEPT ![s] = @ \o ts],
         UNCHANGED <<dead, vanished, received>>
  PROVE  TransferInv'
<1> DEFINE o == Other(s)
           r == Does(x, fs)
<1>1. o \in End /\ o # s /\ Other(o) = s
  BY TwoEnds
<1>2. /\ end \in [End -> Ends] /\ wire \in [End -> Seq(Half)]
      /\ sent \in [End -> Seq(Seq(Nat))] /\ received \in [End -> Seq(Seq(Nat))]
      /\ dead \in [End -> BOOLEAN] /\ \A e \in End : dead[e] => end[e].closed
  BY DEF TransferInv, WsInv, WsTypes
<1>3. r.end = x /\ r.out = fs /\ Commits(s, 0, r)
  BY DEF Does
<1>4. sent'[s] = sent[s] \o ts /\ sent'[o] = sent[o]
  BY <1>1, <1>2
<1> HIDE DEF r
<1>5. StreamIn(o)' /\ end'[o] = end[o] /\ end'[s] = Settled(x)
  BY <1>3, <1>4, CommitArrives
<1>6. end'[s] = x
  BY <1>5 DEF Settled
<1>7. wire'[s] = wire[s]
  <2>1. wire'[s] = SubSeq(wire[s], 1, Len(wire[s]))
    BY <1>1, <1>2, <1>3 DEF Commits
  <2>2. wire[s] \in Seq(Half)
    BY <1>2
  <2> QED
    BY <2>1, <2>2, SubSeqFull
<1> HIDE DEF o
<1>8. StreamIn(s)'
  BY <1>4, <1>5, <1>6, <1>7, StreamStays DEF o
<1>9. \A e \in End : dead'[e] => end'[e].closed
  BY <1>1, <1>2, <1>5, <1>6 DEF End, Other, o
<1> QED
  BY <1>2, <1>5, <1>8, <1>9, StepKeepsTransfer DEF o

\* A message more is the sequence of it, behind.
LEMMA OneMore ==
  ASSUME NEW q \in Seq(Nat)
  PROVE  /\ <<q>> \in Seq(Seq(Nat))
         /\ \A s \in Seq(Seq(Nat)) : Append(s, q) = s \o <<q>>
<1> DEFINE X == Seq(Nat)
<1> HIDE DEF X
<1>1. q \in X => <<q>> \in Seq(X) /\ \A s \in Seq(X) : Append(s, q) = s \o <<q>>
  BY AppendIsConcat
<1> QED
  BY <1>1 DEF X

\* send, of either end.
LEMMA SendKeepsTransfer ==
  ASSUME TransferInv, WsInv', NEW e \in End, Send(e)
  PROVE  TransferInv'
<1> DEFINE part == NextText(e)
           f == Text(part)
           m == <<part>>
<1>1. end[e] \in Ends /\ sent \in [End -> Seq(Seq(Nat))]
  BY DEF TransferInv, WsInv, WsTypes
<1>2. part \in Nat
  BY <1>1, LenProperties DEF NextText
<1>3. f \in Framed /\ f.op # "close" /\ Carries(<<f>>, <<m>>)
  BY <1>2, PeerFrames, TextCarries
<1>4. m \in Seq(Nat)
  BY <1>2
<1>5. /\ ~ end[e].closed /\ Commits(e, 0, Does(end[e], <<f>>))
      /\ sent' = [sent EXCEPT ![e] = Append(@, m)] /\ UNCHANGED <<dead, vanished, received>>
  BY DEF Send, MaySend
<1> HIDE DEF part, f, m
<1> DEFINE fs == <<f>>
           ts == <<m>>
<1>6. fs \in Seq(Framed) /\ Carries(fs, ts)
  BY <1>3, OneFrame
<1>7. ts \in Seq(Seq(Nat)) /\ sent' = [sent EXCEPT ![e] = @ \o ts]
  BY <1>1, <1>4, <1>5, OneMore
<1> HIDE DEF fs, ts
<1> QED
  BY <1>1, <1>5, <1>6, <1>7, SpeakingKeepsTransfer DEF fs

\* A message of a phone in fragments.
LEMMA FragmentsKeepTransfer ==
  ASSUME TransferInv, WsInv', NEW n \in 2 .. MaxMessageParts + 1, SendFragmented(n)
  PROVE  TransferInv'
<1> DEFINE e == "client"
           part == NextText(e)
           fs == Fragments(n, part)
           m == [i \in 1 .. n |-> part]
           ts == <<m>>
<1>1. e \in End /\ n \in Nat \ {0}
  BY WebSocketAssumption DEF End
<1>2. end[e] \in Ends /\ sent \in [End -> Seq(Seq(Nat))]
  BY <1>1 DEF TransferInv, WsInv, WsTypes
<1>3. part \in Nat
  BY <1>1, <1>2, LenProperties DEF NextText
<1>4. fs \in Seq(Framed) /\ Carries(fs, ts)
  BY <1>1, <1>3, PeerFrames, FragmentsCarry
<1>5. m \in Seq(Nat)
  <2>1. m \in [1 .. n -> Nat]
    BY <1>3
  <2> HIDE DEF m
  <2> QED
    BY <1>1, <2>1, SeqDef
<1>6. /\ ~ end[e].closed /\ Commits(e, 0, Does(end[e], fs))
      /\ sent' = [sent EXCEPT ![e] = Append(@, m)] /\ UNCHANGED <<dead, vanished, received>>
  BY DEF SendFragmented, MaySend
<1> HIDE DEF part, fs, e, m
<1>7. ts \in Seq(Seq(Nat)) /\ sent' = [sent EXCEPT ![e] = @ \o ts]
  BY <1>1, <1>2, <1>5, <1>6, OneMore
<1> HIDE DEF ts
<1> QED
  BY <1>1, <1>2, <1>4, <1>6, <1>7, SpeakingKeepsTransfer

\* What brings no message.
LEMMA NothingMore ==
  /\ <<>> \in Seq(Seq(Nat))
  /\ \A s \in [End -> Seq(Seq(Nat))], e \in End : [s EXCEPT ![e] = @ \o <<>>] = s
<1>1. <<>> \in Seq(Seq(Nat)) /\ \A q \in Seq(Seq(Nat)) : q \o <<>> = q
  BY ConcatEmptySeq, EmptySeq
<1> QED
  BY <1>1

\* A phone that breaks the protocol.
LEMMA InvalidKeepsTransfer ==
  ASSUME TransferInv, WsInv', NEW fs \in Invalid, SendInvalid(fs)
  PROVE  TransferInv'
<1> DEFINE e == "client"
<1>1. e \in End
  BY DEF End
<1>2. end[e] \in Ends /\ sent \in [End -> Seq(Seq(Nat))]
  BY <1>1 DEF TransferInv, WsInv, WsTypes
<1>3. fs \in Seq(Framed) /\ Carries(fs, <<>>)
  BY PeerFrames, InvalidCarries
<1>4. /\ ~ end[e].closed /\ Commits(e, 0, Does(end[e], fs))
      /\ UNCHANGED <<sent, dead, vanished, received>>
  BY DEF SendInvalid
<1> HIDE DEF e
<1>5. <<>> \in Seq(Seq(Nat)) /\ sent' = [sent EXCEPT ![e] = @ \o <<>>]
  BY <1>1, <1>2, <1>4, NothingMore
<1> DEFINE ts == <<>>
<1>6. ts \in Seq(Seq(Nat)) /\ sent' = [sent EXCEPT ![e] = @ \o ts] /\ Carries(fs, ts)
  BY <1>3, <1>5
<1> HIDE DEF ts
<1> QED
  BY <1>1, <1>2, <1>3, <1>4, <1>6, SpeakingKeepsTransfer

\* The ping of the server end.
LEMMA KeepAliveKeepsTransfer ==
  ASSUME TransferInv, WsInv', KeepAlive
  PROVE  TransferInv'
<1> DEFINE e == "server"
           x == [end[e] EXCEPT !.pongTimer = TRUE]
           f == Control("ping")
           fs == <<f>>
           ts == <<>>
<1>1. e \in End
  BY DEF End
<1>2. end[e] \in Ends /\ sent \in [End -> Seq(Seq(Nat))]
  BY <1>1 DEF TransferInv, WsInv, WsTypes
<1>3. fs \in Seq(Framed) /\ Carries(fs, ts)
  <2>1. f \in Framed /\ f.op # "close" /\ IsControl(f)
    BY PeerFrames DEF IsControl
  <2> HIDE DEF f
  <2>2. fs \in Seq(Framed) /\ \A i \in 1 .. Len(fs) : IsControl(fs[i])
    BY <2>1
  <2> HIDE DEF fs
  <2> QED
    BY <2>2, ControlsCarry
<1>4. /\ ~ end[e].closed /\ Commits(e, 0, Does(x, fs))
      /\ UNCHANGED <<sent, dead, vanished, received>>
  BY DEF KeepAlive, MayPing
<1>5. /\ x \in Ends /\ x.buffer = end[e].buffer /\ x.fragments = end[e].fragments
      /\ x.closed = end[e].closed
  BY <1>2 DEF Ends
<1> HIDE DEF e, x, fs
<1>6. ts \in Seq(Seq(Nat)) /\ sent' = [sent EXCEPT ![e] = @ \o ts]
  BY <1>1, <1>2, <1>4, NothingMore
<1> HIDE DEF ts
<1> QED
  BY <1>1, <1>2, <1>3, <1>4, <1>5, <1>6, SpeakingKeepsTransfer

\* close.
LEMMA CloseKeepsTransfer ==
  ASSUME TransferInv, WsInv', NEW e \in End, Close(e)
  PROVE  TransferInv'
<1> DEFINE o == Other(e)
           r == Closing(end[e])
           ts == <<>>
<1>1. /\ end \in [End -> Ends] /\ sent \in [End -> Seq(Seq(Nat))]
      /\ received \in [End -> Seq(Seq(Nat))]
      /\ dead \in [End -> BOOLEAN] /\ (\A d \in End : dead[d] => end[d].closed)
      /\ (end[e].closeSent => end[e].closed)
  BY DEF TransferInv, WsInv, WsTypes, ClosesAsSaid
<1>2. /\ r.end \in Ends /\ r.end.closed /\ r.out \in Seq(Framed) /\ Carries(r.out, ts)
  BY <1>1, ClosingCarries
<1>3. Commits(e, 0, r) /\ UNCHANGED <<dead, vanished, sent, received>>
  BY DEF Close
<1> HIDE DEF r
<1>4. ts \in Seq(Seq(Nat)) /\ sent'[e] = sent[e] \o ts /\ received'[o] = received[o]
  BY <1>1, <1>3, ConcatEmptySeq, EmptySeq
<1>5. StreamIn(o)' /\ end'[o] = end[o] /\ end'[e] = Settled(r.end)
  <2> HIDE DEF ts
  <2>1. ts = <<>> \/ ~ end[e].closed
    BY DEF ts
  <2> QED
    BY <1>2, <1>3, <1>4, <2>1, CommitArrives
<1>6. end'[e].closed
  BY <1>2, <1>5, SettledKeeps
<1>7. StreamIn(e)'
  BY <1>3, <1>6, ClosedKeepsStream
<1>8. \A d \in End : dead'[d] => end'[d].closed
  BY <1>1, <1>3, <1>5, <1>6 DEF End, Other
<1> QED
  BY <1>1, <1>3, <1>5, <1>7, <1>8, StepKeepsTransfer

\* destroy, the pong timer, and a socket that errs or closes.
LEMMA LossesKeepTransfer ==
  ASSUME TransferInv, WsInv', NEW e \in End, Destroy(e) \/ SocketCloses(e)
  PROVE  TransferInv'
<1> DEFINE o == Other(e)
<1>1. /\ end \in [End -> Ends] /\ wire \in [End -> Seq(Half)]
      /\ received \in [End -> Seq(Seq(Nat))]
      /\ dead \in [End -> BOOLEAN] /\ (\A d \in End : dead[d] => end[d].closed)
  BY DEF TransferInv, WsInv, WsTypes
<1>2. o \in End /\ o # e /\ Other(o) = e /\ \A d \in End : d = e \/ d = o
  BY DEF End, Other
<1>3. \E w \in Ends : w.closed /\ Loses(e, w)
  <2>1. /\ Teardown(end[e]) \in Ends /\ Teardown(end[e]).closed
        /\ [Teardown(end[e]) EXCEPT !.closeSent = TRUE] \in Ends
        /\ [Teardown(end[e]) EXCEPT !.closeSent = TRUE].closed
    BY <1>1 DEF Teardown, Ends
  <2> QED
    BY <2>1 DEF Destroy, SocketCloses
<1>4. PICK w \in Ends : w.closed /\ Loses(e, w)
  BY <1>3
<1>5. /\ end' = [end EXCEPT ![e] = Settled(w)] /\ wire' = [wire EXCEPT ![e] = <<>>]
      /\ dead' = [dead EXCEPT ![e] = TRUE] /\ UNCHANGED <<vanished, sent, received>>
  BY <1>4 DEF Loses
<1>6. end'[e].closed /\ end'[o] = end[o] /\ wire'[o] = wire[o]
  BY <1>1, <1>2, <1>4, <1>5, SettledKeeps
<1>7. dead' \in [End -> BOOLEAN] /\ dead'[o] = dead[o]
  BY <1>1, <1>2, <1>5
<1> HIDE DEF o
<1>8. StreamIn(e)'
  BY <1>5, <1>6, ClosedKeepsStream
<1>9. StreamIn(o)'
  <2>1. /\ end'[o].buffer = end[o].buffer /\ end'[o].fragments = end[o].fragments
        /\ end'[o].closed = end[o].closed /\ received'[o] = received[o]
        /\ sent'[Other(o)] = sent[Other(o)]
        /\ end[Other(o)].closed => end'[Other(o)].closed
    BY <1>2, <1>5, <1>6
  <2> QED
    BY <1>2, <1>5, <1>6, <2>1, StreamStays
<1>10. \A d \in End : dead'[d] => end'[d].closed
  BY <1>1, <1>2, <1>6, <1>7
<1> QED
  BY <1>1, <1>5, <1>7, <1>8, <1>9, <1>10, StepKeepsTransfer DEF o

\* setSinks.
LEMMA SetSinksKeepsTransfer ==
  ASSUME TransferInv, WsInv', NEW e \in End, SetSinks(e)
  PROVE  TransferInv'
<1>1. /\ end \in [End -> Ends] /\ received \in [End -> Seq(Seq(Nat))]
      /\ dead \in [End -> BOOLEAN] /\ (\A d \in End : dead[d] => end[d].closed)
  BY DEF TransferInv, WsInv, WsTypes
<1>2. /\ end' = [end EXCEPT ![e].attached = TRUE]
      /\ UNCHANGED <<dead, wire, vanished, sent, received>>
  BY DEF SetSinks
<1>3. \A d \in End : /\ end'[d].buffer = end[d].buffer
                     /\ end'[d].fragments = end[d].fragments
                     /\ end'[d].closed = end[d].closed
  BY <1>1, <1>2 DEF Ends
<1>4. ASSUME NEW d \in End
      PROVE  StreamIn(d)'
  <2>1. Other(d) \in End
    BY TwoEnds
  <2>2. end[Other(d)].closed => end'[Other(d)].closed
    BY <1>3, <2>1
  <2>3. wire'[d] = wire[d] /\ received'[d] = received[d] /\ sent'[Other(d)] = sent[Other(d)]
    BY <1>2
  <2> QED
    BY <1>2, <1>3, <2>2, <2>3, StreamStays
<1>5. \A d \in End : dead'[d] => end'[d].closed
  BY <1>1, <1>2, <1>3
<1> QED
  BY <1>1, <1>2, <1>4, <1>5 DEF TransferInv

\* A silent network takes what was on its way, and leaves what is buffered.
LEMMA VanishKeepsTransfer ==
  ASSUME TransferInv, WsInv', Vanish
  PROVE  TransferInv'
<1>1. /\ end \in [End -> Ends] /\ received \in [End -> Seq(Seq(Nat))]
      /\ dead \in [End -> BOOLEAN] /\ (\A d \in End : dead[d] => end[d].closed)
  BY DEF TransferInv, WsInv, WsTypes
<1>2. /\ vanished' = TRUE /\ wire' = [e \in End |-> <<>>]
      /\ UNCHANGED <<end, dead, sent, received>>
  BY DEF Vanish
<1>3. ASSUME NEW e \in End
      PROVE  StreamIn(e)'
  <2> DEFINE o == Other(e)
             none == <<>>
             p == Push(end[e], none)
             q == Push(Left(end[e], p), wire[e]).result
             x == Texts(p.result.messages)
             y == Texts(q.messages)
             all == Pending(e)
             got == received[e] \o x
  <2>1. CASE end[e].closed
    BY <1>2, <2>1, ClosedKeepsStream
  <2>2. CASE ~ end[e].closed
    <3>1. /\ end[e] \in Ends /\ wire[e] \in Seq(Half) /\ received[e] \in Seq(Seq(Nat))
          /\ sent[o] \in Seq(Seq(Nat))
          /\ IsPrefix(received[e] \o Texts(all.messages), sent[o])
      BY <2>2, TransferTypes DEF TransferInv, StreamIn, ToCome
    <3>2. none \in Seq(Half) /\ none \o wire[e] = wire[e]
      BY <3>1, EmptySeq, ConcatEmptySeq
    <3>3. wire'[e] = none
      BY <1>2
    <3> HIDE DEF none
    <3>4. /\ p.result \in State /\ Left(end[e], p) \in Ends
          /\ all = IF p.result.stop = "no" THEN After(p.result, q) ELSE p.result
      <4>1. p.result \in State
        BY <3>1, <3>2, PushTypes
      <4>2. LET u == Push(end[e], none)
            IN  /\ Left(end[e], u) \in Ends
                /\ Push(end[e], none \o wire[e]).result =
                     IF u.result.stop = "no"
                     THEN After(u.result, Push(Left(end[e], u), wire[e]).result)
                     ELSE u.result
        BY <3>1, <3>2, PushSplits
      <4> QED
        BY <3>2, <4>1, <4>2 DEF Pending
    <3>5. q \in State
      BY <3>1, <3>4, PushTypes
    <3>6. Pending(e)' = p.result
      BY <1>2, <3>3 DEF Pending
    <3> HIDE DEF p, q, all
    <3>7. x \in Seq(Seq(Nat)) /\ y \in Seq(Seq(Nat))
      BY <3>4, <3>5, TextsGrow DEF State
    <3>8. got \in Seq(Seq(Nat))
      <4> HIDE DEF x
      <4> QED
        BY <3>1, <3>7, ConcatProperties
    <3>9. IsPrefix(got \o y, sent[o]) \/ IsPrefix(got, sent[o])
      <4>1. CASE p.result.stop = "no"
        <5>1. all.messages = p.result.messages \o q.messages
          BY <3>4, <4>1 DEF After
        <5>2. Texts(all.messages) = x \o y
          BY <3>4, <3>5, <5>1, TextsJoin DEF State
        <5> HIDE DEF x, y
        <5>3. InTurn(received[e], x, y)
          BY <3>1, <3>7, JoinsInTurn
        <5> QED
          BY <3>1, <5>2, <5>3 DEF InTurn
      <4>2. CASE p.result.stop # "no"
        BY <3>1, <3>4, <4>2
      <4> QED
        BY <4>1, <4>2
    <3>10. IsPrefix(got, sent[o])
      <4> HIDE DEF got, y
      <4> QED
        BY <3>1, <3>7, <3>8, <3>9, PrefixJoins
    <3>11. ToCome(e)' = got
      BY <1>2, <3>6 DEF ToCome
    <3> QED
      BY <1>2, <2>2, <3>10, <3>11 DEF StreamIn
  <2> QED
    BY <2>1, <2>2
<1>4. \A d \in End : dead'[d] => end'[d].closed
  BY <1>1, <1>2
<1> QED
  BY <1>1, <1>2, <1>3, <1>4 DEF TransferInv

\* What the refinement asks of a read: more of what the other sent, and nothing else.
HandsOn(e) ==
  IsPrefix(received[e], received'[e]) /\ IsPrefix(received'[e], sent[Other(e)])

LEMMA ReadKeepsTransfer ==
  ASSUME TransferInv, WsInv', NEW e \in End, ~ end[e].closed, NEW n \in 1 .. Len(wire[e]),
         NEW r, r.end \in Ends, r.out \in Seq(Framed), Carries(r.out, <<>>),
         Commits(e, n, r), NEW got, received' = [received EXCEPT ![e] = got],
         Reads(end[e], SubSeq(wire[e], 1, n), r, received[e], got),
         UNCHANGED <<dead, vanished, sent>>
  PROVE  TransferInv' /\ HandsOn(e)
<1> DEFINE o == Other(e)
           ts == <<>>
<1>1. /\ end \in [End -> Ends] /\ wire \in [End -> Seq(Half)]
      /\ received \in [End -> Seq(Seq(Nat))] /\ sent \in [End -> Seq(Seq(Nat))]
      /\ dead \in [End -> BOOLEAN] /\ (\A d \in End : dead[d] => end[d].closed)
  BY DEF TransferInv, WsInv, WsTypes
<1>2. o \in End /\ o # e /\ Other(o) = e /\ \A d \in End : d = e \/ d = o
  BY DEF End, Other
<1>3. received'[e] = got /\ received'[o] = received[o]
  BY <1>1, <1>2
<1>4. StreamIn(o)' /\ end'[o] = end[o] /\ end'[e] = Settled(r.end)
  <2>1. ts \in Seq(Seq(Nat)) /\ sent'[e] = sent[e] \o ts /\ ts = <<>> /\ Carries(r.out, ts)
    BY <1>1, ConcatEmptySeq, EmptySeq
  <2> HIDE DEF ts
  <2> QED
    BY <1>3, <2>1, CommitArrives
<1>5. wire'[e] = IF r.end.closed THEN <<>> ELSE SubSeq(wire[e], n + 1, Len(wire[e]))
  BY <1>1, <1>2 DEF Commits
<1>6. /\ Reads(end[e], SubSeq(wire[e], 1, n), r, received[e], received'[e])
      /\ end'[o].closed = end[o].closed /\ sent'[o] = sent[o] /\ vanished' = vanished
  BY <1>3, <1>4
<1>7. /\ StreamIn(e)' /\ received'[e] \in Seq(Seq(Nat)) /\ HandsOn(e)
  BY <1>4, <1>5, <1>6, ReadKeepsStream DEF HandsOn
<1>8. received' \in [End -> Seq(Seq(Nat))]
  BY <1>1, <1>3, <1>7
<1>9. \A d \in End : dead'[d] => end'[d].closed
  BY <1>1, <1>2, <1>4
<1> QED
  BY <1>1, <1>4, <1>7, <1>8, <1>9, StepKeepsTransfer

\* onData, whatever of the bytes has come.
LEMMA OnDataKeepsTransfer ==
  ASSUME TransferInv, WsInv', NEW e \in End, NEW n \in ReadSizes(e), OnData(e, n)
  PROVE  TransferInv' /\ HandsOn(e) /\ UNCHANGED sent
         /\ received' = [received EXCEPT ![e] = received'[e]]
<1> DEFINE chunk == SubSeq(wire[e], 1, n)
           p == Push(end[e], chunk)
           w == Left(end[e], p)
           ms == p.result.messages
           more == received[e] \o Texts(ms)
<1>1. /\ end[e] \in Ends /\ (end[e].closeSent => end[e].closed)
      /\ wire[e] \in Seq(Half) /\ received \in [End -> Seq(Seq(Nat))]
  BY DEF TransferInv, WsInv, WsTypes, ClosesAsSaid
<1>2. n \in 1 .. Len(wire[e]) /\ n \in 0 .. Len(wire[e])
  BY <1>1, LenProperties DEF ReadSizes
<1>3. chunk \in Seq(Half)
  BY <1>1, <1>2, CutWire
<1>4. /\ ~ end[e].closed /\ UNCHANGED <<dead, vanished, sent>>
      /\ \/ p.result.stop = "failed" /\ Commits(e, n, Closing(w)) /\ received' = received
         \/ /\ p.result.stop # "failed" /\ received' = [received EXCEPT ![e] = more]
            /\ \E at : Commits(e, n, OnMessages(w, ms, at))
  BY DEF OnData, Left
<1> HIDE DEF chunk
<1>5. /\ p.buffer \in Seq(Half) /\ p.result \in State
      /\ \E fs \in Seq(Framed) : \E t :
           Decoding(t, end[e].fragments, fs) /\ p.result = t[Len(fs)]
  BY <1>1, <1>3, PushTypes, PushDecodes
<1> HIDE DEF p
<1>6. /\ w \in Ends /\ (w.closeSent => w.closed)
      /\ w.buffer = p.buffer /\ w.fragments = p.result.fragments
  BY <1>1, <1>5 DEF Ends, State, Left
<1>7. ms \in Seq(Whole)
  BY <1>5 DEF State
<1> HIDE DEF w, ms
<1>8. CASE p.result.stop = "failed" /\ Commits(e, n, Closing(w)) /\ received' = received
  <2> DEFINE r == Closing(w)
  <2>1. r.end \in Ends /\ r.end.closed /\ r.out \in Seq(Framed) /\ Carries(r.out, <<>>)
    BY <1>6, ClosingCarries
  <2>2. Commits(e, n, r) /\ received' = [received EXCEPT ![e] = received[e]]
    BY <1>1, <1>8
  <2> HIDE DEF r
  <2>3. Reads(end[e], SubSeq(wire[e], 1, n), r, received[e], received[e])
    BY <1>8, <2>1 DEF Reads, p, chunk
  <2>4. TransferInv' /\ HandsOn(e)
    BY <1>2, <1>4, <2>1, <2>2, <2>3, ReadKeepsTransfer
  <2> QED
    BY <1>1, <1>4, <1>8, <2>4
<1>9. ASSUME NEW at, Commits(e, n, OnMessages(w, ms, at)), p.result.stop # "failed",
             received' = [received EXCEPT ![e] = more]
      PROVE  /\ TransferInv' /\ HandsOn(e)
             /\ received' = [received EXCEPT ![e] = received'[e]]
  <2> DEFINE r == OnMessages(w, ms, at)
  <2>1. /\ Heeds(w, r) /\ Answers(w, r)
        /\ (\E i \in 1 .. Len(ms) : ms[i].op = "close") => r.end.closed
    BY <1>6, <1>7, MessagesHeed
  <2>2. Commits(e, n, r)
    BY <1>9
  <2> HIDE DEF r
  <2>3. r.end \in Ends /\ r.out \in Seq(Framed)
    BY <2>1 DEF Heeds, Result
  <2>4. Carries(r.out, <<>>)
    BY <2>1, <2>3, ControlsCarry DEF Answers
  <2>5. ~ r.end.closed => p.result.stop = "no"
    <3>1. ASSUME p.result.stop = "close"
          PROVE  \E i \in 1 .. Len(ms) : ms[i].op = "close"
      BY <1>5, <3>1, CloseIsTold DEF ms
    <3> QED
      BY <1>5, <1>9, <2>1, <3>1 DEF State
  <2>6. Reads(end[e], SubSeq(wire[e], 1, n), r, received[e], more)
    <3>1. r.end.buffer = p.buffer /\ r.end.fragments = p.result.fragments
      BY <1>6, <2>1 DEF Answers
    <3> QED
      BY <1>9, <2>5, <3>1 DEF Reads, p, chunk, ms
  <2> HIDE DEF more
  <2>7. TransferInv' /\ HandsOn(e)
    BY <1>2, <1>4, <1>9, <2>2, <2>3, <2>4, <2>6, ReadKeepsTransfer
  <2>8. received'[e] = more
    BY <1>1, <1>9
  <2> QED
    BY <1>9, <2>7, <2>8
<1> HIDE DEF more
<1> QED
  BY <1>4, <1>8, <1>9

LEMMA InitMeetsTransferInv == WsInit => TransferInv
<1> SUFFICES ASSUME WsInit
             PROVE  TransferInv
  OBVIOUS
<1>1. WsInv
  BY InitMeetsWsInv
<1>2. /\ end = [e \in End |-> fresh] /\ dead = [e \in End |-> FALSE]
      /\ wire = [e \in End |-> <<>>] /\ sent = [e \in End |-> <<>>]
      /\ received = [e \in End |-> <<>>]
  BY DEF WsInit
<1> DEFINE none == <<>>
<1>3. /\ fresh \in Ends /\ fresh.buffer = <<>> /\ fresh.fragments = <<>> /\ ~ fresh.closed
      /\ none \in Seq(Half) /\ none \in Seq(Seq(Nat)) /\ Len(none) = 0
      /\ none \o none = none
  BY EmptySeq, ConcatEmptySeq DEF fresh, Ends
<1>4. Push(fresh, none).result = Begins(<<>>)
  <2> HIDE DEF none
  <2>1. LET b  == fresh.buffer \o none
            fs == WholeFrames(b)
        IN  /\ Len(fs) = Len(b) \div 2
            /\ \E t : /\ Decoding(t, fresh.fragments, fs)
                      /\ Push(fresh, none).result = t[Len(fs)]
    BY <1>3, PushDecodes
  <2>2. fresh.buffer \o none = none
    BY <1>3 DEF none
  <2>3. Len(none) \div 2 = 0
    BY <1>3
  <2> QED
    BY <1>3, <2>1, <2>2, <2>3 DEF Decoding
<1>5. ASSUME NEW e \in End
      PROVE  StreamIn(e)
  <2>1. Other(e) \in End
    BY TwoEnds
  <2>2. Pending(e) = Begins(<<>>)
    BY <1>2, <1>4 DEF Pending
  <2>3. Texts(Pending(e).messages) = none /\ Pending(e).fragments = <<>>
    BY <2>2, NoTexts DEF Begins
  <2>4. ToCome(e) = none /\ sent[Other(e)] = none
    BY <1>2, <1>3, <2>1, <2>3 DEF ToCome
  <2>5. IsPrefix(none, none)
    <3> DEFINE X == Seq(Nat)
    <3>1. none \in Seq(X)
      BY <1>3
    <3> HIDE DEF none, X
    <3> QED
      BY <3>1, PrefixJoins
  <2>6. ~ end[e].closed /\ (Len(end[e].buffer) + Len(wire[e])) % 2 = 0
    <3>1. ~ end[e].closed /\ end[e].buffer = none /\ wire[e] = none
      BY <1>2, <1>3
    <3>2. (Len(none) + Len(none)) % 2 = 0
      <4> HIDE DEF none
      <4> QED
        BY <1>3
    <3> QED
      BY <3>1, <3>2
  <2> QED
    BY <2>3, <2>4, <2>5, <2>6 DEF StreamIn
<1> QED
  BY <1>1, <1>2, <1>3, <1>5 DEF TransferInv

LEMMA StepPreservesTransferInv == TransferInv /\ [WsNext]_wsVars => TransferInv'
<1> SUFFICES ASSUME TransferInv, [WsNext]_wsVars
             PROVE  TransferInv'
  OBVIOUS
<1>1. WsInv'
  BY StepPreservesWsInv DEF TransferInv
<1>2. ASSUME NEW e \in End, SetSinks(e) \/ Send(e) \/ Close(e)
      PROVE  TransferInv'
  BY <1>1, <1>2, SetSinksKeepsTransfer, SendKeepsTransfer, CloseKeepsTransfer
<1>3. ASSUME NEW e \in End, Destroy(e) \/ SocketCloses(e)
      PROVE  TransferInv'
  BY <1>1, <1>3, LossesKeepTransfer
<1>4. ASSUME NEW e \in End, NEW n \in ReadSizes(e), OnData(e, n)
      PROVE  TransferInv'
  BY <1>1, <1>4, OnDataKeepsTransfer
<1>5. ASSUME NEW n \in 2 .. MaxMessageParts + 1, SendFragmented(n)
      PROVE  TransferInv'
  BY <1>1, <1>5, FragmentsKeepTransfer
<1>6. ASSUME NEW fs \in Invalid, SendInvalid(fs)
      PROVE  TransferInv'
  BY <1>1, <1>6, InvalidKeepsTransfer
<1>7. ASSUME PongTimeout
      PROVE  TransferInv'
  <2>1. "server" \in End /\ Destroy("server")
    BY <1>7 DEF PongTimeout, End
  <2> QED
    BY <1>1, <2>1, LossesKeepTransfer
<1>8. CASE UNCHANGED wsVars
  <2>1. UNCHANGED <<end, dead, wire, vanished, sent, received>>
    BY <1>8 DEF wsVars
  <2> QED
    BY <1>1, <2>1 DEF TransferInv, StreamIn, ToCome, Pending
<1> QED
  BY <1>1, <1>2, <1>3, <1>4, <1>5, <1>6, <1>7, <1>8, KeepAliveKeepsTransfer,
     VanishKeepsTransfer DEF WsNext

\* The inductive invariant of the transfer holds in every behaviour.
THEOREM TransferInvHolds == WsSpec => []TransferInv
  BY InitMeetsTransferInv, StepPreservesTransferInv, PTL DEF WsSpec

-----------------------------------------------------------------------------
\* The streams.

\* What a step does to one direction.
StreamSteps(e) ==
  LET o == Other(e)
  IN  \/ UNCHANGED <<sent[o], received[e]>>
      \/ \E m \in Messages(o) : sent'[o] = Append(sent[o], m) /\ UNCHANGED received[e]
      \/ HandsOn(e) /\ UNCHANGED sent[o]

LEMMA SendSteps ==
  ASSUME TransferInv, NEW s \in End, NEW n \in 1 .. MaxMessageParts + 1, MaySend(s),
         sent' = [sent EXCEPT ![s] = Append(@, [i \in 1 .. n |-> NextText(s)])],
         received' = received
  PROVE  \A e \in End : StreamSteps(e)
<1>1. sent \in [End -> Seq(Seq(Nat))]
  BY DEF TransferInv, WsInv, WsTypes
<1>2. NextText(s) \in 1 .. MaxMessages[s]
  <2>1. Len(sent[s]) \in Nat /\ MaxMessages[s] \in Nat
    BY <1>1, LenProperties, WebSocketAssumption DEF End
  <2> QED
    BY <2>1 DEF MaySend, NextText
<1> DEFINE m == [i \in 1 .. n |-> NextText(s)]
<1>3. m \in Messages(s)
  BY <1>2 DEF Messages
<1>4. sent'[s] = Append(sent[s], m) /\ \A e \in End : e # s => sent'[e] = sent[e]
  BY <1>1
<1> HIDE DEF m
<1>5. ASSUME NEW e \in End
      PROVE  StreamSteps(e)
  <2>1. Other(e) \in End
    BY TwoEnds
  <2>2. CASE Other(e) = s
    BY <1>3, <1>4, <2>2 DEF StreamSteps
  <2>3. CASE Other(e) # s
    BY <1>4, <2>1, <2>3 DEF StreamSteps
  <2> QED
    BY <2>2, <2>3
<1> QED
  BY <1>5

LEMMA NextSteps ==
  ASSUME TransferInv, [WsNext]_wsVars
  PROVE  \A e \in End : StreamSteps(e)
<1>1. WsInv'
  BY StepPreservesWsInv DEF TransferInv
<1>2. ASSUME UNCHANGED <<sent, received>>
      PROVE  \A e \in End : StreamSteps(e)
  BY <1>2 DEF StreamSteps
<1>3. ASSUME NEW e \in End, SetSinks(e) \/ Close(e) \/ Destroy(e) \/ SocketCloses(e)
      PROVE  UNCHANGED <<sent, received>>
  BY <1>3 DEF SetSinks, Close, Destroy, SocketCloses, Loses
<1>4. ASSUME NEW e \in End, Send(e)
      PROVE  \A d \in End : StreamSteps(d)
  <2>1. /\ 1 \in 1 .. MaxMessageParts + 1 /\ MaySend(e) /\ received' = received
        /\ sent' = [sent EXCEPT ![e] = Append(@, <<NextText(e)>>)]
    BY <1>4, WebSocketAssumption DEF Send
  <2>2. <<NextText(e)>> = [i \in 1 .. 1 |-> NextText(e)]
    OBVIOUS
  <2> QED
    BY <2>1, <2>2, SendSteps
<1>5. ASSUME NEW n \in 2 .. MaxMessageParts + 1, SendFragmented(n)
      PROVE  \A d \in End : StreamSteps(d)
  <2>1. n \in 1 .. MaxMessageParts + 1 /\ "client" \in End
    BY WebSocketAssumption DEF End
  <2>2. /\ MaySend("client") /\ received' = received
        /\ sent' = [sent EXCEPT !["client"] =
                      Append(@, [i \in 1 .. n |-> NextText("client")])]
    BY <1>5 DEF SendFragmented
  <2> QED
    BY <2>1, <2>2, SendSteps
<1>6. ASSUME NEW e \in End, NEW n \in ReadSizes(e), OnData(e, n)
      PROVE  \A d \in End : StreamSteps(d)
  <2>1. /\ HandsOn(e) /\ UNCHANGED sent
        /\ received' = [received EXCEPT ![e] = received'[e]]
    BY <1>1, <1>6, OnDataKeepsTransfer
  <2>2. \A d \in End : d # e => received'[d] = received[d]
    <3>1. received \in [End -> Seq(Seq(Nat))]
      BY DEF TransferInv
    <3> QED
      BY <2>1, <3>1
  <2> QED
    BY <2>1, <2>2 DEF StreamSteps
<1>7. ASSUME (\E fs \in Invalid : SendInvalid(fs)) \/ KeepAlive \/ PongTimeout \/ Vanish
      PROVE  UNCHANGED <<sent, received>>
  BY <1>7 DEF SendInvalid, KeepAlive, PongTimeout, Destroy, Loses, Vanish
<1>8. CASE UNCHANGED wsVars
  BY <1>2, <1>8 DEF wsVars
<1> QED
  BY <1>2, <1>3, <1>4, <1>5, <1>6, <1>7, <1>8 DEF WsNext

\* The bytes of a socket implement the stream of messages that its users are promised, in
\* both directions (websocket.ts, FrameDecoder, send and onData of both classes): however
\* reads cut the bytes and control frames interrupt a message, whenever an end closes, its
\* peer breaks the protocol or the network goes silent, the user of an end is handed whole
\* messages of the other, in order and none skipped.
THEOREM MessagesArriveWhole == WsSpec => ImplementsStreams
<1>1. WsInit => ToServer!StreamInit /\ ToClient!StreamInit
  BY DEF WsInit, End, ToServer!StreamInit, ToClient!StreamInit
<1>2. TransferInv /\ [WsNext]_wsVars =>
        /\ [ToServer!StreamNext]_<<sent["client"], received["server"]>>
        /\ [ToClient!StreamNext]_<<sent["server"], received["client"]>>
  <2> SUFFICES ASSUME TransferInv, [WsNext]_wsVars
               PROVE  /\ [ToServer!StreamNext]_<<sent["client"], received["server"]>>
                      /\ [ToClient!StreamNext]_<<sent["server"], received["client"]>>
    OBVIOUS
  <2>1. StreamSteps("server") /\ StreamSteps("client")
    BY NextSteps DEF End
  <2>2. [ToServer!StreamNext]_<<sent["client"], received["server"]>>
    <3>1. Other("server") = "client"
      BY DEF Other
    <3>2. CASE UNCHANGED <<sent["client"], received["server"]>>
      BY <3>2
    <3>3. ASSUME NEW m \in Messages("client"), sent'["client"] = Append(sent["client"], m),
                 UNCHANGED received["server"]
          PROVE  ToServer!StreamNext
      BY <3>3 DEF ToServer!StreamNext, ToServer!Send
    <3>4. ASSUME HandsOn("server"), UNCHANGED sent["client"],
                 received'["server"] # received["server"]
          PROVE  ToServer!StreamNext
      BY <3>1, <3>4
         DEF HandsOn, ToServer!StreamNext, ToServer!Deliver, IsPrefix, ToServer!IsPrefix
    <3> QED
      BY <2>1, <3>1, <3>2, <3>3, <3>4 DEF StreamSteps
  <2>3. [ToClient!StreamNext]_<<sent["server"], received["client"]>>
    <3>1. Other("client") = "server"
      BY DEF Other
    <3>2. CASE UNCHANGED <<sent["server"], received["client"]>>
      BY <3>2
    <3>3. ASSUME NEW m \in Messages("server"), sent'["server"] = Append(sent["server"], m),
                 UNCHANGED received["client"]
          PROVE  ToClient!StreamNext
      BY <3>3 DEF ToClient!StreamNext, ToClient!Send
    <3>4. ASSUME HandsOn("client"), UNCHANGED sent["server"],
                 received'["client"] # received["client"]
          PROVE  ToClient!StreamNext
      BY <3>1, <3>4
         DEF HandsOn, ToClient!StreamNext, ToClient!Deliver, IsPrefix, ToClient!IsPrefix
    <3> QED
      BY <2>1, <3>1, <3>2, <3>3, <3>4 DEF StreamSteps
  <2> QED
    BY <2>2, <2>3
<1> QED
  BY <1>1, <1>2, TransferInvHolds, PTL
     DEF WsSpec, ImplementsStreams, ToServer!StreamSpec, ToClient!StreamSpec
=============================================================================
