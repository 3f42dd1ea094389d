-------------------------- MODULE StreamHub_proofs --------------------------
(***************************************************************************)
(* Theorems about the fanout hub over time, for every set of sessions,     *)
(* obligations, streams and devices, every retention limit and every       *)
(* choice of the frames dsh sends.                                         *)
(*                                                                         *)
(* The argument has three layers.  The first says what publishing does:    *)
(* the resume log stays a window at the end of the history and every       *)
(* subscriber is handed the same numbered frames.  The second says what    *)
(* the history means: which obligations are open in it and which           *)
(* projection is newest.  The third takes the steps of the hub one by one  *)
(* and finds them to be uses of the first two.                             *)
(***************************************************************************)
EXTENDS StreamHub, RingLog_proofs

-----------------------------------------------------------------------------
\* The frames the hub publishes; the notices it sends outside the log are not among them.
Published == MuxFrame \cup HostFrame \cup {DshRestarted, DshDisconnected}
             \cup {DshReadyFrame(g) : g \in Nat}
Envelope  == [bseq : Nat, frame : Published \cup Notice]

\* The frames fs as the hub numbers them when the history is n frames long.
Numbered(n, fs) == [i \in 1 .. Len(fs) |-> [bseq |-> n + i, frame |-> fs[i]]]

\* What a phone was sent, D, is the history h after `from`: StreamIsContiguous for one
\* stream, as a statement about values.
Tells(D, i) == D[i].frame \notin Notice
Faithful(D, from, h) ==
  /\ \A i \in DOMAIN D : Tells(D, i) => /\ D[i].bseq \in from + 1 .. Len(h)
                                        /\ D[i].frame = h[D[i].bseq]
  /\ \A i, j \in DOMAIN D : Tells(D, i) /\ Tells(D, j) /\ i < j => D[i].bseq < D[j].bseq
  /\ \A b \in from + 1 .. Len(h) : \E i \in DOMAIN D : Tells(D, i) /\ D[i].bseq = b

\* A published frame is never mistaken for a notice: their types differ.
LEMMA PublishedIsNoNotice == \A f \in Published : f \notin Notice
<1> SUFFICES ASSUME NEW f \in Published PROVE f.type \notin {"device-revoked", "token-expiring"}
  BY DEF Notice, DeviceRevoked, TokenExpiring
<1>1. CASE f \in MuxFrame
  BY <1>1 DEF MuxFrame, Requested, Resolved, Projection, Queue, Event
<1>2. CASE f \in HostFrame
  BY <1>2 DEF HostFrame, Removed, Workspace
<1>3. CASE f \in {DshRestarted, DshDisconnected} \cup {DshReadyFrame(g) : g \in Nat}
  BY <1>3 DEF DshRestarted, DshDisconnected, DshReadyFrame
<1> QED
  BY <1>1, <1>2, <1>3 DEF Published

\* Frames handed to a phone under the numbers they were published with prolong what it
\* was told (hub.ts, publish and Subscriber.deliver).
LEMMA DeliveryIsFaithful ==
  ASSUME NEW D \in Seq(Envelope), NEW h \in Seq(Published), NEW fs \in Seq(Published),
         NEW from \in 0 .. Len(h), Faithful(D, from, h)
  PROVE  /\ Numbered(Len(h), fs) \in Seq(Envelope)
         /\ Faithful(D \o Numbered(Len(h), fs), from, h \o fs)
<1> DEFINE m == Len(h)
           n == Len(fs)
           d == Len(D)
           E == Numbered(m, fs)
           C == D \o E
           g == h \o fs
<1>1. m \in Nat /\ n \in Nat /\ d \in Nat
  BY LenProperties
<1>2. /\ DOMAIN E = 1 .. n
      /\ \A i \in 1 .. n : E[i].bseq = m + i /\ E[i].frame = fs[i]
  BY DEF Numbered
<1>3. E \in Seq(Envelope) /\ Len(E) = n
  <2>1. ASSUME NEW i \in 1 .. n
        PROVE  [bseq |-> m + i, frame |-> fs[i]] \in Envelope
    <3>1. fs[i] \in Published
      BY <1>1, ElementOfSeq
    <3> QED
      BY <1>1, <3>1 DEF Envelope
  <2>2. E \in [1 .. n -> Envelope]
    BY <2>1 DEF Numbered
  <2> HIDE DEF E
  <2>3. E \in Seq(Envelope)
    BY <1>1, <2>2, IsASeq
  <2>4. Len(E) \in Nat /\ DOMAIN E = 1 .. Len(E)
    BY <2>3, LenProperties
  <2> QED
    BY <1>1, <1>2, <2>3, <2>4
<1> HIDE DEF E
<1>4. /\ C \in Seq(Envelope)
      /\ Len(C) = d + n
      /\ DOMAIN C = 1 .. d + n
      /\ \A i \in 1 .. d : C[i] = D[i]
      /\ \A i \in d + 1 .. d + n : C[i] = E[i - d]
  <2>1. /\ D \o E \in Seq(Envelope)
        /\ Len(D \o E) = Len(D) + Len(E)
        /\ \A i \in 1 .. Len(D) + Len(E) :
             (D \o E)[i] = IF i <= Len(D) THEN D[i] ELSE E[i - Len(D)]
    <3> HIDE DEF C, d, n
    <3> QED
      BY <1>3, ConcatProperties
  <2> HIDE DEF C
  <2>2. /\ C \in Seq(Envelope)
        /\ Len(C) = d + n
        /\ \A i \in 1 .. d + n : C[i] = IF i <= d THEN D[i] ELSE E[i - d]
    BY <1>3, <2>1 DEF C
  <2> QED
    BY <1>1, <2>2, LenProperties
<1>5. /\ Len(g) = m + n
      /\ \A i \in 1 .. m : g[i] = h[i]
      /\ \A i \in m + 1 .. m + n : g[i] = fs[i - m]
  <2>1. /\ Len(g) = m + n
        /\ \A i \in 1 .. m + n : g[i] = IF i <= m THEN h[i] ELSE fs[i - m]
    BY ConcatProperties
  <2> HIDE DEF g
  <2> QED
    BY <1>1, <2>1
<1> HIDE DEF C, g, m, n, d
<1>6. DOMAIN D = 1 .. d
  BY LenProperties DEF d
<1>7. \A i \in 1 .. d : Tells(C, i) <=> Tells(D, i)
  BY <1>4 DEF Tells
<1>8. \A i \in d + 1 .. d + n : /\ Tells(C, i)
                                /\ C[i].bseq = m + (i - d)
                                /\ C[i].frame = fs[i - d]
  <2> TAKE i \in d + 1 .. d + n
  <2>1. i - d \in 1 .. n
    BY <1>1 DEF m, n, d
  <2>2. fs[i - d] \in Published
    BY <2>1, ElementOfSeq DEF n
  <2> QED
    BY <1>2, <1>4, <2>1, <2>2, PublishedIsNoNotice DEF Tells
<1>9. ASSUME NEW i \in DOMAIN C, Tells(C, i)
      PROVE  C[i].bseq \in from + 1 .. Len(g) /\ C[i].frame = g[C[i].bseq]
  <2>1. CASE i \in 1 .. d
    <3>1. C[i].bseq \in from + 1 .. m /\ C[i].frame = h[C[i].bseq]
      BY <1>4, <1>6, <1>7, <1>9, <2>1 DEF Faithful, m
    <3> QED
      BY <1>1, <1>5, <3>1 DEF m, n, d
  <2>2. CASE i \in d + 1 .. d + n
    <3>1. C[i].bseq = m + (i - d) /\ C[i].frame = fs[i - d]
      BY <1>8, <2>2
    <3>2. m + (i - d) \in m + 1 .. m + n /\ (m + (i - d)) - m = i - d
      BY <1>1, <2>2 DEF m, n, d
    <3>3. m + (i - d) \in from + 1 .. Len(g)
      BY <1>1, <1>5, <3>2 DEF m, n, d
    <3> QED
      BY <1>5, <3>1, <3>2, <3>3
  <2> QED
    BY <1>1, <1>4, <2>1, <2>2 DEF m, n, d
<1>10. ASSUME NEW i \in DOMAIN C, NEW j \in DOMAIN C, Tells(C, i), Tells(C, j), i < j
       PROVE  C[i].bseq < C[j].bseq
  <2>1. CASE j \in 1 .. d
    <3>1. i \in 1 .. d
      BY <1>1, <1>4, <1>10, <2>1 DEF d, n
    <3> QED
      BY <1>4, <1>6, <1>7, <1>10, <2>1, <3>1 DEF Faithful
  <2>2. CASE i \in 1 .. d /\ j \in d + 1 .. d + n
    <3>1. C[i].bseq \in from + 1 .. m
      BY <1>4, <1>6, <1>7, <1>10, <2>2 DEF Faithful, m
    <3> QED
      BY <1>1, <1>8, <2>2, <3>1 DEF m, n, d
  <2>3. CASE i \in d + 1 .. d + n /\ j \in d + 1 .. d + n
    BY <1>1, <1>8, <1>10, <2>3 DEF m, n, d
  <2> QED
    BY <1>1, <1>4, <1>10, <2>1, <2>2, <2>3 DEF d, n
<1>11. ASSUME NEW b \in from + 1 .. Len(g)
       PROVE  \E i \in DOMAIN C : Tells(C, i) /\ C[i].bseq = b
  <2>1. CASE b \in from + 1 .. m
    <3>1. PICK i \in DOMAIN D : Tells(D, i) /\ D[i].bseq = b
      BY <2>1 DEF Faithful, m
    <3> QED
      BY <1>1, <1>4, <1>6, <1>7, <3>1 DEF d, n
  <2>2. CASE b \in m + 1 .. m + n
    <3>1. m \in Nat /\ n \in Nat /\ d \in Nat
      BY <1>1 DEF m, n, d
    <3>2. PICK i \in d + 1 .. d + n : m + (i - d) = b
      <4>1. (b - m) + d \in d + 1 .. d + n /\ m + (((b - m) + d) - d) = b
        BY <2>2, <3>1
      <4> QED
        BY <4>1
    <3>3. C[i].bseq = b /\ Tells(C, i)
      BY <1>8, <3>2
    <3>4. i \in DOMAIN C
      BY <1>4, <3>1 DEF d, n
    <3> QED
      BY <3>3, <3>4
  <2> QED
    BY <1>1, <1>5, <2>1, <2>2 DEF m, n
<1> QED
  BY <1>3, <1>9, <1>10, <1>11 DEF Faithful, C, g, m, E

\* A notice is delivered beside the log and leaves what was told of it alone (hub.ts,
\* notifyDevice).
LEMMA NoticeIsFaithful ==
  ASSUME NEW D \in Seq(Envelope), NEW h, NEW from, Faithful(D, from, h),
         NEW e \in Envelope, e.frame \in Notice
  PROVE  Faithful(D \o <<e>>, from, h)
<1> DEFINE d == Len(D)
           C == D \o <<e>>
<1>1. /\ d \in Nat /\ DOMAIN D = 1 .. d
      /\ DOMAIN C = 1 .. d + 1
      /\ \A i \in 1 .. d : C[i] = D[i]
      /\ C[d + 1] = e
  BY LenProperties, AppendProperties, AppendIsConcat
<1> HIDE DEF C, d
<1>2. \A i \in 1 .. d : Tells(C, i) <=> Tells(D, i)
  BY <1>1 DEF Tells
<1>3. ~ Tells(C, d + 1)
  BY <1>1 DEF Tells
<1>4. \A i \in DOMAIN C : Tells(C, i) => i \in DOMAIN D
  BY <1>1, <1>3
<1> QED
  BY <1>1, <1>2, <1>4 DEF Faithful, C

\* What an attach hands over is faithful: the whole delta, or nothing together with the
\* number to go on from (ring.ts, readAfter).
LEMMA DeltaIsFaithful ==
  ASSUME NEW h \in Seq(Published), NEW after \in 0 .. Len(h)
  PROVE  SuffixOf(h, after) \in Seq(Envelope) /\ Faithful(SuffixOf(h, after), after, h)
<1> DEFINE m == Len(h)
           D == SuffixOf(h, after)
<1>1. m \in Nat /\ after \in Nat /\ m - after \in Nat
  BY LenProperties
<1>2. /\ DOMAIN D = 1 .. m - after
      /\ \A i \in 1 .. m - after : D[i].bseq = after + i /\ D[i].frame = h[after + i]
  BY DEF SuffixOf
<1>3. \A i \in 1 .. m - after : h[after + i] \in Published
  BY <1>1, ElementOfSeq
<1>4. D \in [1 .. m - after -> Envelope]
  BY <1>1, <1>3 DEF SuffixOf, Envelope
<1> HIDE DEF D
<1>5. D \in Seq(Envelope)
  BY <1>1, <1>4, IsASeq
<1>6. \A i \in DOMAIN D : Tells(D, i)
  BY <1>2, <1>3, PublishedIsNoNotice DEF Tells
<1>7. ASSUME NEW b \in after + 1 .. m
      PROVE  \E i \in DOMAIN D : Tells(D, i) /\ D[i].bseq = b
  <2>1. b - after \in DOMAIN D /\ D[b - after].bseq = b
    BY <1>1, <1>2
  <2> QED
    BY <1>6, <2>1
<1>8. ASSUME NEW i \in DOMAIN D
      PROVE  D[i].bseq \in after + 1 .. m /\ D[i].frame = h[D[i].bseq]
  BY <1>1, <1>2
<1>9. ASSUME NEW i \in DOMAIN D, NEW j \in DOMAIN D, i < j
      PROVE  D[i].bseq < D[j].bseq
  BY <1>1, <1>2, <1>9
<1> QED
  BY <1>5, <1>7, <1>8, <1>9 DEF Faithful, D

\* A phone that starts at the end was told all it had to be told.
LEMMA NothingIsFaithful ==
  ASSUME NEW h \in Seq(Published)
  PROVE  Faithful(<<>>, Len(h), h)
<1>1. Len(h) \in Nat /\ Len(h) + 1 .. Len(h) = {} /\ DOMAIN <<>> = {}
  BY LenProperties
<1> QED
  BY <1>1 DEF Faithful
-----------------------------------------------------------------------------
\* The first layer: the resume log, and what each stream was sent.

IsStream(x) ==
  /\ DOMAIN x = {"state", "after", "resynced", "lastBseq", "backlog", "snapshots", "owed", "live"}
  /\ x.after \in Nat /\ x.lastBseq \in Nat /\ x.resynced \in BOOLEAN
  /\ x.backlog \in Seq(Envelope) /\ x.live \in Seq(Envelope)

HubTypes ==
  /\ log \in Seq(Published) /\ IsRing(ring, Published) /\ Retains(ring, log)
  /\ generation \in Nat /\ pending \subseteq Rpc
  /\ DOMAIN stream = Stream /\ \A s \in Stream : IsStream(stream[s])
  /\ \A s \in Subscribers : From(s) \in 0 .. Len(log)
StreamsAreFaithful == \A s \in Subscribers : Faithful(Delivered(s), From(s), log)

\* The step appends the frames fs to the log and hands them to every subscriber.
Grows(fs) ==
  /\ fs \in Seq(Published)
  /\ log' = log \o fs
  /\ IsRing(ring', Published) /\ Retains(ring', log')
  /\ stream' = Deliver(Subscribers, Numbered(Len(log), fs))

\* The frames that the methods publish.
LEMMA FramesArePublished ==
  /\ MuxFrame \cup HostFrame \subseteq Published
  /\ DshRestarted \in Published /\ DshDisconnected \in Published
  /\ \A g \in Nat : DshReadyFrame(g) \in Published
  BY DEF Published

\* hub.ts, publish.
LEMMA PublishGrows ==
  ASSUME HubTypes, NEW f \in Published, Publish(f)
  PROVE  Grows(<<f>>)
<1>1. /\ ring' = RingAppend(ring, f) /\ log' = log \o <<f>>
      /\ stream' = Deliver(Subscribers, [i \in 1 .. Len(<<f>>) |->
                     [bseq |-> ring.lastAssigned + i, frame |-> <<f>>[i]]])
  BY DEF Publish, PublishAs
<1>2. ring.lastAssigned = Len(log)
  BY DEF HubTypes, Retains
<1>3. log' = Append(log, f)
  BY <1>1, AppendIsConcat DEF HubTypes
<1>4. IsRing(ring', Published) /\ Retains(ring', log')
  BY <1>1, <1>3, AppendKeepsWindow DEF HubTypes
<1>5. <<f>> \in Seq(Published)
  OBVIOUS
<1> QED
  BY <1>1, <1>2, <1>4, <1>5 DEF Grows, Numbered

\* A later generation clears what is retained and publishes two frames: the marker that
\* tells phones to resync, and the announcement (hub.ts, onDshReady).
LEMMA RestartGrows ==
  ASSUME HubTypes, OnDshReady, generation > 0
  PROVE  Grows(<<DshRestarted, DshReadyFrame(generation + 1)>>)
<1> DEFINE a == DshReadyFrame(generation + 1)
           fs == <<DshRestarted, a>>
           r1 == ClearRetained(ring)
           r2 == RingAppend(r1, DshRestarted)
           r3 == RingAppend(r2, a)
<1>1. /\ ring' = r3 /\ log' = log \o fs
      /\ stream' = Deliver(Subscribers, [i \in 1 .. Len(fs) |->
                     [bseq |-> ring.lastAssigned + i, frame |-> fs[i]]])
  BY DEF OnDshReady, PublishAs
<1>2. a \in Published /\ DshRestarted \in Published /\ log \in Seq(Published)
  BY FramesArePublished DEF HubTypes
<1>3. fs \in Seq(Published)
  BY <1>2
<1>4. log' = Append(Append(log, DshRestarted), a)
  <2>1. Append(log, DshRestarted) \in Seq(Published)
    BY <1>2, AppendProperties
  <2>2. Append(Append(log, DshRestarted), a) = (log \o <<DshRestarted>>) \o <<a>>
    BY <1>2, <2>1, AppendIsConcat
  <2>3. <<DshRestarted>> \in Seq(Published) /\ <<a>> \in Seq(Published)
    BY <1>2
  <2>4. (log \o <<DshRestarted>>) \o <<a>> = log \o (<<DshRestarted>> \o <<a>>)
    BY <1>2, <2>3, ConcatAssociative
  <2>5. <<DshRestarted>> \o <<a>> = fs
    <3> HIDE DEF a
    <3>1. Append(<<DshRestarted>>, a) = <<DshRestarted>> \o <<a>>
      BY <1>2, <2>3, AppendIsConcat
    <3>2. /\ Append(<<DshRestarted>>, a) \in Seq(Published)
          /\ Len(Append(<<DshRestarted>>, a)) = 2
          /\ Append(<<DshRestarted>>, a)[1] = DshRestarted
          /\ Append(<<DshRestarted>>, a)[2] = a
      BY <1>2, <2>3, AppendProperties
    <3>3. Len(fs) = 2 /\ fs[1] = DshRestarted /\ fs[2] = a
      OBVIOUS
    <3> HIDE DEF fs
    <3>4. \A i \in 1 .. 2 : Append(<<DshRestarted>>, a)[i] = fs[i]
      BY <3>2, <3>3
    <3> QED
      BY <1>3, <3>1, <3>2, <3>3, <3>4, SeqEqual
  <2> QED
    BY <1>1, <2>2, <2>4, <2>5
<1>5. IsRing(r1, Published) /\ Retains(r1, log)
  BY ClearKeepsWindow DEF HubTypes
<1> HIDE DEF r1, a
<1>6. IsRing(r2, Published) /\ Retains(r2, Append(log, DshRestarted))
  BY <1>2, <1>5, AppendKeepsWindow
<1> HIDE DEF r2
<1>7. IsRing(r3, Published) /\ Retains(r3, Append(Append(log, DshRestarted), a))
  BY <1>2, <1>6, AppendKeepsWindow, AppendProperties
<1>8. ring.lastAssigned = Len(log)
  BY DEF HubTypes, Retains
<1> QED
  BY <1>1, <1>3, <1>4, <1>7, <1>8 DEF Grows, Numbered, a

\* Every subscriber has the frames appended to what it was sent, and nothing else of it
\* changes (hub.ts, publish).
LEMMA GrowthDelivers ==
  ASSUME HubTypes, NEW fs, Grows(fs)
  PROVE  /\ Numbered(Len(log), fs) \in Seq(Envelope)
         /\ DOMAIN stream' = Stream /\ Subscribers' = Subscribers
         /\ \A s \in Stream \ Subscribers : stream'[s] = stream[s]
         /\ \A s \in Subscribers :
              /\ IsStream(stream'[s])
              /\ From(s)' = From(s) /\ stream'[s].owed = stream[s].owed
              /\ Delivered(s) \in Seq(Envelope)
              /\ Delivered(s)' = Delivered(s) \o Numbered(Len(log), fs)
<1> DEFINE E == Numbered(Len(log), fs)
<1>1. E \in Seq(Envelope)
  <2>1. log \in Seq(Published) /\ fs \in Seq(Published) /\ <<>> \in Seq(Envelope)
        /\ Faithful(<<>>, Len(log), log) /\ Len(log) \in 0 .. Len(log)
    BY NothingIsFaithful, EmptySeq, LenProperties DEF HubTypes, Grows
  <2> QED
    BY <2>1, DeliveryIsFaithful
<1>2. /\ DOMAIN stream' = Stream
      /\ \A s \in Stream : stream'[s] = IF s \in Subscribers
                                        THEN [stream[s] EXCEPT !.live = @ \o E] ELSE stream[s]
  BY DEF Grows, Deliver
<1>3. Subscribers' = Subscribers
  BY <1>2 DEF Subscribers, HubTypes, IsStream
<1> HIDE DEF E
<1>4. ASSUME NEW s \in Subscribers
      PROVE  /\ IsStream(stream'[s])
             /\ From(s)' = From(s) /\ stream'[s].owed = stream[s].owed
             /\ Delivered(s) \in Seq(Envelope)
             /\ Delivered(s)' = Delivered(s) \o E
  <2>1. s \in Stream /\ IsStream(stream[s])
    BY DEF Subscribers, HubTypes
  <2>2. /\ stream[s].backlog \in Seq(Envelope) /\ stream[s].live \in Seq(Envelope)
        /\ Delivered(s) \in Seq(Envelope)
        /\ Delivered(s) = stream[s].backlog \o stream[s].live
    BY <2>1, ConcatProperties DEF IsStream, Delivered
  <2>3. stream'[s] = [stream[s] EXCEPT !.live = stream[s].live \o E]
    BY <1>2, <2>1
  <2>4. /\ DOMAIN stream'[s] = DOMAIN stream[s]
        /\ stream'[s].live = stream[s].live \o E /\ stream'[s].backlog = stream[s].backlog
        /\ stream'[s].after = stream[s].after /\ stream'[s].lastBseq = stream[s].lastBseq
        /\ stream'[s].resynced = stream[s].resynced /\ stream'[s].owed = stream[s].owed
    BY <2>1, <2>3 DEF IsStream
  <2>5. stream[s].live \o E \in Seq(Envelope)
    BY <1>1, <2>2, ConcatProperties
  <2>6. Delivered(s)' = Delivered(s) \o E
    <3> DEFINE b == stream[s].backlog
               l == stream[s].live
    <3>1. b \in Seq(Envelope) /\ l \in Seq(Envelope)
      BY <2>2
    <3>2. Delivered(s)' = b \o (l \o E)
      BY <2>4 DEF Delivered
    <3> HIDE DEF b, l
    <3>3. (b \o l) \o E = b \o (l \o E)
      <4>1. E \in Seq(Envelope)
        BY <1>1
      <4> HIDE DEF E
      <4> QED
        BY SMTT(40), <3>1, <4>1, ConcatAssociative
    <3> QED
      BY <2>2, <3>2, <3>3 DEF b, l
  <2> QED
    BY <2>1, <2>2, <2>4, <2>5, <2>6 DEF IsStream, From
<1> QED
  BY <1>1, <1>2, <1>3, <1>4 DEF E

\* Whatever else it does, a step that publishes keeps the types and tells every
\* subscriber the truth.
LEMMA GrowthKeepsStreams ==
  ASSUME HubTypes, StreamsAreFaithful, NEW fs, Grows(fs),
         generation' \in Nat, pending' \subseteq Rpc
  PROVE  HubTypes' /\ StreamsAreFaithful'
<1>1. /\ log \in Seq(Published) /\ fs \in Seq(Published) /\ log' = log \o fs
      /\ log' \in Seq(Published) /\ Len(log') = Len(log) + Len(fs)
      /\ Len(log) \in Nat /\ Len(fs) \in Nat
  BY ConcatProperties, LenProperties DEF HubTypes, Grows
<1>2. ASSUME NEW s \in Subscribers
      PROVE  /\ From(s) \in 0 .. Len(log)
             /\ Faithful(Delivered(s)', From(s), log')
  <2>1. /\ From(s) \in 0 .. Len(log) /\ Faithful(Delivered(s), From(s), log)
        /\ Delivered(s) \in Seq(Envelope)
        /\ Delivered(s)' = Delivered(s) \o Numbered(Len(log), fs)
    BY GrowthDelivers DEF HubTypes, StreamsAreFaithful
  <2>2. Faithful(Delivered(s) \o Numbered(Len(log), fs), From(s), log')
    BY <1>1, <2>1, DeliveryIsFaithful
  <2> QED
    BY <2>1, <2>2
<1>3. \A s \in Stream : IsStream(stream'[s])
  BY GrowthDelivers DEF HubTypes
<1>4. \A s \in Subscribers' : From(s)' \in 0 .. Len(log') /\ Faithful(Delivered(s)', From(s)', log')
  BY <1>1, <1>2, GrowthDelivers
<1>5. HubTypes'
  BY <1>1, <1>3, <1>4, GrowthDelivers DEF HubTypes, Grows
<1>6. StreamsAreFaithful'
  BY <1>4 DEF StreamsAreFaithful
<1> QED
  BY <1>5, <1>6

\* A live stream that was told the history h from its cursor on.
Truthful(x, h) ==
  LET from == IF x.resynced THEN x.lastBseq ELSE x.after
  IN  from \in 0 .. Len(h) /\ Faithful(x.backlog \o x.live, from, h)

\* A step that publishes nothing keeps the first layer as long as every stream it touches
\* is dead afterwards, or was told the truth.
LEMMA SilenceKeepsStreams ==
  ASSUME HubTypes, StreamsAreFaithful, UNCHANGED <<ring, log, generation>>,
         pending' \subseteq Rpc, DOMAIN stream' = Stream,
         \A s \in Stream : \/ stream'[s] = stream[s]
                           \/ /\ IsStream(stream'[s])
                              /\ stream'[s].state = "live" => Truthful(stream'[s], log)
  PROVE  HubTypes' /\ StreamsAreFaithful'
<1>1. \A s \in Stream : IsStream(stream'[s])
  BY DEF HubTypes
<1>2. ASSUME NEW s \in Subscribers'
      PROVE  From(s)' \in 0 .. Len(log') /\ Faithful(Delivered(s)', From(s)', log')
  <2>1. s \in Stream /\ stream'[s].state = "live" /\ log' = log
    BY DEF Subscribers
  <2>2. CASE stream'[s] = stream[s]
    <3>1. s \in Subscribers /\ From(s)' = From(s) /\ Delivered(s)' = Delivered(s)
      BY <2>1, <2>2 DEF Subscribers, From, Delivered
    <3> QED
      BY <2>1, <3>1 DEF HubTypes, StreamsAreFaithful
  <2>3. CASE Truthful(stream'[s], log)
    BY <2>1, <2>3 DEF Truthful, From, Delivered
  <2> QED
    BY <2>1, <2>2, <2>3
<1> QED
  BY <1>1, <1>2 DEF HubTypes, StreamsAreFaithful

\* A subscriber before it attaches.
LEMMA UnattachedIsStream ==
  /\ IsStream(unattached)
  /\ unattached.state = "new" /\ unattached.backlog = <<>> /\ unattached.live = <<>>
<1>1. <<>> \in Seq(Envelope)
  BY EmptySeq
<1> QED
  BY <1>1 DEF IsStream, unattached

\* An attach hands over a whole delta, or nothing and the number to go on from (hub.ts,
\* attach).
LEMMA AttachKeepsStreams ==
  ASSUME HubTypes, StreamsAreFaithful, NEW s \in Stream, NEW after \in Nat, NEW owed,
         AttachWith(s, after, owed)
  PROVE  HubTypes' /\ StreamsAreFaithful'
<1> DEFINE read == ReadAfter(ring, after)
           x == stream'[s]
<1>1. /\ \A t \in Stream \ {s} : stream'[t] = stream[t]
      /\ DOMAIN stream' = Stream
      /\ UNCHANGED <<ring, log, generation, pending>>
  BY DEF AttachWith, HubTypes
<1>2. /\ DOMAIN x = DOMAIN unattached
      /\ x.state = "live" /\ x.after = after /\ x.resynced = (~ read.ok)
      /\ x.lastBseq = read.lastBseq /\ x.backlog = read.frames /\ x.live = <<>>
  BY DEF AttachWith, HubTypes, unattached
<1>3. /\ DOMAIN unattached = {"state", "after", "resynced", "lastBseq", "backlog",
                              "snapshots", "owed", "live"}
      /\ <<>> \in Seq(Envelope) /\ Len(log) \in Nat /\ ring.lastAssigned = Len(log)
      /\ log \in Seq(Published)
  BY EmptySeq, LenProperties DEF unattached, HubTypes, Retains
<1> HIDE DEF x
<1>4. CASE Refuses(ring, after)
  <2>1. read = [ok |-> FALSE, frames |-> <<>>, lastBseq |-> Len(log)]
    BY <1>3, <1>4 DEF ReadAfter
  <2>2. x.resynced = TRUE /\ x.lastBseq = Len(log) /\ x.backlog = <<>>
    <3>1. read.ok = FALSE /\ read.lastBseq = Len(log) /\ read.frames = <<>>
      BY <2>1
    <3> HIDE DEF read
    <3> QED
      BY <1>2, <3>1, Zenon
  <2>3. IsStream(x)
    BY <1>2, <1>3, <2>2 DEF IsStream
  <2>4. x.backlog \o x.live = <<>>
    BY <1>2, <1>3, <2>2, ConcatEmptySeq
  <2>5. Truthful(x, log)
    BY <1>3, <2>2, <2>4, NothingIsFaithful DEF Truthful
  <2> QED
    BY <1>1, <2>3, <2>5, SilenceKeepsStreams DEF x, HubTypes
<1>5. CASE ~ Refuses(ring, after)
  <2>1. read = [ok |-> TRUE, frames |-> FramesAfter(ring, after), lastBseq |-> Len(log)]
    BY <1>3, <1>5 DEF ReadAfter
  <2>2. after \in 0 .. Len(log) /\ FramesAfter(ring, after) = SuffixOf(log, after)
    BY <1>5, DeltaIsSuffix DEF HubTypes
  <2>3. x.resynced = FALSE /\ x.lastBseq = Len(log) /\ x.backlog = SuffixOf(log, after)
    <3>1. /\ read.ok = TRUE /\ read.lastBseq = Len(log)
          /\ read.frames = FramesAfter(ring, after)
      BY <2>1
    <3> HIDE DEF read
    <3>2. x.resynced = FALSE
      BY <1>2, <3>1, Zenon
    <3> QED
      BY <1>2, <2>2, <3>1, <3>2
  <2>4. x.backlog \in Seq(Envelope) /\ Faithful(x.backlog, after, log)
    BY <1>3, <2>2, <2>3, DeltaIsFaithful
  <2>5. IsStream(x)
    BY <1>2, <1>3, <2>3, <2>4 DEF IsStream
  <2>6. x.backlog \o x.live = x.backlog
    BY <1>2, <2>4, ConcatEmptySeq
  <2>7. Truthful(x, log)
    BY <1>2, <2>2, <2>3, <2>4, <2>6 DEF Truthful
  <2> QED
    BY <1>1, <2>5, <2>7, SilenceKeepsStreams DEF x, HubTypes
<1> QED
  BY <1>4, <1>5

\* Detaching takes a subscriber away and tells no one.
LEMMA DetachKeepsStreams ==
  ASSUME HubTypes, StreamsAreFaithful, NEW s \in Stream, Detach(s)
  PROVE  HubTypes' /\ StreamsAreFaithful'
<1>1. /\ \A t \in Stream \ {s} : stream'[t] = stream[t]
      /\ DOMAIN stream' = Stream
      /\ UNCHANGED <<ring, log, generation, pending>>
      /\ stream'[s] = [unattached EXCEPT !.state = "closed"]
  BY DEF Detach, HubTypes
<1>2. IsStream(stream'[s]) /\ stream'[s].state # "live"
  BY <1>1, UnattachedIsStream DEF IsStream
<1> QED
  BY <1>1, <1>2, SilenceKeepsStreams DEF HubTypes

\* A revoked device's streams are dropped with a notice (hub.ts, disconnectDevice).
LEMMA DisconnectKeepsStreams ==
  ASSUME HubTypes, StreamsAreFaithful, NEW d, DisconnectDevice(d)
  PROVE  HubTypes' /\ StreamsAreFaithful'
<1>1. /\ DOMAIN stream' = Stream
      /\ UNCHANGED <<ring, log, generation, pending>>
  BY DEF DisconnectDevice
<1>2. ring.lastAssigned \in Nat /\ DeviceRevoked \in Notice
  BY DEF HubTypes, IsRing, Notice
<1>3. ASSUME NEW s \in Stream
      PROVE  \/ stream'[s] = stream[s]
             \/ IsStream(stream'[s]) /\ stream'[s].state # "live"
  <2> DEFINE e == [bseq |-> ring.lastAssigned, frame |-> DeviceRevoked]
             x == [unattached EXCEPT !.state = "dropped", !.live = <<e>>]
  <2>1. stream'[s] = stream[s] \/ stream'[s] = x
    BY DEF DisconnectDevice
  <2>2. e \in Envelope
    BY <1>2 DEF Envelope
  <2> HIDE DEF e
  <2>3. <<e>> \in Seq(Envelope)
    BY <2>2
  <2>4. IsStream(x) /\ x.state # "live"
    BY <2>3, UnattachedIsStream DEF IsStream
  <2> QED
    BY <2>1, <2>4
<1> QED
  BY <1>1, <1>3, SilenceKeepsStreams DEF HubTypes

\* The expiry warning goes to one device, beside the log (hub.ts, notifyDevice).
LEMMA NotifyKeepsStreams ==
  ASSUME HubTypes, StreamsAreFaithful, NEW d, NotifyDevice(d)
  PROVE  HubTypes' /\ StreamsAreFaithful'
<1> DEFINE e == [bseq |-> ring.lastAssigned, frame |-> TokenExpiring]
<1>1. /\ DOMAIN stream' = Stream
      /\ UNCHANGED <<ring, log, generation, pending>>
  BY DEF NotifyDevice, Deliver
<1>2. e \in Envelope /\ e.frame \in Notice
  BY DEF HubTypes, IsRing, Notice, Envelope
<1>3. ASSUME NEW s \in Stream
      PROVE  \/ stream'[s] = stream[s]
             \/ /\ s \in Subscribers
                /\ stream'[s] = [stream[s] EXCEPT !.live = @ \o <<e>>]
  BY DEF NotifyDevice, Deliver
<1> HIDE DEF e
<1>4. ASSUME NEW s \in Subscribers, stream'[s] = [stream[s] EXCEPT !.live = @ \o <<e>>]
      PROVE  IsStream(stream'[s]) /\ Truthful(stream'[s], log)
  <2> DEFINE b == stream[s].backlog
             l == stream[s].live
  <2>1. /\ IsStream(stream[s]) /\ From(s) \in 0 .. Len(log)
        /\ b \in Seq(Envelope) /\ l \in Seq(Envelope) /\ <<e>> \in Seq(Envelope)
        /\ Faithful(b \o l, From(s), log)
    BY <1>2 DEF Subscribers, HubTypes, IsStream, StreamsAreFaithful, Delivered
  <2>2. /\ DOMAIN stream'[s] = DOMAIN stream[s]
        /\ stream'[s].live = l \o <<e>> /\ stream'[s].backlog = b
        /\ stream'[s].after = stream[s].after /\ stream'[s].lastBseq = stream[s].lastBseq
        /\ stream'[s].resynced = stream[s].resynced
    BY <1>4, <2>1 DEF IsStream
  <2> HIDE DEF b, l
  <2>3. b \o l \in Seq(Envelope) /\ l \o <<e>> \in Seq(Envelope)
    BY <2>1, ConcatProperties
  <2>4. Faithful((b \o l) \o <<e>>, From(s), log)
    BY <1>2, <2>1, <2>3, NoticeIsFaithful
  <2>5. (b \o l) \o <<e>> = b \o (l \o <<e>>)
    BY <2>1, ConcatAssociative
  <2>6. IsStream(stream'[s])
    BY <2>1, <2>2, <2>3 DEF IsStream, b
  <2> QED
    BY <2>1, <2>2, <2>4, <2>5, <2>6 DEF Truthful, From
<1> QED
  BY <1>1, <1>3, <1>4, SilenceKeepsStreams DEF HubTypes
-----------------------------------------------------------------------------
\* The second layer: what the history says is open, and what is newest in it.

Marker(h, i) == h[i] = DshRestarted
StartIn(h) ==
  LET markers == {i \in 1 .. Len(h) : Marker(h, i)}
  IN  IF markers = {} THEN 1 ELSE CHOOSE i \in markers : \A j \in markers : j <= i
\* The generation that h ends with begins at g.
IsStart(h, g) ==
  /\ \/ g = 1 /\ \A i \in 1 .. Len(h) : ~ Marker(h, i)
     \/ g \in 1 .. Len(h) /\ Marker(h, g)
  /\ \A i \in g + 1 .. Len(h) : ~ Marker(h, i)

\* From g on, h asks for r and neither resolves it nor removes its session.
Asked(h, g, r) ==
  \E i \in g .. Len(h) :
    /\ h[i] = Requested(r)
    /\ \A j \in i + 1 .. Len(h) : h[j] \notin {Resolved(r), Removed(SessionOf[r])}

\* The projection numbers h holds for session s, from g on and since s last went away.
Projected(h, g, s) ==
  {n \in 1 .. MaxSeq :
     \E i \in g .. Len(h) : h[i] = Projection(s, n) /\ \A j \in i .. Len(h) : h[j] # Removed(s)}

\* Frames of different kinds are different, and a frame determines what it is about.
LEMMA RequestsDiffer ==
  /\ \A r, q : Requested(r) = Requested(q) <=> r = q
  /\ \A r, q : Requested(r) # Resolved(q)
  /\ \A r, s : Requested(r) # Removed(s) /\ Requested(r) # DshRestarted
  BY DEF Requested, Resolved, Removed, DshRestarted

\* The resolutions of two obligations are two frames.
LEMMA ResolutionsDiffer ==
  /\ \A r, q : Resolved(r) = Resolved(q) <=> r = q
  /\ \A r, s : Resolved(r) # Removed(s) /\ Resolved(r) # DshRestarted
  BY DEF Resolved, Removed, DshRestarted

\* The removals of two sessions are two frames.
LEMMA RemovalsDiffer ==
  /\ \A s, t : Removed(s) = Removed(t) <=> s = t
  /\ \A s : Removed(s) # DshRestarted
  BY DEF Removed, DshRestarted

\* The projections of two sessions, or with two numbers, are two frames.
LEMMA ProjectionsDiffer ==
  /\ \A s, n, t, m : Projection(s, n) = Projection(t, m) <=> s = t /\ n = m
  /\ \A s, n, r : Projection(s, n) # Requested(r) /\ Projection(s, n) # Resolved(r)
  /\ \A s, n, t : Projection(s, n) # Removed(t)
  /\ \A s, n : Projection(s, n) # DshRestarted
  BY DEF Projection, Requested, Resolved, Removed, DshRestarted

\* The frames that concern neither an obligation, a projection, a removal nor a restart.
Plain(f) ==
  /\ \A r : f # Requested(r) /\ f # Resolved(r)
  /\ \A s : f # Removed(s)
  /\ \A s, n : f # Projection(s, n)
  /\ f # DshRestarted

\* The frames that concern none of the ledger's entries.
LEMMA OthersArePlain ==
  /\ \A s : Plain(Queue(s)) /\ Plain(Event(s))
  /\ Plain(Workspace) /\ Plain(DshDisconnected)
  /\ \A g : Plain(DshReadyFrame(g))
  BY DEF Plain, Queue, Event, Workspace, DshDisconnected, DshReadyFrame,
         Requested, Resolved, Removed, Projection, DshRestarted

\* There is one place where the last generation starts.
LEMMA StartIsUnique ==
  ASSUME NEW h \in Seq(Published), NEW g, IsStart(h, g)
  PROVE  StartIn(h) = g /\ g \in 1 .. Len(h) + 1
<1> DEFINE markers == {i \in 1 .. Len(h) : Marker(h, i)}
           c == CHOOSE i \in markers : \A j \in markers : j <= i
<1>1. Len(h) \in Nat
  BY LenProperties
<1>2. CASE g = 1 /\ \A i \in 1 .. Len(h) : ~ Marker(h, i)
  <2>1. markers = {}
    BY <1>2
  <2> QED
    BY <1>1, <1>2, <2>1 DEF StartIn
<1>3. CASE g \in 1 .. Len(h) /\ Marker(h, g)
  <2>1. g \in markers /\ \A j \in markers : j <= g
    BY <1>1, <1>3 DEF IsStart
  <2>2. markers # {} /\ markers \subseteq Nat
    BY <2>1
  <2> HIDE DEF markers
  <2>3. c \in markers /\ \A j \in markers : j <= c
    BY <2>1
  <2>4. c = g
    <3> HIDE DEF c
    <3>1. c \in Nat /\ g \in Nat /\ g <= c /\ c <= g
      BY <2>1, <2>2, <2>3
    <3> QED
      BY <3>1
  <2>5. StartIn(h) = c
    BY <2>2 DEF StartIn, markers
  <2> QED
    BY <1>1, <1>3, <2>4, <2>5
<1> QED
  BY <1>2, <1>3 DEF IsStart

\* A history that one frame was added to.
LEMMA LastFrame ==
  ASSUME NEW h \in Seq(Published), NEW f \in Published
  PROVE  /\ Len(h) \in Nat /\ Len(h \o <<f>>) = Len(h) + 1
         /\ \A i \in 1 .. Len(h) : (h \o <<f>>)[i] = h[i]
         /\ (h \o <<f>>)[Len(h) + 1] = f
  BY LenProperties, AppendIsConcat, AppendProperties

\* Any frame but the marker leaves the start where it is.
LEMMA StartGrows ==
  ASSUME NEW h \in Seq(Published), NEW f \in Published, f # DshRestarted,
         NEW g, IsStart(h, g)
  PROVE  IsStart(h \o <<f>>, g)
<1> DEFINE k == h \o <<f>>
<1>1. /\ Len(h) \in Nat /\ Len(k) = Len(h) + 1 /\ g \in 1 .. Len(h) + 1
      /\ \A i \in 1 .. Len(h) : k[i] = h[i]
      /\ k[Len(h) + 1] = f
  BY LastFrame, StartIsUnique
<1> HIDE DEF k
<1>2. \A i \in 1 .. Len(h) : Marker(k, i) <=> Marker(h, i)
  BY <1>1 DEF Marker
<1>3. ~ Marker(k, Len(h) + 1)
  BY <1>1 DEF Marker
<1> QED
  BY <1>1, <1>2, <1>3 DEF IsStart, k

\* One more frame asks for r, ends what was asked, or leaves it as it was.
LEMMA AskedGrows ==
  ASSUME NEW h \in Seq(Published), NEW f \in Published, NEW g \in 1 .. Len(h) + 1, NEW r
  PROVE  Asked(h \o <<f>>, g, r) <=> \/ f = Requested(r)
                                     \/ /\ Asked(h, g, r)
                                        /\ f \notin {Resolved(r), Removed(SessionOf[r])}
<1> DEFINE k == h \o <<f>>
           m == Len(h)
           Over == {Resolved(r), Removed(SessionOf[r])}
<1>1. /\ m \in Nat /\ Len(k) = m + 1 /\ g \in Nat
      /\ \A i \in 1 .. m : k[i] = h[i]
      /\ k[m + 1] = f
  BY LastFrame
<1> HIDE DEF k, m, Over
<1>2. ASSUME f = Requested(r)
      PROVE  Asked(k, g, r)
  <2>1. m + 1 \in g .. Len(k) /\ m + 1 + 1 .. Len(k) = {}
    BY <1>1 DEF m
  <2> QED
    BY <1>1, <1>2, <2>1 DEF Asked
<1>3. ASSUME Asked(h, g, r), f \notin Over
      PROVE  Asked(k, g, r)
  <2>1. PICK i \in g .. m : h[i] = Requested(r) /\ \A j \in i + 1 .. m : h[j] \notin Over
    BY <1>3 DEF Asked, m, Over
  <2>2. i \in g .. Len(k) /\ k[i] = Requested(r)
    BY <1>1, <2>1 DEF m
  <2>3. \A j \in i + 1 .. Len(k) : k[j] \notin Over
    BY <1>1, <1>3, <2>1 DEF m
  <2> QED
    BY <2>2, <2>3 DEF Asked, Over
<1>4. ASSUME Asked(k, g, r), f # Requested(r)
      PROVE  Asked(h, g, r) /\ f \notin Over
  <2>1. PICK i \in g .. Len(k) :
          k[i] = Requested(r) /\ \A j \in i + 1 .. Len(k) : k[j] \notin Over
    BY <1>4 DEF Asked, Over
  <2>2. i \in g .. m
    BY <1>1, <1>4, <2>1 DEF m
  <2>3. m + 1 \in i + 1 .. Len(k)
    BY <1>1, <2>2 DEF m
  <2>4. h[i] = Requested(r) /\ \A j \in i + 1 .. m : h[j] \notin Over
    BY <1>1, <2>1, <2>2 DEF m
  <2> QED
    BY <1>1, <2>1, <2>2, <2>3, <2>4 DEF Asked, m, Over
<1> QED
  BY <1>2, <1>3, <1>4 DEF k, Over

\* One more frame ends a session's projections, adds one, or leaves them alone.
LEMMA SentGrows ==
  ASSUME NEW h \in Seq(Published), NEW f \in Published, NEW g \in 1 .. Len(h) + 1, NEW s
  PROVE  Projected(h \o <<f>>, g, s) =
           IF f = Removed(s) THEN {}
           ELSE Projected(h, g, s) \cup {n \in 1 .. MaxSeq : f = Projection(s, n)}
<1> DEFINE k == h \o <<f>>
           m == Len(h)
<1>1. /\ m \in Nat /\ Len(k) = m + 1 /\ g \in Nat
      /\ \A i \in 1 .. m : k[i] = h[i]
      /\ k[m + 1] = f
  BY LastFrame
<1> HIDE DEF k, m
<1>2. ASSUME f = Removed(s)
      PROVE  Projected(k, g, s) = {}
  <2>1. \A i \in g .. Len(k) : m + 1 \in i .. Len(k)
    BY <1>1 DEF m
  <2> QED
    BY <1>1, <1>2, <2>1 DEF Projected
<1>3. ASSUME f # Removed(s), NEW n \in 1 .. MaxSeq
      PROVE  n \in Projected(k, g, s) <=> n \in Projected(h, g, s) \/ f = Projection(s, n)
  <2>1. ASSUME f = Projection(s, n)
        PROVE  n \in Projected(k, g, s)
    <3>1. m + 1 \in g .. Len(k) /\ \A j \in m + 1 .. Len(k) : j = m + 1
      BY <1>1 DEF m
    <3> QED
      BY <1>1, <1>3, <2>1, <3>1 DEF Projected
  <2>2. ASSUME n \in Projected(h, g, s)
        PROVE  n \in Projected(k, g, s)
    <3>1. PICK i \in g .. m : h[i] = Projection(s, n) /\ \A j \in i .. m : h[j] # Removed(s)
      BY <2>2 DEF Projected, m
    <3>2. i \in g .. Len(k) /\ k[i] = Projection(s, n)
      BY <1>1, <3>1 DEF m
    <3>3. \A j \in i .. Len(k) : k[j] # Removed(s)
      BY <1>1, <1>3, <3>1 DEF m
    <3> QED
      BY <3>2, <3>3 DEF Projected
  <2>3. ASSUME n \in Projected(k, g, s), f # Projection(s, n)
        PROVE  n \in Projected(h, g, s)
    <3>1. PICK i \in g .. Len(k) :
            k[i] = Projection(s, n) /\ \A j \in i .. Len(k) : k[j] # Removed(s)
      BY <2>3 DEF Projected
    <3>2. i \in g .. m
      BY <1>1, <2>3, <3>1 DEF m
    <3>3. h[i] = Projection(s, n) /\ \A j \in i .. m : h[j] # Removed(s)
      BY <1>1, <3>1, <3>2 DEF m
    <3> QED
      BY <3>2, <3>3 DEF Projected, m
  <2> QED
    BY <2>1, <2>2, <2>3
<1>4. /\ Projected(k, g, s) \subseteq 1 .. MaxSeq
      /\ Projected(h, g, s) \subseteq 1 .. MaxSeq
  BY DEF Projected
<1>5. f # Removed(s) =>
        Projected(k, g, s) = Projected(h, g, s) \cup {n \in 1 .. MaxSeq : f = Projection(s, n)}
  BY <1>3, <1>4
<1> QED
  BY <1>2, <1>5 DEF k

\* Behind a fresh restart marker nothing is open and no projection is known.
LEMMA NothingAfterRestart ==
  ASSUME NEW h \in Seq(Published), NEW f \in Published, Plain(f)
  PROVE  LET k == h \o <<DshRestarted, f>>
             g == Len(h) + 1
         IN  /\ IsStart(k, g)
             /\ \A r : ~ Asked(k, g, r)
             /\ \A s : Projected(k, g, s) = {}
<1> DEFINE k == h \o <<DshRestarted, f>>
           g == Len(h) + 1
<1>1. <<DshRestarted, f>> \in Seq(Published) /\ Len(<<DshRestarted, f>>) = 2
  BY FramesArePublished
<1>2. /\ g \in Nat /\ g >= 1 /\ Len(k) = g + 1
      /\ k[g] = DshRestarted /\ k[g + 1] = f
  <2>1. /\ Len(k) = Len(h) + 2
        /\ \A i \in 1 .. Len(h) + 2 :
             k[i] = IF i <= Len(h) THEN h[i] ELSE <<DshRestarted, f>>[i - Len(h)]
    BY <1>1, ConcatProperties
  <2>2. Len(h) \in Nat
    BY LenProperties
  <2> HIDE DEF k
  <2>3. g \in 1 .. Len(h) + 2 /\ g + 1 \in 1 .. Len(h) + 2 /\ g - Len(h) = 1
        /\ (g + 1) - Len(h) = 2
    BY <2>2
  <2>4. k[g] = <<DshRestarted, f>>[1] /\ k[g + 1] = <<DshRestarted, f>>[2]
    BY <2>1, <2>2, <2>3
  <2> QED
    BY <2>1, <2>2, <2>4
<1> HIDE DEF k, g
<1>3. \A i \in g .. Len(k) : i = g \/ i = g + 1
  BY <1>2
<1>4. IsStart(k, g)
  BY <1>2, <1>3 DEF IsStart, Marker, Plain
<1>5. \A r : ~ Asked(k, g, r)
  BY <1>2, <1>3, RequestsDiffer DEF Asked, Plain
<1>6. \A s : Projected(k, g, s) = {}
  BY <1>2, <1>3, ProjectionsDiffer DEF Projected, Plain
<1> QED
  BY <1>4, <1>5, <1>6 DEF k, g
-----------------------------------------------------------------------------
\* The stores agree with the history.

Key(s) == <<"session/projection", s>>

StartIsKnown == IsStart(log, StartIn(log))

\* PendingIsOpen over values.
ObligationsAreOpen ==
  /\ pending = {r \in Rpc : r \notin consumed /\ Asked(log, StartIn(log), r)}
  /\ byApprovalId = pending \cap Approval

\* ProjectionIsNewest for one session, and the high-water number is the one of the stored
\* projection: without it a redelivery could not be told from news.
ProjectionOf(s) ==
  LET seqs == Projected(log, StartIn(log), s)
  IN  IF seqs = {} THEN Key(s) \notin DOMAIN snapshots /\ Key(s) \notin DOMAIN projectionSeq
      ELSE /\ Key(s) \in DOMAIN snapshots /\ Key(s) \in DOMAIN projectionSeq
           /\ projectionSeq[Key(s)] = snapshots[Key(s)].seq
           /\ snapshots[Key(s)].seq \in seqs
           /\ \A n \in seqs : n <= snapshots[Key(s)].seq

Ledger == StartIsKnown /\ ObligationsAreOpen /\ \A s \in Session : ProjectionOf(s)

\* Until the next restart the start of the generation does not move.
LEMMA StartStays ==
  ASSUME log \in Seq(Published), StartIsKnown, NEW f \in Published, f # DshRestarted,
         log' = log \o <<f>>
  PROVE  /\ StartIn(log) \in 1 .. Len(log) + 1
         /\ StartIn(log') = StartIn(log)
         /\ StartIsKnown'
<1>1. IsStart(log', StartIn(log))
  BY StartGrows DEF StartIsKnown
<1>2. log' \in Seq(Published)
  BY ConcatProperties
<1>3. StartIn(log') = StartIn(log)
  BY <1>1, <1>2, StartIsUnique
<1> QED
  BY <1>1, <1>3, StartIsUnique DEF StartIsKnown

\* What one more frame does to the two readings of the history.
LEMMA ReadingsGrow ==
  ASSUME log \in Seq(Published), StartIsKnown, NEW f \in Published, f # DshRestarted,
         log' = log \o <<f>>
  PROVE  /\ \A r : Asked(log', StartIn(log'), r) <=>
                     \/ f = Requested(r)
                     \/ /\ Asked(log, StartIn(log), r)
                        /\ f \notin {Resolved(r), Removed(SessionOf[r])}
         /\ \A s : Projected(log', StartIn(log'), s) =
                     IF f = Removed(s) THEN {}
                     ELSE Projected(log, StartIn(log), s)
                          \cup {n \in 1 .. MaxSeq : f = Projection(s, n)}
<1> DEFINE g == StartIn(log)
<1>1. g \in 1 .. Len(log) + 1 /\ StartIn(log') = g
  BY StartStays
<1> HIDE DEF g
<1>2. \A r : Asked(log \o <<f>>, g, r) <=>
               \/ f = Requested(r)
               \/ /\ Asked(log, g, r)
                  /\ f \notin {Resolved(r), Removed(SessionOf[r])}
  BY <1>1, AskedGrows
<1>3. \A s : Projected(log \o <<f>>, g, s) =
               IF f = Removed(s) THEN {}
               ELSE Projected(log, g, s) \cup {n \in 1 .. MaxSeq : f = Projection(s, n)}
  BY ZenonT(40), <1>1, SentGrows
<1> QED
  BY <1>1, <1>2, <1>3 DEF g

\* Put changes one key.
LEMMA PutFacts ==
  ASSUME NEW map, NEW key, NEW value
  PROVE  /\ key \in DOMAIN Put(map, key, value) /\ Put(map, key, value)[key] = value
         /\ \A x : x # key =>
              /\ x \in DOMAIN Put(map, key, value) <=> x \in DOMAIN map
              /\ x \in DOMAIN map => Put(map, key, value)[x] = map[x]
  BY DEF Put

\* The kinds of frames the mux stream carries.
LEMMA MuxFrameKinds ==
  ASSUME NEW f \in MuxFrame
  PROVE  \/ \E r \in Rpc : f = Requested(r) \/ f = Resolved(r)
         \/ \E s \in Session, n \in 1 .. MaxSeq : f = Projection(s, n)
         \/ \E s \in Session : f = Queue(s) \/ f = Event(s)
  BY DEF MuxFrame

\* A frame that is not a projection of session s is not filed under its key.
LEMMA OtherKeys ==
  ASSUME NEW f \in MuxFrame \cup {Workspace}, NEW s, \A n : f # Projection(s, n),
         SnapshotFrame(f)
  PROVE  SnapshotKey(f) # Key(s)
<1>1. CASE \E t \in Session, n \in 1 .. MaxSeq : f = Projection(t, n)
  BY <1>1 DEF SnapshotKey, Key, Projection
<1>2. CASE \E t \in Session : f = Queue(t)
  BY <1>2 DEF SnapshotKey, Key, Queue
<1>3. CASE f = Workspace
  BY <1>3 DEF SnapshotKey, Key, Workspace
<1>4. CASE \E r \in Rpc : f = Requested(r) \/ f = Resolved(r)
  BY <1>4 DEF SnapshotFrame, Requested, Resolved
<1>5. CASE \E t \in Session : f = Event(t)
  BY <1>5 DEF SnapshotFrame, Event
<1> QED
  BY <1>1, <1>2, <1>3, <1>4, <1>5, MuxFrameKinds

\* No frame of dsh is the marker of a restart.
LEMMA IngestedIsNoMarker ==
  /\ \A f \in MuxFrame \cup {Workspace} :
       f # DshRestarted /\ f \in Published /\ \A s : f # Removed(s)
  /\ \A s \in Session : Removed(s) \in Published
<1>1. ASSUME NEW f \in MuxFrame
      PROVE  f # DshRestarted /\ \A s : f # Removed(s)
  BY MuxFrameKinds, RequestsDiffer, ResolutionsDiffer, ProjectionsDiffer, OthersArePlain
     DEF Plain
<1> QED
  BY <1>1, FramesArePublished, OthersArePlain DEF HostFrame, Plain

\* The store keeps, for each session, the newest projection and its number (snapshots.ts,
\* SnapshotStore.record): an older redelivery changes neither, another key's frame neither.
LEMMA RecordKeepsProjection ==
  ASSUME log \in Seq(Published), StartIsKnown,
         NEW f \in MuxFrame \cup {Workspace}, log' = log \o <<f>>, RecordSnapshot(f),
         NEW s \in Session, ProjectionOf(s)
  PROVE  ProjectionOf(s)'
<1> DEFINE old == Projected(log, StartIn(log), s)
           new == Projected(log', StartIn(log'), s)
           k == Key(s)
<1>1. f \in Published /\ f # DshRestarted /\ f # Removed(s)
  BY IngestedIsNoMarker
<1>2. new = old \cup {n \in 1 .. MaxSeq : f = Projection(s, n)}
  BY <1>1, ReadingsGrow
<1>3. old \subseteq 1 .. MaxSeq /\ MaxSeq \in Nat
  BY HubAssumption DEF Projected
<1>4. CASE \E n : f = Projection(s, n)
  <2>1. PICK n : f = Projection(s, n)
    BY <1>4
  <2>2. n \in 1 .. MaxSeq
    BY <2>1, MuxFrameKinds, RequestsDiffer, ProjectionsDiffer, OthersArePlain DEF Plain
  <2>3. new = old \cup {n}
    BY <1>2, <2>1, <2>2, ProjectionsDiffer
  <2>4. /\ SnapshotFrame(f) /\ SnapshotKey(f) = k
        /\ f.type = "session/projection" /\ f.seq = n
    BY <2>1 DEF Projection, SnapshotFrame, SnapshotKey, Key
  <2>5. CASE StaleProjection(f)
    <3>1. snapshots' = snapshots /\ projectionSeq' = projectionSeq
      BY <2>5 DEF RecordSnapshot
    <3>2. k \in DOMAIN projectionSeq /\ n <= projectionSeq[k]
      BY <2>4, <2>5 DEF StaleProjection
    <3> HIDE DEF old, new
    <3> QED
      BY <2>3, <3>1, <3>2 DEF ProjectionOf, old, new
  <2>6. CASE ~ StaleProjection(f)
    <3>1. snapshots' = Put(snapshots, k, f) /\ projectionSeq' = Put(projectionSeq, k, n)
      BY <2>4, <2>6 DEF RecordSnapshot
    <3>2. /\ k \in DOMAIN snapshots' /\ snapshots'[k] = f
          /\ k \in DOMAIN projectionSeq' /\ projectionSeq'[k] = n
      BY <3>1, PutFacts
    <3>3. \A m \in old : m <= n
      <4>1. k \in DOMAIN projectionSeq => ~ (n <= projectionSeq[k])
        BY <2>4, <2>6 DEF StaleProjection
      <4> HIDE DEF old
      <4>2. CASE old = {}
        BY <4>2
      <4>3. CASE old # {}
        <5>1. projectionSeq[k] \in old /\ \A m \in old : m <= projectionSeq[k]
          BY <4>3 DEF ProjectionOf, old
        <5> QED
          BY <1>3, <2>2, <4>1, <4>3, <5>1 DEF ProjectionOf, old
      <4> QED
        BY <4>2, <4>3
    <3> HIDE DEF old, new
    <3>4. \A m \in new : m <= n
      BY <1>3, <2>2, <2>3, <3>3
    <3> QED
      BY <2>3, <2>4, <3>2, <3>4 DEF ProjectionOf, new
  <2> QED
    BY <2>5, <2>6
<1>5. CASE \A n : f # Projection(s, n)
  <2>1. new = old
    BY <1>2, <1>5
  <2>2. /\ k \in DOMAIN snapshots' <=> k \in DOMAIN snapshots
        /\ k \in DOMAIN projectionSeq' <=> k \in DOMAIN projectionSeq
        /\ k \in DOMAIN snapshots => snapshots'[k] = snapshots[k]
        /\ k \in DOMAIN projectionSeq => projectionSeq'[k] = projectionSeq[k]
    <3>1. CASE ~ SnapshotFrame(f) \/ StaleProjection(f)
      BY <3>1 DEF RecordSnapshot
    <3>2. CASE SnapshotFrame(f) /\ ~ StaleProjection(f)
      <4>1. k # SnapshotKey(f)
        BY <1>5, <3>2, OtherKeys
      <4>2. /\ snapshots' = Put(snapshots, SnapshotKey(f), f)
            /\ \/ projectionSeq' = Put(projectionSeq, SnapshotKey(f), f.seq)
               \/ projectionSeq' = projectionSeq
        BY <3>2 DEF RecordSnapshot
      <4> HIDE DEF k
      <4> QED
        BY <4>1, <4>2, PutFacts
    <3> QED
      BY <3>1, <3>2
  <2> HIDE DEF old, new, k
  <2> QED
    BY <2>1, <2>2 DEF ProjectionOf, old, new, k
<1> QED
  BY <1>4, <1>5

\* A session that goes away takes its projection and its number with it, and no other
\* session's (snapshots.ts, SnapshotStore.forgetSession).
LEMMA ForgetKeepsProjection ==
  ASSUME log \in Seq(Published), StartIsKnown, NEW t \in Session,
         log' = log \o <<Removed(t)>>, ForgetSnapshots(t), NEW s \in Session, ProjectionOf(s)
  PROVE  ProjectionOf(s)'
<1> DEFINE k == Key(s)
<1>1. /\ Projected(log', StartIn(log'), s) =
           IF Removed(t) = Removed(s) THEN {}
           ELSE Projected(log, StartIn(log), s)
                \cup {n \in 1 .. MaxSeq : Removed(t) = Projection(s, n)}
  <2>1. Removed(t) \in Published /\ Removed(t) # DshRestarted
    BY IngestedIsNoMarker, RemovalsDiffer
  <2> QED
    BY <2>1, ReadingsGrow
<1>2. k \in DOMAIN snapshots => (k \in KeysOf(t) <=> s = t)
  BY DEF KeysOf, Key
<1>3. /\ snapshots' = [x \in DOMAIN snapshots \ KeysOf(t) |-> snapshots[x]]
      /\ projectionSeq' = [x \in DOMAIN projectionSeq \ KeysOf(t) |-> projectionSeq[x]]
  BY DEF ForgetSnapshots, Restrict
<1>4. k \in DOMAIN snapshots <=> k \in DOMAIN projectionSeq
  BY DEF ProjectionOf
<1>5. CASE s = t
  <2>1. k \notin DOMAIN snapshots' /\ k \notin DOMAIN projectionSeq'
    BY <1>2, <1>3, <1>4, <1>5
  <2> QED
    BY <1>1, <1>5, <2>1 DEF ProjectionOf
<1>6. CASE s # t
  <2>1. Projected(log', StartIn(log'), s) = Projected(log, StartIn(log), s)
    <3>1. Removed(t) # Removed(s)
      BY <1>6, RemovalsDiffer
    <3>2. {n \in 1 .. MaxSeq : Removed(t) = Projection(s, n)} = {}
      BY ProjectionsDiffer
    <3> QED
      BY <1>1, <3>1, <3>2
  <2>2. k \in DOMAIN snapshots => k \notin KeysOf(t)
    BY <1>2, <1>6
  <2>3. /\ k \in DOMAIN snapshots' <=> k \in DOMAIN snapshots
        /\ k \in DOMAIN projectionSeq' <=> k \in DOMAIN projectionSeq
        /\ k \in DOMAIN snapshots => snapshots'[k] = snapshots[k]
        /\ k \in DOMAIN projectionSeq => projectionSeq'[k] = projectionSeq[k]
    <3> HIDE DEF k
    <3> QED
      BY <1>3, <1>4, <2>2
  <2> HIDE DEF k
  <2> QED
    BY <2>1, <2>3 DEF ProjectionOf, k
<1> QED
  BY <1>5, <1>6

\* hub.ts, ingestMux: one frame is published and the stores follow it.
LEMMA MuxKeepsLedger ==
  ASSUME HubTypes, Ledger, NEW f \in MuxFrame, IngestMux(f)
  PROVE  Ledger' /\ pending' \subseteq Rpc
<1> DEFINE Open(r) == Asked(log, StartIn(log), r)
<1>1. /\ log \in Seq(Published) /\ StartIsKnown /\ f \in Published /\ f # DshRestarted
      /\ log' = log \o <<f>> /\ \A s : f # Removed(s)
  BY IngestedIsNoMarker DEF HubTypes, Ledger, IngestMux, Publish, PublishAs
<1>2. StartIsKnown'
  BY <1>1, StartStays
<1>3. \A r : Asked(log', StartIn(log'), r) <=> f = Requested(r) \/ (Open(r) /\ f # Resolved(r))
  BY <1>1, ReadingsGrow
<1>4. ASSUME NEW s \in Session
      PROVE  ProjectionOf(s)'
  BY <1>1, RecordKeepsProjection DEF Ledger, IngestMux
<1>5. /\ pending = {r \in Rpc : r \notin consumed /\ Open(r)}
      /\ byApprovalId = pending \cap Approval
  BY DEF Ledger, ObligationsAreOpen
<1> HIDE DEF Open
<1>6. CASE \E q \in Rpc : f = Requested(q)
  <2>1. PICK q \in Rpc : f = Requested(q)
    BY <1>6
  <2>2. f.rpc = q /\ f.type \in {"approval/requested", "question/requested"}
    BY <2>1 DEF Requested
  <2>3. /\ pending' = pending \cup {q} /\ byApprovalId' = byApprovalId \cup ({q} \cap Approval)
        /\ consumed' = consumed \ {q}
    BY <2>2 DEF IngestMux, Answerable, RecordPending
  <2>4. \A r : Asked(log', StartIn(log'), r) <=> r = q \/ Open(r)
    BY <1>3, <2>1, RequestsDiffer
  <2>5. pending' = {r \in Rpc : r \notin consumed' /\ Asked(log', StartIn(log'), r)}
    BY <1>5, <2>3, <2>4
  <2>6. byApprovalId' = pending' \cap Approval
    BY <1>5, <2>3
  <2> QED
    BY <1>2, <1>4, <2>5, <2>6 DEF Ledger, ObligationsAreOpen
<1>7. CASE \E q \in Rpc : f = Resolved(q)
  <2>1. PICK q \in Rpc : f = Resolved(q)
    BY <1>7
  <2>2. f.rpc = q /\ f.type \in {"approval/resolved", "question/resolved"}
    BY <2>1 DEF Resolved
  <2>3. ResolvePending(q) /\ consumed' = consumed
    BY <2>2 DEF IngestMux, Answerable
  <2>4. pending' = pending \ {q} /\ byApprovalId' = byApprovalId \ {q}
    BY <1>5, <2>3 DEF ResolvePending
  <2>5. \A r : Asked(log', StartIn(log'), r) <=> r # q /\ Open(r)
    BY <1>3, <2>1, RequestsDiffer, ResolutionsDiffer
  <2>6. pending' = {r \in Rpc : r \notin consumed' /\ Asked(log', StartIn(log'), r)}
    BY <1>5, <2>3, <2>4, <2>5
  <2>7. byApprovalId' = pending' \cap Approval
    BY <1>5, <2>4
  <2> QED
    BY <1>2, <1>4, <2>6, <2>7 DEF Ledger, ObligationsAreOpen
<1>8. CASE \A q \in Rpc : f # Requested(q) /\ f # Resolved(q)
  <2>1. f.type \in {"session/projection", "session/queue", "session/event"}
    BY <1>8, MuxFrameKinds DEF Projection, Queue, Event
  <2>2. UNCHANGED <<pending, byApprovalId, consumed>>
    BY <2>1 DEF IngestMux, Answerable
  <2>3. \A r \in Rpc : Asked(log', StartIn(log'), r) <=> Open(r)
    BY <1>3, <1>8
  <2>4. pending' = {r \in Rpc : r \notin consumed' /\ Asked(log', StartIn(log'), r)}
    BY <1>5, <2>2, <2>3
  <2> QED
    BY <1>2, <1>4, <1>5, <2>2, <2>4 DEF Ledger, ObligationsAreOpen
<1> QED
  BY <1>6, <1>7, <1>8 DEF Ledger, ObligationsAreOpen

\* hub.ts, ingestHost: a removed session takes its obligations and its snapshots along.
LEMMA HostKeepsLedger ==
  ASSUME HubTypes, Ledger, NEW f \in HostFrame, IngestHost(f)
  PROVE  Ledger' /\ pending' \subseteq Rpc
<1> DEFINE Open(r) == Asked(log, StartIn(log), r)
<1>1. /\ log \in Seq(Published) /\ StartIsKnown /\ f \in Published /\ f # DshRestarted
      /\ log' = log \o <<f>> /\ consumed' = consumed
  BY IngestedIsNoMarker, RemovalsDiffer, FramesArePublished
     DEF HostFrame, HubTypes, Ledger, IngestHost, Publish, PublishAs
<1>2. StartIsKnown'
  BY <1>1, StartStays
<1>3. \A r : Asked(log', StartIn(log'), r) <=>
               f = Requested(r) \/ (Open(r) /\ f \notin {Resolved(r), Removed(SessionOf[r])})
  BY <1>1, ReadingsGrow
<1>4. /\ pending = {r \in Rpc : r \notin consumed /\ Open(r)}
      /\ byApprovalId = pending \cap Approval
  BY DEF Ledger, ObligationsAreOpen
<1> HIDE DEF Open
<1>5. CASE \E t \in Session : f = Removed(t)
  <2>1. PICK t \in Session : f = Removed(t)
    BY <1>5
  <2>2. f.type = "host/session-removed" /\ f.session = t
    BY <2>1 DEF Removed
  <2>3. ForgetSnapshots(t) /\ ForgetPending(t)
    BY <2>2 DEF IngestHost
  <2>4. \A r : Asked(log', StartIn(log'), r) <=> Open(r) /\ SessionOf[r] # t
    BY <1>3, <2>1, RequestsDiffer, ResolutionsDiffer, RemovalsDiffer
  <2>5. /\ pending' = pending \ {r \in pending : SessionOf[r] = t}
        /\ byApprovalId' = byApprovalId \ {r \in pending : SessionOf[r] = t}
    BY <2>3 DEF ForgetPending, DropPending
  <2>6. pending' = {r \in Rpc : r \notin consumed' /\ Asked(log', StartIn(log'), r)}
    BY <1>1, <1>4, <2>4, <2>5
  <2>7. byApprovalId' = pending' \cap Approval
    BY <1>4, <2>5
  <2>8. \A s \in Session : ProjectionOf(s)'
    BY <1>1, <2>1, <2>3, ForgetKeepsProjection DEF Ledger
  <2> QED
    BY <1>2, <2>6, <2>7, <2>8 DEF Ledger, ObligationsAreOpen
<1>6. CASE f = Workspace
  <2>1. RecordSnapshot(f) /\ UNCHANGED <<pending, byApprovalId>>
    BY <1>6 DEF IngestHost, Workspace
  <2>2. \A s \in Session : ProjectionOf(s)'
    BY <1>1, <1>6, <2>1, RecordKeepsProjection DEF Ledger
  <2>3. \A r : Asked(log', StartIn(log'), r) <=> Open(r)
    BY <1>3, <1>6, OthersArePlain DEF Plain
  <2>4. pending' = {r \in Rpc : r \notin consumed' /\ Asked(log', StartIn(log'), r)}
    BY <1>1, <1>4, <2>1, <2>3
  <2> QED
    BY <1>2, <1>4, <2>1, <2>2, <2>4 DEF Ledger, ObligationsAreOpen
<1> QED
  BY <1>5, <1>6 DEF Ledger, ObligationsAreOpen, HostFrame

\* A plain frame changes no reading of the history, and the stores do not follow it.
LEMMA PlainKeepsLedger ==
  ASSUME HubTypes, Ledger, NEW f \in Published, Plain(f), log' = log \o <<f>>,
         UNCHANGED <<snapshots, projectionSeq, pending, byApprovalId, consumed>>
  PROVE  Ledger'
<1>1. /\ log \in Seq(Published) /\ StartIsKnown /\ f # DshRestarted
      /\ \A s, n : f # Projection(s, n) /\ f # Removed(s)
      /\ \A r, s : f # Requested(r) /\ f # Resolved(r)
  BY DEF HubTypes, Ledger, Plain
<1>2. StartIsKnown'
  BY <1>1, StartStays
<1>3. \A r : Asked(log', StartIn(log'), r) <=> Asked(log, StartIn(log), r)
  BY <1>1, ReadingsGrow
<1>4. ASSUME NEW s \in Session
      PROVE  Projected(log', StartIn(log'), s) = Projected(log, StartIn(log), s)
  <2>1. Projected(log', StartIn(log'), s) =
          Projected(log, StartIn(log), s) \cup {n \in 1 .. MaxSeq : f = Projection(s, n)}
    BY <1>1, ReadingsGrow
  <2> QED
    BY <1>1, <2>1
<1>5. \A s \in Session : ProjectionOf(s)'
  BY <1>4 DEF ProjectionOf, Ledger
<1>6. ObligationsAreOpen'
  BY <1>3 DEF ObligationsAreOpen, Ledger
<1> QED
  BY <1>2, <1>5, <1>6 DEF Ledger

\* hub.ts, onDshReady: what is true of nothing yet is true of the empty stores.
LEMMA ReadyKeepsLedger ==
  ASSUME HubTypes, Ledger, OnDshReady
  PROVE  Ledger' /\ pending' \subseteq Rpc /\ generation' \in Nat
<1>1. generation' = generation + 1 /\ generation \in Nat /\ consumed' = consumed
  BY DEF OnDshReady, HubTypes
<1>2. CASE generation > 0
  <2> DEFINE a == DshReadyFrame(generation + 1)
             k == log \o <<DshRestarted, a>>
  <2>1. a \in Published /\ Plain(a) /\ log \in Seq(Published)
    BY <1>1, FramesArePublished, OthersArePlain DEF HubTypes
  <2>2. /\ log' = k
        /\ snapshots' = <<>> /\ projectionSeq' = <<>> /\ pending' = {} /\ byApprovalId' = {}
    BY <1>2 DEF OnDshReady, PublishAs, ClearSnapshots, ClearPending
  <2>3. k \in Seq(Published)
    BY <2>1, FramesArePublished, ConcatProperties
  <2> HIDE DEF a
  <2>4. /\ IsStart(k, Len(log) + 1)
        /\ \A r : ~ Asked(k, Len(log) + 1, r)
        /\ \A s : Projected(k, Len(log) + 1, s) = {}
    BY <2>1, NothingAfterRestart
  <2>5. StartIn(k) = Len(log) + 1
    BY <2>3, <2>4, StartIsUnique
  <2> HIDE DEF k
  <2>6. StartIsKnown'
    BY <2>2, <2>4, <2>5 DEF StartIsKnown
  <2>7. ObligationsAreOpen'
    BY <2>2, <2>4, <2>5 DEF ObligationsAreOpen
  <2>8. \A s \in Session : ProjectionOf(s)'
    BY <2>2, <2>4, <2>5 DEF ProjectionOf
  <2> QED
    BY <1>1, <2>2, <2>6, <2>7, <2>8 DEF Ledger
<1>3. CASE ~ (generation > 0)
  <2>1. /\ log' = log \o <<DshReadyFrame(1)>>
        /\ UNCHANGED <<snapshots, projectionSeq, pending, byApprovalId, consumed>>
    BY <1>3 DEF OnDshReady, Publish, PublishAs
  <2>2. DshReadyFrame(1) \in Published /\ Plain(DshReadyFrame(1))
    BY FramesArePublished, OthersArePlain
  <2> QED
    BY <1>1, <2>1, <2>2, PlainKeepsLedger DEF HubTypes
<1> QED
  BY <1>2, <1>3

\* respond.ts reaches the pending set through consumePending, once dsh took an answer.
LEMMA ConsumeKeepsLedger ==
  ASSUME HubTypes, Ledger, NEW r, ConsumePending(r)
  PROVE  Ledger' /\ pending' \subseteq Rpc
<1>1. /\ UNCHANGED <<log, snapshots, projectionSeq>>
      /\ pending' = pending \ {r} /\ byApprovalId' = byApprovalId \ {r}
      /\ consumed' = consumed \cup {r}
  BY DEF ConsumePending, DropPending
<1>2. ObligationsAreOpen'
  BY <1>1 DEF Ledger, ObligationsAreOpen
<1>3. StartIsKnown' /\ \A s \in Session : ProjectionOf(s)'
  BY <1>1 DEF Ledger, StartIsKnown, ProjectionOf
<1> QED
  BY <1>1, <1>2, <1>3 DEF Ledger, HubTypes
-----------------------------------------------------------------------------
\* The third layer: what every phone was asked, and the steps of the hub.

\* What was asked of a phone stays asked when more is delivered to it, and a step opens no
\* obligation but those it publishes (hub.ts, ingestMux).
LEMMA GrowthKeepsAsked ==
  ASSUME HubTypes, EveryPhoneWasAsked, NEW fs, Grows(fs),
         \A r \in pending' : r \in pending \/ \E i \in 1 .. Len(fs) : fs[i] = Requested(r)
  PROVE  EveryPhoneWasAsked'
<1> DEFINE E == Numbered(Len(log), fs)
<1>1. /\ E \in Seq(Envelope) /\ Len(fs) \in Nat /\ DOMAIN E = 1 .. Len(fs)
      /\ \A i \in 1 .. Len(fs) : E[i].frame = fs[i]
  BY GrowthDelivers, LenProperties DEF Grows, Numbered
<1> HIDE DEF E
<1>2. Len(E) = Len(fs)
  BY <1>1, LenProperties
<1> SUFFICES ASSUME NEW s \in Subscribers, NEW r \in pending'
             PROVE  \/ r \in stream'[s].owed
                    \/ \E i \in DOMAIN Delivered(s)' : Delivered(s)'[i].frame = Requested(r)
  BY GrowthDelivers DEF EveryPhoneWasAsked
<1> DEFINE D == Delivered(s)
           d == Len(D)
           C == D \o E
<1>3. /\ D \in Seq(Envelope) /\ Delivered(s)' = C
      /\ stream'[s].owed = stream[s].owed
  BY GrowthDelivers DEF E
<1> HIDE DEF D
<1>4. /\ d \in Nat /\ DOMAIN D = 1 .. d
      /\ DOMAIN C = 1 .. d + Len(fs)
      /\ \A i \in 1 .. d + Len(fs) : C[i] = IF i <= d THEN D[i] ELSE E[i - d]
  <2>1. /\ C \in Seq(Envelope) /\ Len(C) = d + Len(E)
        /\ \A i \in 1 .. d + Len(E) : C[i] = IF i <= d THEN D[i] ELSE E[i - d]
    <3>1. E \in Seq(Envelope) /\ D \in Seq(Envelope)
      BY <1>1, <1>3
    <3> QED
      BY <3>1, ConcatProperties
  <2> HIDE DEF C
  <2> QED
    BY <1>2, <1>3, <2>1, LenProperties
<1> HIDE DEF C, d
<1>5. CASE r \in pending
  <2>1. CASE r \in stream[s].owed
    BY <1>3, <2>1
  <2>2. CASE r \notin stream[s].owed
    <3>1. PICK i \in DOMAIN D : D[i].frame = Requested(r)
      BY <1>5, <2>2 DEF EveryPhoneWasAsked, D
    <3>2. i \in DOMAIN C /\ C[i].frame = Requested(r)
      BY <1>1, <1>4, <3>1
    <3> QED
      BY <1>3, <3>2
  <2> QED
    BY <2>1, <2>2
<1>6. CASE r \notin pending
  <2>1. PICK i \in 1 .. Len(fs) : fs[i] = Requested(r)
    BY <1>6
  <2>2. d + i \in DOMAIN C /\ ~ (d + i <= d) /\ (d + i) - d = i
    BY <1>1, <1>4
  <2>3. C[d + i].frame = Requested(r)
    BY <1>1, <1>4, <2>1, <2>2
  <2> QED
    BY <1>3, <2>2, <2>3
<1> QED
  BY <1>5, <1>6

\* A step that publishes nothing and opens nothing keeps what the streams it leaves alone
\* were asked.
LEMMA SilenceKeepsAsked ==
  ASSUME HubTypes, EveryPhoneWasAsked, pending' \subseteq pending,
         \A s \in Stream : \/ stream'[s] = stream[s] \/ stream'[s].state # "live"
                           \/ stream'[s].owed = pending
  PROVE  EveryPhoneWasAsked'
<1> SUFFICES ASSUME NEW s \in Subscribers', NEW r \in pending'
             PROVE  \/ r \in stream'[s].owed
                    \/ \E i \in DOMAIN Delivered(s)' : Delivered(s)'[i].frame = Requested(r)
  BY DEF EveryPhoneWasAsked
<1>1. s \in Stream /\ stream'[s].state = "live" /\ r \in pending
  BY DEF Subscribers
<1>2. CASE stream'[s] = stream[s]
  BY <1>1, <1>2 DEF EveryPhoneWasAsked, Subscribers, Delivered
<1>3. CASE stream'[s].owed = pending
  BY <1>1, <1>3
<1> QED
  BY <1>1, <1>2, <1>3

\* A warning displaces nothing that was asked (hub.ts, notifyDevice).
LEMMA NotifyKeepsAsked ==
  ASSUME HubTypes, EveryPhoneWasAsked, NEW d, NotifyDevice(d)
  PROVE  EveryPhoneWasAsked'
<1> DEFINE e == [bseq |-> ring.lastAssigned, frame |-> TokenExpiring]
<1>1. pending' = pending
  BY DEF NotifyDevice
<1>2. e \in Envelope
  BY DEF HubTypes, IsRing, Notice, Envelope
<1>3. ASSUME NEW s \in Stream
      PROVE  \/ stream'[s] = stream[s]
             \/ stream'[s] = [stream[s] EXCEPT !.live = @ \o <<e>>]
  BY DEF NotifyDevice, Deliver
<1> HIDE DEF e
<1> SUFFICES ASSUME NEW s \in Subscribers', NEW r \in pending
             PROVE  \/ r \in stream'[s].owed
                    \/ \E i \in DOMAIN Delivered(s)' : Delivered(s)'[i].frame = Requested(r)
  BY <1>1 DEF EveryPhoneWasAsked
<1>4. s \in Stream /\ stream'[s].state = "live" /\ IsStream(stream[s])
  BY DEF Subscribers, HubTypes
<1>5. CASE stream'[s] = stream[s]
  BY <1>4, <1>5 DEF EveryPhoneWasAsked, Subscribers, Delivered
<1>6. CASE stream'[s] = [stream[s] EXCEPT !.live = @ \o <<e>>]
  <2> DEFINE b == stream[s].backlog
             l == stream[s].live
  <2>1. b \in Seq(Envelope) /\ l \in Seq(Envelope) /\ <<e>> \in Seq(Envelope)
    BY <1>2, <1>4 DEF IsStream
  <2>2. /\ stream'[s].state = stream[s].state /\ stream'[s].owed = stream[s].owed
        /\ stream'[s].backlog = b /\ stream'[s].live = l \o <<e>>
    BY <1>4, <1>6 DEF IsStream
  <2>3. s \in Subscribers
    BY <1>4, <2>2 DEF Subscribers
  <2>4. r \in stream[s].owed \/ \E i \in DOMAIN (b \o l) : (b \o l)[i].frame = Requested(r)
    BY <2>3 DEF EveryPhoneWasAsked, Delivered
  <2>5. Delivered(s)' = b \o (l \o <<e>>)
    BY <2>2 DEF Delivered
  <2> HIDE DEF b, l
  <2>6. b \o (l \o <<e>>) = (b \o l) \o <<e>> /\ b \o l \in Seq(Envelope)
    BY <2>1, ConcatAssociative, ConcatProperties
  <2> DEFINE D == b \o l
  <2>7. D \in Seq(Envelope) /\ Delivered(s)' = D \o <<e>>
    BY <2>5, <2>6
  <2>8. r \in stream[s].owed \/ \E i \in DOMAIN D : D[i].frame = Requested(r)
    BY <2>4
  <2> HIDE DEF D
  <2>9. /\ Len(D) \in Nat /\ DOMAIN D = 1 .. Len(D)
        /\ DOMAIN (D \o <<e>>) = 1 .. Len(D) + 1
        /\ \A i \in 1 .. Len(D) : (D \o <<e>>)[i] = D[i]
    BY <1>2, <2>7, LenProperties, AppendProperties, AppendIsConcat
  <2>10. \A i \in DOMAIN D : i \in DOMAIN (D \o <<e>>) /\ (D \o <<e>>)[i] = D[i]
    BY <2>9
  <2> QED
    BY <2>2, <2>7, <2>8, <2>10
<1> QED
  BY <1>3, <1>4, <1>5, <1>6

-----------------------------------------------------------------------------
HubInv == HubTypes /\ StreamsAreFaithful /\ Ledger /\ EveryPhoneWasAsked

\* Every call into the hub, from whoever makes it.
HubCall ==
  \/ \E f \in MuxFrame : IngestMux(f)
  \/ \E f \in HostFrame : IngestHost(f)
  \/ OnDshReady \/ OnDshDisconnected
  \/ \E s \in Stream, after \in Nat : Attach(s, after)
  \/ \E s \in Stream : Detach(s)
  \/ \E d \in Device : DisconnectDevice(d) \/ NotifyDevice(d)
  \/ \E r : ConsumePending(r)

\* A new hub.
LEMMA HubInitEstablishesInv == HubInit => HubInv
<1> SUFFICES ASSUME HubInit PROVE HubInv
  OBVIOUS
<1>1. /\ ring.entries = <<>> /\ log = <<>> /\ Len(log) = 0
      /\ ring.nextBseq = 1 /\ ring.lastAssigned = 0 /\ ring.evictedThrough = 0
      /\ DOMAIN ring = {"entries", "bytes", "nextBseq", "lastAssigned", "evictedThrough"}
      /\ generation = 0 /\ pending = {} /\ byApprovalId = {}
      /\ snapshots = <<>> /\ projectionSeq = <<>>
      /\ stream = [s \in Stream |-> unattached]
  BY EmptySeq DEF HubInit, FreshRing
<1>2. log \in Seq(Published) /\ IsRing(ring, Published) /\ Retains(ring, log)
  BY <1>1, EmptySeq DEF IsRing, Retains
<1>3. Subscribers = {} /\ \A s \in Stream : IsStream(stream[s])
  BY <1>1, UnattachedIsStream DEF Subscribers
<1>4. HubTypes /\ StreamsAreFaithful /\ EveryPhoneWasAsked
  BY <1>1, <1>2, <1>3 DEF HubTypes, StreamsAreFaithful, EveryPhoneWasAsked
<1>5. IsStart(log, 1) /\ StartIn(log) = 1
  <2>1. IsStart(log, 1)
    BY <1>1 DEF IsStart
  <2> QED
    BY <1>2, <2>1, StartIsUnique
<1>6. /\ \A r : ~ Asked(log, 1, r)
      /\ \A s : Projected(log, 1, s) = {}
  BY <1>1 DEF Asked, Projected
<1>7. Ledger
  BY <1>1, <1>5, <1>6 DEF Ledger, StartIsKnown, ObligationsAreOpen, ProjectionOf
<1> QED
  BY <1>4, <1>7 DEF HubInv

\* Every call into the hub, whoever makes it; other specifications build on this one.
LEMMA CallsKeepInv == HubInv /\ HubCall => HubInv'
<1> SUFFICES ASSUME HubInv, HubCall PROVE HubInv'
  OBVIOUS
<1>0. HubTypes /\ StreamsAreFaithful /\ Ledger /\ EveryPhoneWasAsked
  BY DEF HubInv
<1>1. ASSUME NEW f \in MuxFrame, IngestMux(f)
      PROVE  HubInv'
  <2>1. Grows(<<f>>) /\ generation' \in Nat
    BY <1>0, <1>1, FramesArePublished, PublishGrows DEF IngestMux, HubTypes
  <2>2. Ledger' /\ pending' \subseteq Rpc
    BY <1>0, <1>1, MuxKeepsLedger
  <2>3. \A r \in pending' : r \in pending \/ f = Requested(r)
    <3>1. CASE Answerable(f)
      <4>1. PICK q \in Rpc : f = Requested(q)
        BY <1>1, <3>1, MuxFrameKinds
           DEF Answerable, Resolved, Projection, Queue, Event
      <4>2. f.rpc = q
        BY <4>1 DEF Requested
      <4>3. pending' = pending \cup {q}
        BY <1>1, <3>1, <4>2 DEF IngestMux, RecordPending, Answerable
      <4> QED
        BY <4>1, <4>3
    <3>2. CASE ~ Answerable(f)
      BY <1>1, <3>2 DEF IngestMux, ResolvePending
    <3> QED
      BY <3>1, <3>2
  <2>4. \A r \in pending' : r \in pending \/ \E i \in 1 .. Len(<<f>>) : <<f>>[i] = Requested(r)
    <3>1. Len(<<f>>) = 1 /\ <<f>>[1] = f /\ 1 \in 1 .. 1
      OBVIOUS
    <3> QED
      BY <2>3, <3>1
  <2> QED
    BY <1>0, <2>1, <2>2, <2>4, GrowthKeepsStreams, GrowthKeepsAsked DEF HubInv
<1>2. ASSUME NEW f \in HostFrame, IngestHost(f)
      PROVE  HubInv'
  <2>1. Grows(<<f>>) /\ generation' \in Nat
    BY <1>0, <1>2, FramesArePublished, PublishGrows DEF IngestHost, HubTypes
  <2>2. Ledger' /\ pending' \subseteq Rpc
    BY <1>0, <1>2, HostKeepsLedger
  <2>3. pending' \subseteq pending
    BY <1>2 DEF IngestHost, ForgetPending, DropPending
  <2> QED
    BY <1>0, <2>1, <2>2, <2>3, GrowthKeepsStreams, GrowthKeepsAsked DEF HubInv
<1>3. ASSUME OnDshReady
      PROVE  HubInv'
  <2>1. Ledger' /\ pending' \subseteq Rpc /\ generation' \in Nat
    BY <1>0, <1>3, ReadyKeepsLedger
  <2>2. pending' \subseteq pending
    BY <1>3 DEF OnDshReady, ClearPending
  <2>3. PICK fs : Grows(fs)
    <3>1. CASE generation > 0
      BY <1>0, <1>3, <3>1, RestartGrows
    <3>2. CASE ~ (generation > 0)
      <4>1. Publish(DshReadyFrame(1))
        BY <1>3, <3>2 DEF OnDshReady
      <4> QED
        BY <1>0, <4>1, FramesArePublished, PublishGrows
    <3> QED
      BY <3>1, <3>2
  <2> QED
    BY <1>0, <2>1, <2>2, <2>3, GrowthKeepsStreams, GrowthKeepsAsked DEF HubInv
<1>4. ASSUME OnDshDisconnected
      PROVE  HubInv'
  <2>1. /\ Publish(DshDisconnected)
        /\ UNCHANGED <<snapshots, projectionSeq, pending, byApprovalId, generation, consumed>>
    BY <1>4 DEF OnDshDisconnected
  <2>2. Grows(<<DshDisconnected>>)
    BY <1>0, <2>1, FramesArePublished, PublishGrows
  <2>3. Ledger'
    BY <1>0, <2>1, <2>2, FramesArePublished, OthersArePlain, PlainKeepsLedger DEF Grows
  <2> QED
    BY <1>0, <2>1, <2>2, <2>3, GrowthKeepsStreams, GrowthKeepsAsked DEF HubInv, HubTypes
<1>5. ASSUME UNCHANGED <<log, snapshots, projectionSeq, pending, byApprovalId, consumed>>
      PROVE  Ledger'
  BY <1>0, <1>5 DEF Ledger, StartIsKnown, ObligationsAreOpen, ProjectionOf
<1>6. ASSUME NEW s \in Stream, NEW after \in Nat, Attach(s, after)
      PROVE  HubInv'
  <2>1. AttachWith(s, after, pending)
    BY <1>6 DEF Attach
  <2>2. HubTypes' /\ StreamsAreFaithful'
    BY <1>0, <2>1, AttachKeepsStreams
  <2>3. /\ \A t \in Stream \ {s} : stream'[t] = stream[t]
        /\ stream'[s].owed = pending
        /\ UNCHANGED <<log, snapshots, projectionSeq, pending, byApprovalId, consumed>>
    BY <1>0, <2>1 DEF AttachWith, HubTypes, unattached
  <2>4. \A t \in Stream : stream'[t] = stream[t] \/ stream'[t].owed = pending
    BY <2>3
  <2> QED
    BY <1>0, <1>5, <2>2, <2>3, <2>4, SilenceKeepsAsked DEF HubInv
<1>7. ASSUME NEW s \in Stream, Detach(s)
      PROVE  HubInv'
  <2>1. HubTypes' /\ StreamsAreFaithful'
    BY <1>0, <1>7, DetachKeepsStreams
  <2>2. /\ \A t \in Stream : stream'[t] = stream[t] \/ stream'[t].state # "live"
        /\ UNCHANGED <<log, snapshots, projectionSeq, pending, byApprovalId, consumed>>
    BY <1>0, <1>7 DEF Detach, HubTypes, unattached
  <2> QED
    BY <1>0, <1>5, <2>1, <2>2, SilenceKeepsAsked DEF HubInv
<1>8. ASSUME NEW d \in Device, DisconnectDevice(d)
      PROVE  HubInv'
  <2>1. HubTypes' /\ StreamsAreFaithful'
    BY <1>0, <1>8, DisconnectKeepsStreams
  <2>2. /\ \A t \in Stream : stream'[t] = stream[t] \/ stream'[t].state # "live"
        /\ UNCHANGED <<log, snapshots, projectionSeq, pending, byApprovalId, consumed>>
    BY <1>0, <1>8 DEF DisconnectDevice, HubTypes, unattached
  <2> QED
    BY <1>0, <1>5, <2>1, <2>2, SilenceKeepsAsked DEF HubInv
<1>9. ASSUME NEW d \in Device, NotifyDevice(d)
      PROVE  HubInv'
  <2>1. HubTypes' /\ StreamsAreFaithful'
    BY <1>0, <1>9, NotifyKeepsStreams
  <2>2. UNCHANGED <<log, snapshots, projectionSeq, pending, byApprovalId, consumed>>
    BY <1>9 DEF NotifyDevice
  <2> QED
    BY <1>0, <1>5, <1>9, <2>1, <2>2, NotifyKeepsAsked DEF HubInv
<1>10. ASSUME NEW r, ConsumePending(r)
       PROVE  HubInv'
  <2>1. Ledger' /\ pending' \subseteq Rpc
    BY <1>0, <1>10, ConsumeKeepsLedger
  <2>2. /\ UNCHANGED <<ring, log, generation, stream>>
        /\ pending' \subseteq pending
    BY <1>10 DEF ConsumePending, DropPending
  <2>3. HubTypes' /\ StreamsAreFaithful'
    BY <1>0, <2>1, <2>2, SilenceKeepsStreams DEF HubTypes
  <2> QED
    BY <1>0, <2>1, <2>2, <2>3, SilenceKeepsAsked DEF HubInv
<1> QED
  BY <1>1, <1>2, <1>3, <1>4, <1>6, <1>7, <1>8, <1>9, <1>10 DEF HubCall

\* Steps of others that leave the hub alone.
LEMMA StutterKeepsInv == HubInv /\ UNCHANGED hubVars => HubInv'
  BY DEF HubInv, hubVars, HubTypes, Subscribers, From, StreamsAreFaithful, Delivered, Ledger,
         StartIsKnown, ObligationsAreOpen, ProjectionOf, EveryPhoneWasAsked

\* All the steps of the hub.
LEMMA HubStepPreservesInv == HubInv /\ [HubNext]_hubVars => HubInv'
<1> SUFFICES ASSUME HubInv, HubNext PROVE HubCall
  BY CallsKeepInv, StutterKeepsInv
<1>1. Len(log) \in Nat
  BY LenProperties DEF HubInv, HubTypes
<1>2. \A after \in 0 .. Len(log) + 1 : after \in Nat
  BY <1>1
<1> QED
  BY <1>2 DEF HubNext, HubCall

\* The inductive invariant of the hub holds in every behaviour: types, streams that tell
\* the log, and the ledger of obligations and snapshots that the log determines.
THEOREM HubInvHolds == HubSpec => []HubInv
  BY HubInitEstablishesInv, HubStepPreservesInv, PTL DEF HubSpec

\* What the invariant says of one state.

\* Whatever a stream was sent of the log is the log, from its cursor on.
LEMMA InvIsContiguous == HubInv => StreamIsContiguous
<1> SUFFICES ASSUME HubInv, NEW s \in Subscribers
             PROVE  /\ \A i \in OfLog(s) : /\ Delivered(s)[i].bseq \in From(s) + 1 .. Len(log)
                                           /\ Delivered(s)[i].frame = log[Delivered(s)[i].bseq]
                    /\ \A i, j \in OfLog(s) :
                         i < j => Delivered(s)[i].bseq < Delivered(s)[j].bseq
                    /\ \A b \in From(s) + 1 .. Len(log) :
                         \E i \in OfLog(s) : Delivered(s)[i].bseq = b
  BY DEF StreamIsContiguous
<1> DEFINE D == Delivered(s)
<1>1. Faithful(D, From(s), log)
  BY DEF HubInv, StreamsAreFaithful
<1>2. \A i : i \in OfLog(s) <=> i \in DOMAIN D /\ Tells(D, i)
  BY DEF OfLog, Tells
<1> HIDE DEF D
<1>3. /\ \A i \in OfLog(s) : D[i].bseq \in From(s) + 1 .. Len(log) /\ D[i].frame = log[D[i].bseq]
      /\ \A i, j \in OfLog(s) : i < j => D[i].bseq < D[j].bseq
      /\ \A b \in From(s) + 1 .. Len(log) : \E i \in OfLog(s) : D[i].bseq = b
  BY <1>1, <1>2 DEF Faithful
<1> QED
  BY <1>3 DEF D

\* A delta that starts before a restart marker contains it: the delta is whole.
LEMMA InvHidesNoRestart == HubInv => RestartIsNeverHidden
<1> SUFFICES ASSUME HubInv,
                    NEW m \in Index, log[m] = DshRestarted,
                    NEW after \in 0 .. m - 1, ReadAfter(ring, after).ok
             PROVE  \E i \in DOMAIN ReadAfter(ring, after).frames :
                      ReadAfter(ring, after).frames[i].frame = DshRestarted
  BY DEF RestartIsNeverHidden
<1>1. log \in Seq(Published) /\ IsRing(ring, Published) /\ Retains(ring, log) /\ Len(log) \in Nat
  BY LenProperties DEF HubInv, HubTypes
<1>2. ~ Refuses(ring, after)
  BY DEF ReadAfter
<1>3. after \in Int
  BY <1>1 DEF Index
<1>4. ReadAfter(ring, after).frames = SuffixOf(log, after)
  BY <1>1, <1>2, <1>3, DeltaIsSuffix DEF ReadAfter
<1>5. m - after \in 1 .. Len(log) - after /\ after + (m - after) = m
  BY <1>1, <1>3 DEF Index
<1>6. m - after \in DOMAIN SuffixOf(log, after)
      /\ SuffixOf(log, after)[m - after].frame = DshRestarted
  BY <1>5 DEF SuffixOf
<1> QED
  BY <1>4, <1>6

\* What the ledger says is what a phone that attaches is owed.
LEMMA InvIsCurrent == HubInv => ReplaysAreCurrent
<1> SUFFICES ASSUME HubInv PROVE PendingIsOpen /\ ProjectionIsNewest
  BY DEF ReplaysAreCurrent
<1>1. GenerationStart = StartIn(log)
  BY DEF GenerationStart, StartIn, Marker, Index
<1>2. StartIn(log) \in Nat /\ Len(log) \in Nat
  <2>1. log \in Seq(Published) /\ IsStart(log, StartIn(log))
    BY DEF HubInv, HubTypes, Ledger, StartIsKnown
  <2> QED
    BY <2>1, StartIsUnique, LenProperties
<1>3. PendingIsOpen
  <2>1. \A r \in Rpc : OpenInLog(r) <=> r \notin consumed /\ Asked(log, StartIn(log), r)
    BY <1>1 DEF OpenInLog, Asked
  <2> QED
    BY <2>1 DEF PendingIsOpen, HubInv, Ledger, ObligationsAreOpen
<1>4. ProjectionIsNewest
  <2> SUFFICES ASSUME NEW s \in Session
               PROVE  LET from == {i \in GenerationStart .. Len(log) :
                                     \A j \in i .. Len(log) : log[j] # Removed(s)}
                          seqs == {n \in 1 .. MaxSeq : \E i \in from : log[i] = Projection(s, n)}
                          key  == <<"session/projection", s>>
                      IN  IF seqs = {} THEN key \notin DOMAIN snapshots
                          ELSE /\ key \in DOMAIN snapshots
                               /\ snapshots[key].seq \in seqs
                               /\ \A n \in seqs : n <= snapshots[key].seq
    BY DEF ProjectionIsNewest
  <2> DEFINE from == {i \in GenerationStart .. Len(log) :
                        \A j \in i .. Len(log) : log[j] # Removed(s)}
             seqs == {n \in 1 .. MaxSeq : \E i \in from : log[i] = Projection(s, n)}
  <2>1. seqs = Projected(log, StartIn(log), s)
    BY <1>1 DEF Projected
  <2>2. ProjectionOf(s)
    BY DEF HubInv, Ledger
  <2> HIDE DEF from, seqs
  <2>3. IF seqs = {} THEN Key(s) \notin DOMAIN snapshots
        ELSE /\ Key(s) \in DOMAIN snapshots
             /\ snapshots[Key(s)].seq \in seqs
             /\ \A n \in seqs : n <= snapshots[Key(s)].seq
    BY <2>1, <2>2 DEF ProjectionOf
  <2> QED
    BY <2>3 DEF from, seqs, Key
<1> QED
  BY <1>3, <1>4

\* The log and the streams of the phones: for any number of streams, attached, detached,
\* warned and dropped in any order while dsh comes and goes, a phone that stays attached
\* holds the log from its cursor on, every frame once and in order; and no cursor from
\* before a restart of dsh lets a phone resume without the order to resync (hub.ts,
\* attach, publish and onDshReady; ring.ts).
THEOREM StreamsTellTheLog == HubSpec => []StreamIsHonest
<1>1. HubInv => StreamIsHonest
  BY InvIsContiguous, InvHidesNoRestart DEF StreamIsHonest
<1> QED
  BY <1>1, HubInvHolds, PTL

\* No phone that is attached can be unaware of an open obligation (hub.ts, attach and
\* ingestMux).
THEOREM EveryPhoneIsAsked == HubSpec => []EveryPhoneWasAsked
<1>1. HubInv => EveryPhoneWasAsked
  BY DEF HubInv
<1> QED
  BY <1>1, HubInvHolds, PTL

\* The stores a new phone is served from hold exactly what the current generation stands
\* for (snapshots.ts; hub.ts, ingestMux, ingestHost and onDshReady).
THEOREM StoresAreCurrent == HubSpec => []ReplaysAreCurrent
  BY InvIsCurrent, HubInvHolds, PTL
=============================================================================
