--------------------------- MODULE RingLog_proofs ---------------------------
(***************************************************************************)
(* What the operations of the resume log do to the window it retains, for  *)
(* every limit, every frame and every weighing of frames, and that the     *)
(* running byte count is the size of what is retained: the size is defined *)
(* by recursion, and what it computes is proved by induction.              *)
(***************************************************************************)
EXTENDS RingLog, SequenceTheorems, NaturalsInduction, WellFoundedInduction, TLAPS

-----------------------------------------------------------------------------
\* Recursion over the numbers up to n. The least number principle gives both the
\* induction and the existence of what is defined by recursion.

\* What holds of 0 and passes from each number to the next holds up to n.
LEMMA CountingUp ==
  ASSUME NEW n \in Nat, NEW S, 0 \in S, \A i \in 0 .. n - 1 : i \in S => i + 1 \in S
  PROVE  \A i \in 0 .. n : i \in S
<1> SUFFICES ASSUME NEW bad \in 0 .. n, bad \notin S
             PROVE  FALSE
  OBVIOUS
<1> DEFINE R == {p \in Nat \X Nat : p[1] < p[2]}
           T == {i \in 0 .. n : i \notin S}
<1>1. IsWellFoundedOn(R, Nat)
  BY NatLessThanWellFounded DEF OpToRel
<1>2. T \subseteq Nat /\ T # {}
  OBVIOUS
<1> HIDE DEF R
<1>3. PICK x \in T : \A y \in T : ~ (<<y, x>> \in R)
  BY <1>1, <1>2, WFMin
<1>4. \A y \in T : ~ (y < x)
  BY <1>2, <1>3 DEF R
<1>5. x # 0 /\ x - 1 \in 0 .. n - 1
  BY <1>3
<1>6. x - 1 \in S
  BY <1>4, <1>5
<1> QED
  BY <1>3, <1>5, <1>6

\* g holds the stages of a recursion: it starts at b, and H makes each stage from the
\* one before.
Stages(g, n, X, b, H) ==
  /\ g \in [0 .. n -> X]
  /\ g[0] = b
  /\ \A i \in 1 .. n : g[i] = H[<<g[i - 1], i>>]

\* Every such recursion has its stages.
LEMMA StagesExist ==
  ASSUME NEW n \in Nat, NEW X, NEW b \in X, NEW H \in [X \X (1 .. n) -> X]
  PROVE  \E g : Stages(g, n, X, b, H)
<1> DEFINE Good(k, g) == g[0] = b /\ \A i \in 1 .. k : g[i] = H[<<g[i - 1], i>>]
           S == {k \in 0 .. n : \E g \in [0 .. n -> X] : Good(k, g)}
<1>1. 0 \in S
  <2>1. [i \in 0 .. n |-> b] \in [0 .. n -> X]
    OBVIOUS
  <2>2. Good(0, [i \in 0 .. n |-> b])
    OBVIOUS
  <2> HIDE DEF Good
  <2> QED
    BY <2>1, <2>2
<1>2. ASSUME NEW k \in 0 .. n - 1, k \in S
      PROVE  k + 1 \in S
  <2>1. PICK g \in [0 .. n -> X] : Good(k, g)
    BY <1>2
  <2> DEFINE x == H[<<g[k], k + 1>>]
             f == [g EXCEPT ![k + 1] = x]
  <2>2. k \in 0 .. n /\ k + 1 \in 1 .. n
    OBVIOUS
  <2>3. g[k] \in X /\ x \in X
    BY <2>1, <2>2
  <2>4. f \in [0 .. n -> X] /\ f[k + 1] = x /\ \A i \in 0 .. n : i # k + 1 => f[i] = g[i]
    BY <2>1, <2>2, <2>3
  <2>5. Good(k + 1, f)
    <3> HIDE DEF f, x
    <3>1. f[0] = b
      BY <2>1, <2>4
    <3>2. ASSUME NEW i \in 1 .. k
          PROVE  f[i] = H[<<f[i - 1], i>>]
      BY <2>1, <2>2, <2>4
    <3>3. f[k] = g[k]
      BY <2>2, <2>4
    <3>4. f[k + 1] = H[<<f[k], k + 1>>]
      BY <2>4, <3>3 DEF x
    <3>5. ASSUME NEW i \in 1 .. k + 1
          PROVE  f[i] = H[<<f[i - 1], i>>]
      <4>1. CASE i \in 1 .. k
        BY <3>2, <4>1
      <4>2. CASE i = k + 1
        BY <3>4, <4>2
      <4> QED
        BY <4>1, <4>2
    <3> QED
      BY <3>1, <3>5
  <2> HIDE DEF Good, f
  <2> QED
    BY <2>2, <2>4, <2>5
<1>3. n \in S
  <2> HIDE DEF S
  <2>1. \A i \in 0 .. n : i \in S
    BY <1>1, <1>2, CountingUp
  <2> QED
    BY <2>1
<1> QED
  BY <1>3 DEF Stages

-----------------------------------------------------------------------------
\* The size of a sequence of envelopes.

\* The envelopes of frames of F.
EnvelopeOf(F) == [bseq : Nat, frame : F]

\* t sums up the sizes of the envelopes of s.
SumsUp(t, s) ==
  /\ t \in [0 .. Len(s) -> Nat]
  /\ t[0] = 0
  /\ \A i \in 1 .. Len(s) : t[i] = t[i - 1] + Weight(s[i].frame)
  /\ t[Len(s)] = BytesOf(s)

\* BytesOf computes its sum stage by stage.
LEMMA SizesSumUp ==
  ASSUME NEW F, \A f \in F : Weight(f) \in Nat, NEW s \in Seq(EnvelopeOf(F))
  PROVE  \E t : SumsUp(t, s)
<1> DEFINE n == Len(s)
           Sum(t) == [i \in 0 .. n |->
                       IF i = 0 THEN 0 ELSE t[i - 1] + Weight(s[i].frame)]
           t == CHOOSE t : t = Sum(t)
           H == [z \in Nat \X (1 .. n) |-> z[1] + Weight(s[z[2]].frame)]
<1>1. BytesOf(s) = t[n]
  BY DEF BytesOf
<1>2. n \in Nat /\ \A i \in 1 .. n : Weight(s[i].frame) \in Nat
  <2>1. ASSUME NEW i \in 1 .. n
        PROVE  s[i] \in EnvelopeOf(F)
    BY ElementOfSeq
  <2> QED
    BY <2>1, LenProperties DEF EnvelopeOf
<1> HIDE DEF n
<1>3. H \in [Nat \X (1 .. n) -> Nat]
  BY <1>2
<1>4. PICK g : Stages(g, n, Nat, 0, H)
  <2>1. 0 \in Nat /\ n \in Nat
    BY <1>2
  <2> HIDE DEF H
  <2> QED
    BY <1>3, <2>1, StagesExist
<1>5. /\ g \in [0 .. n -> Nat] /\ g[0] = 0
      /\ \A i \in 1 .. n : g[i] = H[<<g[i - 1], i>>]
  BY <1>4 DEF Stages
<1>6. ASSUME NEW i \in 1 .. n
      PROVE  g[i] = g[i - 1] + Weight(s[i].frame)
  <2>1. i - 1 \in 0 .. n
    BY <1>2
  <2>2. <<g[i - 1], i>> \in Nat \X (1 .. n)
    BY <1>5, <2>1
  <2> QED
    BY <1>5, <2>2
<1>7. g = Sum(g)
  BY <1>2, <1>5, <1>6
<1>8. t = Sum(t)
  <2> HIDE DEF Sum
  <2> QED
    BY <1>7
<1> HIDE DEF t
<1>9. /\ DOMAIN t = 0 .. n /\ t[0] = 0
      /\ \A i \in 1 .. n : t[i] = t[i - 1] + Weight(s[i].frame)
  BY <1>2, <1>8
<1>10. \A i \in 0 .. n : t[i] \in Nat
  <2> DEFINE S == {i \in 0 .. n : t[i] \in Nat}
  <2>1. 0 \in S
    BY <1>2, <1>9
  <2>2. ASSUME NEW i \in 0 .. n - 1, i \in S
        PROVE  i + 1 \in S
    <3>1. i + 1 \in 1 .. n /\ (i + 1) - 1 = i
      BY <1>2
    <3>2. t[i + 1] = t[i] + Weight(s[i + 1].frame)
      BY <1>9, <3>1
    <3> QED
      BY <1>2, <2>2, <3>1, <3>2
  <2>3. \A i \in 0 .. n : i \in S
    <3> HIDE DEF S
    <3> QED
      BY <1>2, <2>1, <2>2, CountingUp
  <2> QED
    BY <2>3
<1>11. t \in [0 .. n -> Nat]
  <2>1. t = [i \in 0 .. n |-> t[i]]
    BY <1>8, <1>9
  <2> QED
    BY <1>10, <2>1
<1> QED
  BY <1>1, <1>9, <1>11 DEF n, SumsUp

\* q is the stretch of s that starts after its first a elements.
IsStretch(q, s, a) ==
  a \in Nat /\ a + Len(q) <= Len(s) /\ \A i \in 1 .. Len(q) : q[i] = s[a + i]

\* The size of a stretch is the difference of the sums at its ends.
LEMMA StretchSize ==
  ASSUME NEW F, \A f \in F : Weight(f) \in Nat,
         NEW s \in Seq(EnvelopeOf(F)), NEW q \in Seq(EnvelopeOf(F)), NEW t, SumsUp(t, s),
         NEW a, IsStretch(q, s, a)
  PROVE  BytesOf(q) = t[a + Len(q)] - t[a]
<1> DEFINE n == Len(s)
           m == Len(q)
<1>1. n \in Nat /\ m \in Nat
  BY LenProperties
<1>2. PICK u : SumsUp(u, q)
  BY SizesSumUp
<1>3. /\ u \in [0 .. m -> Nat] /\ u[0] = 0
      /\ \A i \in 1 .. m : u[i] = u[i - 1] + Weight(q[i].frame)
      /\ u[m] = BytesOf(q)
  BY <1>2 DEF SumsUp
<1>4. /\ t \in [0 .. n -> Nat]
      /\ \A i \in 1 .. n : t[i] = t[i - 1] + Weight(s[i].frame)
  BY DEF SumsUp
<1>5. /\ a \in Nat /\ a + m <= n
      /\ \A i \in 1 .. m : q[i] = s[a + i]
  BY DEF IsStretch
<1> HIDE DEF n, m
<1> DEFINE S == {i \in 0 .. m : u[i] = t[a + i] - t[a]}
<1>6. 0 \in S
  <2>1. t[a] \in Nat /\ a + 0 = a
    BY <1>1, <1>4, <1>5
  <2>2. u[0] = t[a + 0] - t[a]
    BY <1>3, <2>1
  <2> QED
    BY <1>1, <2>2
<1>7. ASSUME NEW i \in 0 .. m - 1, i \in S
      PROVE  i + 1 \in S
  <2>1. i + 1 \in 1 .. m /\ (i + 1) - 1 = i
    BY <1>1
  <2>2. a + (i + 1) \in 1 .. n /\ (a + (i + 1)) - 1 = a + i
    BY <1>1, <1>5, <2>1
  <2>3. u[i + 1] = u[i] + Weight(q[i + 1].frame)
    BY <1>3, <2>1
  <2>4. t[a + (i + 1)] = t[a + i] + Weight(q[i + 1].frame)
    BY <1>4, <1>5, <2>1, <2>2
  <2>5. u[i] \in Nat /\ u[i + 1] \in Nat
    BY <1>1, <1>3, <2>1
  <2>6. t[a] \in Nat /\ t[a + i] \in Nat /\ t[a + (i + 1)] \in Nat
    BY <1>1, <1>4, <1>5, <2>1
  <2> DEFINE x == Weight(q[i + 1].frame)
  <2>7. x \in Nat
    <3>1. q[i + 1] \in EnvelopeOf(F)
      BY <2>1, ElementOfSeq DEF m
    <3> QED
      BY <3>1 DEF EnvelopeOf
  <2> HIDE DEF x
  <2>8. u[i + 1] = t[a + (i + 1)] - t[a]
    BY <1>7, <2>3, <2>4, <2>5, <2>6, <2>7 DEF x
  <2> QED
    BY <2>1, <2>8
<1>8. \A i \in 0 .. m : i \in S
  <2> HIDE DEF S
  <2> QED
    BY <1>1, <1>6, <1>7, CountingUp
<1>9. u[m] = t[a + m] - t[a]
  BY <1>1, <1>8
<1> QED
  BY <1>3, <1>9 DEF m

-----------------------------------------------------------------------------
\* evict's loop ends, at the latest with one entry left, within the frame budget
\* (FrameRing.evict).
LEMMA ShedStops ==
  ASSUME NEW F, NEW r, IsRing(r, F)
  PROVE  /\ Shed(r) \in 0 .. Len(r.entries)
         /\ Len(r.entries) - Shed(r) <= MaxFrames
         /\ Len(r.entries) >= 1 => Shed(r) < Len(r.entries)
         /\ ~ OverBudget(Len(r.entries) - Shed(r),
                         r.bytes - BytesOf(SubSeq(r.entries, 1, Shed(r))))
<1> DEFINE n == Len(r.entries)
           Stops(k) == ~ OverBudget(n - k, r.bytes - BytesOf(SubSeq(r.entries, 1, k)))
           S == {k \in 0 .. n : Stops(k)}
<1>1. n \in Nat
  BY LenProperties DEF IsRing
<1>2. n \in S
  <2>1. n - n = 0 /\ n \in 0 .. n
    BY <1>1
  <2>2. \A b : ~ OverBudget(0, b)
    BY RingLimitsAssumption DEF OverBudget
  <2> QED
    BY <2>1, <2>2
<1>3. PICK m \in S : \A j \in S : ~ (j < m)
  <2> HIDE DEF Stops
  <2> DEFINE R == {p \in Nat \X Nat : p[1] < p[2]}
  <2>1. IsWellFoundedOn(R, Nat)
    BY NatLessThanWellFounded DEF OpToRel
  <2>2. S \subseteq Nat /\ S # {}
    BY <1>1, <1>2
  <2> HIDE DEF R
  <2>3. PICK x \in S : \A y \in S : ~ (<<y, x>> \in R)
    BY <2>1, <2>2, WFMin
  <2>4. \A y \in S : ~ (y < x)
    BY <2>2, <2>3 DEF R
  <2> QED
    BY <2>4
<1>4. m \in 0 .. n /\ Stops(m) /\ \A j \in 0 .. m - 1 : ~ Stops(j)
  <2> HIDE DEF Stops
  <2> QED
    BY <1>1, <1>3
<1>5. Shed(r) \in 0 .. n /\ Stops(Shed(r)) /\ \A j \in 0 .. Shed(r) - 1 : ~ Stops(j)
  <2>1. Shed(r) = CHOOSE k \in 0 .. n : Stops(k) /\ \A j \in 0 .. k - 1 : ~ Stops(j)
    BY DEF Shed
  <2> HIDE DEF Stops
  <2> QED
    BY <1>4, <2>1
<1>6. ASSUME n >= 1
      PROVE  Stops(n - 1)
  <2>1. n - (n - 1) = 1
    BY <1>1
  <2>2. \A b : ~ OverBudget(1, b)
    BY RingLimitsAssumption DEF OverBudget
  <2> QED
    BY <2>1, <2>2
<1>7. n - Shed(r) <= MaxFrames
  <2>1. ~ (n - Shed(r) > MaxFrames)
    BY <1>5 DEF OverBudget
  <2> QED
    BY <1>1, <1>5, <2>1, RingLimitsAssumption
<1>8. ASSUME n >= 1
      PROVE  Shed(r) < n
  <2> HIDE DEF Stops
  <2> QED
    BY <1>1, <1>5, <1>6, <1>8
<1> QED
  BY <1>5, <1>7, <1>8

\* The running byte count stays the size of what is retained, and eviction ends within
\* the byte budget unless a single frame is left (FrameRing.evict).
LEMMA EvictKeepsSize ==
  ASSUME NEW F, \A f \in F : Weight(f) \in Nat,
         NEW r, IsRing(r, F), r.bytes = BytesOf(r.entries)
  PROVE  /\ Evict(r).bytes = BytesOf(Evict(r).entries)
         /\ Len(Evict(r).entries) > 1 => Evict(r).bytes <= MaxBytes
<1> DEFINE n == Len(r.entries)
           k == Shed(r)
           e == Evict(r)
           E == EnvelopeOf(F)
           head == SubSeq(r.entries, 1, k)
           tail == SubSeq(r.entries, k + 1, n)
<1>1. n \in Nat /\ r.entries \in Seq(E)
  BY LenProperties DEF IsRing, EnvelopeOf
<1>2. k \in 0 .. n /\ ~ OverBudget(n - k, r.bytes - BytesOf(head))
  BY ShedStops
<1>3. e.entries = tail /\ e.bytes = r.bytes - BytesOf(head)
  BY DEF Evict, IsRing
<1> HIDE DEF k, e
<1>4. /\ head \in Seq(E) /\ Len(head) = k
      /\ \A i \in 1 .. k : head[i] = r.entries[i]
  <2>1. ASSUME NEW i \in 1 .. k
        PROVE  r.entries[i] \in E
    <3>1. i \in 1 .. Len(r.entries)
      BY <1>1, <1>2
    <3> QED
      BY <1>1, <3>1, ElementOfSeq
  <2>2. /\ head \in Seq(E)
        /\ Len(head) = IF 1 <= k THEN k - 1 + 1 ELSE 0
        /\ \A i \in 1 .. k - 1 + 1 : head[i] = r.entries[1 + i - 1]
    <3> HIDE DEF n
    <3> QED
      BY <1>1, <1>2, <2>1, SubSeqProperties
  <2> HIDE DEF n, head
  <2>3. Len(head) = k
    BY <1>1, <1>2, <2>2
  <2>4. ASSUME NEW i \in 1 .. k
        PROVE  head[i] = r.entries[i]
    <3>1. i \in 1 .. k - 1 + 1 /\ 1 + i - 1 = i
      BY <1>1, <1>2
    <3> QED
      BY <2>2, <3>1
  <2> QED
    BY <2>2, <2>3, <2>4
<1>5. /\ tail \in Seq(E) /\ Len(tail) = n - k
      /\ \A i \in 1 .. n - k : tail[i] = r.entries[k + i]
  <2>1. ASSUME NEW i \in k + 1 .. n
        PROVE  r.entries[i] \in E
    <3>1. i \in 1 .. Len(r.entries)
      BY <1>1, <1>2
    <3> QED
      BY <1>1, <3>1, ElementOfSeq
  <2>2. /\ tail \in Seq(E)
        /\ Len(tail) = IF k + 1 <= n THEN n - (k + 1) + 1 ELSE 0
        /\ \A i \in 1 .. n - (k + 1) + 1 : tail[i] = r.entries[k + 1 + i - 1]
    <3> HIDE DEF n
    <3> QED
      BY <1>1, <1>2, <2>1, SubSeqProperties
  <2> HIDE DEF n, tail
  <2>3. Len(tail) = n - k
    BY <1>1, <1>2, <2>2
  <2>4. ASSUME NEW i \in 1 .. n - k
        PROVE  tail[i] = r.entries[k + i]
    <3>1. i \in 1 .. n - (k + 1) + 1 /\ k + 1 + i - 1 = k + i
      BY <1>1, <1>2
    <3> QED
      BY <2>2, <3>1
  <2> QED
    BY <2>2, <2>3, <2>4
<1>6. PICK t : SumsUp(t, r.entries)
  <2> HIDE DEF n
  <2> QED
    BY <1>1, SizesSumUp
<1>7. /\ t[0] = 0 /\ t[n] = BytesOf(r.entries)
      /\ t[k] \in Nat /\ t[n] \in Nat
  BY <1>1, <1>2, <1>6 DEF SumsUp
<1>8. BytesOf(head) = t[k] - t[0]
  <2>1. IsStretch(head, r.entries, 0)
    BY <1>1, <1>2, <1>4 DEF IsStretch
  <2>2. BytesOf(head) = t[0 + Len(head)] - t[0]
    <3> HIDE DEF head
    <3> QED
      BY <1>1, <1>4, <1>6, <2>1, StretchSize
  <2>3. 0 + Len(head) = k
    BY <1>1, <1>2, <1>4
  <2> QED
    BY <2>2, <2>3
<1>9. BytesOf(tail) = t[n] - t[k]
  <2>1. IsStretch(tail, r.entries, k) /\ k + Len(tail) = n
    BY <1>1, <1>2, <1>5 DEF IsStretch
  <2>2. BytesOf(tail) = t[k + Len(tail)] - t[k]
    <3> HIDE DEF tail
    <3> QED
      BY <1>1, <1>5, <1>6, <2>1, StretchSize
  <2> QED
    BY <2>1, <2>2
<1>10. e.bytes = BytesOf(e.entries)
  BY <1>3, <1>7, <1>8, <1>9
<1>11. ASSUME Len(e.entries) > 1
       PROVE  e.bytes <= MaxBytes
  <2>1. ~ (e.bytes > MaxBytes)
    BY <1>2, <1>3, <1>5, <1>11 DEF OverBudget
  <2>2. e.bytes \in Int
    BY <1>3, <1>7, <1>8, <1>9
  <2> QED
    BY <2>1, <2>2, RingLimitsAssumption
<1> QED
  BY <1>10, <1>11 DEF e

\* Publishing adds the size of the frame and then evicts (FrameRing.append).
LEMMA AppendKeepsSize ==
  ASSUME NEW F, \A f \in F : Weight(f) \in Nat,
         NEW r, IsRing(r, F), r.bytes = BytesOf(r.entries), NEW f \in F
  PROVE  /\ RingAppend(r, f).bytes = BytesOf(RingAppend(r, f).entries)
         /\ Len(RingAppend(r, f).entries) > 1 => RingAppend(r, f).bytes <= MaxBytes
<1> DEFINE E == EnvelopeOf(F)
           s == r.entries
           x == [bseq |-> r.nextBseq, frame |-> f]
           q == Append(s, x)
           a == [r EXCEPT !.entries = Append(@, x), !.bytes = @ + Weight(f),
                          !.nextBseq = @ + 1, !.lastAssigned = r.nextBseq]
<1>1. s \in Seq(E) /\ x \in E /\ Len(s) \in Nat
  BY LenProperties DEF IsRing, EnvelopeOf
<1>2. /\ DOMAIN a = DOMAIN r
      /\ a.entries = q
      /\ a.bytes = BytesOf(s) + Weight(f)
      /\ a.nextBseq = r.nextBseq + 1
      /\ a.lastAssigned = r.nextBseq
      /\ a.evictedThrough = r.evictedThrough
  BY DEF IsRing
<1>3. RingAppend(r, f) = Evict(a)
  BY DEF RingAppend
<1> HIDE DEF a, s
<1>4. /\ q \in Seq(E)
      /\ Len(q) = Len(s) + 1
      /\ \A i \in 1 .. Len(s) : q[i] = s[i]
      /\ q[Len(s) + 1] = x
  <2> HIDE DEF x
  <2> QED
    BY <1>1, AppendProperties
<1>5. IsRing(a, F)
  BY <1>2, <1>4 DEF IsRing, EnvelopeOf
<1> HIDE DEF q
<1>6. PICK t : SumsUp(t, q)
  <2> QED
    BY <1>4, SizesSumUp
<1>7. /\ t[0] = 0 /\ t[Len(s)] \in Nat
      /\ t[Len(s) + 1] = t[Len(s)] + Weight(f)
      /\ t[Len(s) + 1] = BytesOf(q)
  <2>1. Len(s) + 1 \in 1 .. Len(q) /\ (Len(s) + 1) - 1 = Len(s) /\ Len(s) \in 0 .. Len(q)
    BY <1>1, <1>4
  <2>2. t[Len(s) + 1] = t[Len(s)] + Weight(q[Len(s) + 1].frame)
    BY <1>6, <2>1 DEF SumsUp
  <2>3. q[Len(s) + 1].frame = f
    BY <1>4
  <2> QED
    BY <1>4, <1>6, <2>1, <2>2, <2>3 DEF SumsUp
<1>8. BytesOf(s) = t[Len(s)] - t[0]
  <2>1. IsStretch(s, q, 0)
    BY <1>1, <1>4 DEF IsStretch
  <2>2. BytesOf(s) = t[0 + Len(s)] - t[0]
    <3> QED
      BY <1>1, <1>4, <1>6, <2>1, StretchSize
  <2> QED
    BY <1>1, <2>2
<1>9. a.bytes = BytesOf(a.entries)
  <2>1. BytesOf(s) = t[Len(s)]
    BY <1>7, <1>8
  <2> QED
    BY <1>2, <1>7, <2>1
<1>10. /\ Evict(a).bytes = BytesOf(Evict(a).entries)
       /\ Len(Evict(a).entries) > 1 => Evict(a).bytes <= MaxBytes
  BY <1>5, <1>9, EvictKeepsSize
<1> QED
  BY <1>3, <1>10

\* An empty log has no size (FrameRing.clearRetained and its constructor).
LEMMA NothingHasNoSize == BytesOf(<<>>) = 0
<1>1. <<>> \in Seq(EnvelopeOf({})) /\ Len(<<>>) = 0
  BY EmptySeq
<1>2. PICK t : SumsUp(t, <<>>)
  BY <1>1, SizesSumUp
<1> QED
  BY <1>1, <1>2 DEF SumsUp

-----------------------------------------------------------------------------
\* Eviction drops the oldest frames and remembers how far it went: what is left
\* is still a window at the end of the same history (FrameRing.evict).
LEMMA EvictKeepsWindow ==
  ASSUME NEW F, NEW r, IsRing(r, F), NEW h \in Seq(F), Retains(r, h)
  PROVE  /\ IsRing(Evict(r), F)
         /\ Retains(Evict(r), h)
         /\ Len(Evict(r).entries) <= MaxFrames
         /\ Len(r.entries) >= 1 => Len(Evict(r).entries) >= 1
<1> DEFINE n == Len(r.entries)
           k == Shed(r)
           e == Evict(r)
           E == [bseq : Nat, frame : F]
<1>1. n \in Nat /\ Len(h) \in Nat /\ r.entries \in Seq(E)
  BY LenProperties DEF IsRing
<1>2. k \in 0 .. n /\ n - k <= MaxFrames /\ (n >= 1 => k < n)
  BY ShedStops
<1>3. /\ DOMAIN e = DOMAIN r
      /\ e.entries = SubSeq(r.entries, k + 1, n)
      /\ e.evictedThrough = IF k = 0 THEN r.evictedThrough ELSE r.entries[k].bseq
      /\ e.nextBseq = r.nextBseq
      /\ e.lastAssigned = r.lastAssigned
  BY DEF Evict, IsRing
<1> HIDE DEF k, e
<1>4. /\ e.entries \in Seq(E)
      /\ Len(e.entries) = n - k
      /\ \A i \in 1 .. n - k : e.entries[i] = r.entries[k + i]
  <2>1. ASSUME NEW i \in k + 1 .. n
        PROVE  r.entries[i] \in E
    <3>1. i \in 1 .. Len(r.entries)
      BY <1>1, <1>2
    <3> HIDE DEF E
    <3> QED
      BY <1>1, <3>1, ElementOfSeq
  <2>2. /\ SubSeq(r.entries, k + 1, n) \in Seq(E)
        /\ Len(SubSeq(r.entries, k + 1, n)) = IF k + 1 <= n THEN n - (k + 1) + 1 ELSE 0
        /\ \A i \in 1 .. n - (k + 1) + 1 :
             SubSeq(r.entries, k + 1, n)[i] = r.entries[k + 1 + i - 1]
    <3> HIDE DEF n, E
    <3> QED
      BY <1>1, <1>2, <2>1, SubSeqProperties
  <2> DEFINE q == SubSeq(r.entries, k + 1, n)
  <2>3. e.entries = q
    BY <1>3
  <2> HIDE DEF n, E, q
  <2>4. q \in Seq(E) /\ Len(q) = n - k
    BY <1>1, <1>2, <2>2 DEF q
  <2>5. ASSUME NEW i \in 1 .. n - k
        PROVE  q[i] = r.entries[k + i]
    <3>1. i \in 1 .. n - (k + 1) + 1 /\ k + 1 + i - 1 = k + i
      BY <1>1, <1>2
    <3> QED
      BY <2>2, <3>1 DEF q
  <2> QED
    BY <2>3, <2>4, <2>5
<1>5. e.evictedThrough = r.evictedThrough + k /\ e.evictedThrough \in Nat
  <2>1. r.evictedThrough \in Nat /\ k \in Nat
    BY <1>1, <1>2 DEF IsRing
  <2>2. CASE k = 0
    BY <1>3, <2>1, <2>2
  <2>3. CASE k # 0
    <3>1. k \in 1 .. Len(r.entries)
      BY <1>1, <1>2, <2>3
    <3>2. r.entries[k].bseq = r.evictedThrough + k
      BY <3>1 DEF Retains
    <3> QED
      BY <1>3, <2>1, <2>3, <3>2
  <2> QED
    BY <2>2, <2>3
<1>6. IsRing(e, F)
  BY <1>3, <1>4, <1>5 DEF IsRing
<1>7. Retains(e, h)
  <2>1. e.evictedThrough + Len(e.entries) = Len(h)
    <3>1. r.evictedThrough + n = Len(h)
      BY DEF Retains
    <3>2. Len(e.entries) = n - k /\ e.evictedThrough = r.evictedThrough + k
      BY <1>4, <1>5
    <3>3. r.evictedThrough \in Nat /\ n \in Nat /\ k \in Nat
      BY <1>1, <1>2 DEF IsRing
    <3> HIDE DEF n
    <3> QED
      BY <3>1, <3>2, <3>3
  <2>2. ASSUME NEW i \in 1 .. Len(e.entries)
        PROVE  /\ e.entries[i].bseq = e.evictedThrough + i
               /\ e.entries[i].frame = h[e.evictedThrough + i]
    <3>1. i \in 1 .. n - k /\ k + i \in 1 .. n
      <4>1. Len(e.entries) = n - k /\ n \in Nat /\ k \in 0 .. n
        BY <1>1, <1>2, <1>4
      <4> HIDE DEF n
      <4> QED
        BY <4>1
    <3>2. /\ r.entries[k + i].bseq = r.evictedThrough + (k + i)
          /\ r.entries[k + i].frame = h[r.evictedThrough + (k + i)]
      BY <3>1 DEF Retains
    <3>3. r.evictedThrough + (k + i) = e.evictedThrough + i
      BY <1>2, <1>5, <3>1 DEF IsRing
    <3> QED
      BY <1>4, <3>1, <3>2, <3>3
  <2> QED
    BY <1>3, <2>1, <2>2 DEF Retains
<1> QED
  BY <1>1, <1>2, <1>4, <1>6, <1>7 DEF e

\* Publishing a frame extends the history by it, and what is retained is a window
\* at the end of the longer history, within the frame budget and never empty
\* (FrameRing.append).
LEMMA AppendKeepsWindow ==
  ASSUME NEW F, NEW r, IsRing(r, F), NEW h \in Seq(F), Retains(r, h), NEW f \in F
  PROVE  /\ IsRing(RingAppend(r, f), F)
         /\ Retains(RingAppend(r, f), Append(h, f))
         /\ Len(RingAppend(r, f).entries) \in 1 .. MaxFrames
<1> DEFINE E == [bseq : Nat, frame : F]
           x == [bseq |-> r.nextBseq, frame |-> f]
           a == [r EXCEPT !.entries = Append(@, x), !.bytes = @ + Weight(f),
                          !.nextBseq = @ + 1, !.lastAssigned = r.nextBseq]
           g == Append(h, f)
<1>1. r.entries \in Seq(E) /\ x \in E /\ Len(r.entries) \in Nat /\ Len(h) \in Nat
  BY LenProperties DEF IsRing
<1>2. /\ DOMAIN a = DOMAIN r
      /\ a.entries = Append(r.entries, x)
      /\ a.nextBseq = r.nextBseq + 1
      /\ a.lastAssigned = r.nextBseq
      /\ a.evictedThrough = r.evictedThrough
  BY DEF IsRing
<1>3. RingAppend(r, f) = Evict(a)
  BY DEF RingAppend
<1> HIDE DEF a
<1>4. /\ a.entries \in Seq(E)
      /\ Len(a.entries) = Len(r.entries) + 1
      /\ \A i \in 1 .. Len(r.entries) : a.entries[i] = r.entries[i]
      /\ a.entries[Len(r.entries) + 1] = x
  BY <1>1, <1>2, AppendProperties
<1>5. /\ g \in Seq(F)
      /\ Len(g) = Len(h) + 1
      /\ \A i \in 1 .. Len(h) : g[i] = h[i]
      /\ g[Len(h) + 1] = f
  BY AppendProperties
<1> HIDE DEF g
<1>6. IsRing(a, F)
  BY <1>2, <1>4 DEF IsRing
<1>7. Retains(a, g)
  <2>1. /\ a.lastAssigned = Len(g)
        /\ a.nextBseq = Len(g) + 1
        /\ a.evictedThrough + Len(a.entries) = Len(g)
    BY <1>1, <1>2, <1>4, <1>5 DEF Retains, IsRing
  <2>2. ASSUME NEW i \in 1 .. Len(a.entries)
        PROVE  /\ a.entries[i].bseq = a.evictedThrough + i
               /\ a.entries[i].frame = g[a.evictedThrough + i]
    <3>1. CASE i \in 1 .. Len(r.entries)
      <4>1. r.evictedThrough + i \in 1 .. Len(h)
        BY <1>1, <3>1 DEF Retains, IsRing
      <4> QED
        BY ZenonT(40), <1>2, <1>4, <1>5, <3>1, <4>1 DEF Retains
    <3>2. CASE i = Len(r.entries) + 1
      <4>1. r.evictedThrough + i = Len(h) + 1
        BY <1>1, <3>2 DEF Retains, IsRing
      <4> QED
        BY <1>2, <1>4, <1>5, <3>2, <4>1 DEF Retains
    <3> QED
      BY <1>1, <1>4, <3>1, <3>2
  <2> QED
    BY <2>1, <2>2 DEF Retains
<1>8. /\ IsRing(Evict(a), F)
      /\ Retains(Evict(a), g)
      /\ Len(Evict(a).entries) <= MaxFrames
      /\ Len(Evict(a).entries) >= 1
  BY <1>1, <1>4, <1>5, <1>6, <1>7, EvictKeepsWindow
<1>9. Len(Evict(a).entries) \in Nat
  BY <1>8, LenProperties DEF IsRing
<1> QED
  BY <1>3, <1>8, <1>9, RingLimitsAssumption DEF g

\* A dsh restart empties the window and keeps its place in the history
\* (FrameRing.clearRetained).
LEMMA ClearKeepsWindow ==
  ASSUME NEW F, NEW r, IsRing(r, F), NEW h \in Seq(F), Retains(r, h)
  PROVE  /\ IsRing(ClearRetained(r), F)
         /\ Retains(ClearRetained(r), h)
         /\ Len(ClearRetained(r).entries) = 0
<1> DEFINE c == ClearRetained(r)
<1>1. /\ DOMAIN c = DOMAIN r
      /\ c.entries = <<>>
      /\ c.evictedThrough = r.lastAssigned
      /\ c.nextBseq = r.nextBseq
      /\ c.lastAssigned = r.lastAssigned
  BY DEF ClearRetained, IsRing
<1>2. c.entries \in Seq([bseq : Nat, frame : F]) /\ Len(c.entries) = 0
  BY <1>1, EmptySeq
<1> HIDE DEF c
<1>3. IsRing(c, F)
  BY <1>1, <1>2 DEF IsRing
<1>4. Retains(c, h)
  BY <1>1, <1>2 DEF Retains, IsRing
<1> QED
  BY <1>2, <1>3, <1>4 DEF c

\* A cursor that is not refused lies in the history, and the answer is everything
\* published after it (FrameRing.readAfter).
LEMMA DeltaIsSuffix ==
  ASSUME NEW F, NEW r, IsRing(r, F), NEW h \in Seq(F), Retains(r, h),
         NEW after \in Int, ~ Refuses(r, after)
  PROVE  after \in 0 .. Len(h) /\ FramesAfter(r, after) = SuffixOf(h, after)
<1> DEFINE n == Len(r.entries)
           E == [bseq : Nat, frame : F]
           First(i) == /\ \A j \in 1 .. i - 1 : r.entries[j].bseq <= after
                       /\ \A j \in i .. n     : r.entries[j].bseq > after
           w == after - r.evictedThrough + 1
           c == CHOOSE i \in 1 .. n + 1 : First(i)
<1>1. n \in Nat /\ Len(h) \in Nat /\ r.entries \in Seq(E) /\ r.evictedThrough \in Nat
  BY LenProperties DEF IsRing
<1>2. after \in Nat /\ after <= Len(h) /\ after >= r.evictedThrough
  BY <1>1 DEF Refuses, Retains
<1>3. w \in 1 .. n + 1
  <2>1. r.evictedThrough + n = Len(h)
    BY DEF Retains
  <2> HIDE DEF n, First
  <2> QED
    BY <1>1, <1>2, <2>1
<1>4. \A j \in 1 .. n : r.entries[j].bseq = r.evictedThrough + j
  BY DEF Retains
<1>5. First(w)
  <2>1. ASSUME NEW j \in 1 .. w - 1
        PROVE  r.entries[j].bseq <= after
    <3>1. j \in 1 .. n /\ r.evictedThrough + j <= after
      <4> HIDE DEF n, First
      <4> QED
        BY <1>1, <1>2, <1>3
    <3> QED
      BY <1>4, <3>1
  <2>2. ASSUME NEW j \in w .. n
        PROVE  r.entries[j].bseq > after
    <3>1. j \in 1 .. n /\ r.evictedThrough + j > after
      BY <1>1, <1>2, <1>3
    <3> QED
      BY <1>4, <3>1
  <2> QED
    BY <2>1, <2>2
<1>6. c \in 1 .. n + 1 /\ First(c)
  <2> HIDE DEF First, w
  <2> QED
    BY <1>3, <1>5
<1>7. c = w
  <2> HIDE DEF c
  <2>1. CASE c < w
    <3>1. c \in 1 .. n /\ r.evictedThrough + c <= after
      <4>1. c \in 1 .. n + 1
        BY <1>6
      <4> HIDE DEF n, First
      <4> QED
        BY <1>1, <1>2, <1>3, <2>1, <4>1
    <3>2. r.entries[c].bseq > after
      BY <1>1, <1>6, <3>1
    <3> HIDE DEF First, w
    <3>3. r.entries[c].bseq = r.evictedThrough + c
      BY <1>4, <3>1
    <3> HIDE DEF n
    <3> QED
      BY <1>1, <1>2, <3>1, <3>2, <3>3
  <2>2. CASE c > w
    <3>1. w \in 1 .. n /\ w \in 1 .. c - 1 /\ r.evictedThrough + w > after
      <4> HIDE DEF n, First
      <4>1. r.evictedThrough + w > after
        BY <1>1, <1>2
      <4> HIDE DEF w
      <4> QED
        BY <1>1, <1>3, <1>6, <2>2, <4>1
    <3>2. r.entries[w].bseq <= after
      BY <1>6, <3>1
    <3> HIDE DEF First, w
    <3>3. r.entries[w].bseq = r.evictedThrough + w
      BY <1>4, <3>1
    <3> HIDE DEF n
    <3> QED
      BY <1>1, <1>2, <3>1, <3>2, <3>3
  <2>3. c \in Int /\ w \in Int
    <3> HIDE DEF First, w
    <3> QED
      BY <1>1, <1>3, <1>6
  <2> HIDE DEF First, w
  <2> QED
    BY <2>1, <2>2, <2>3
<1>8. FramesAfter(r, after) = SubSeq(r.entries, c, n)
  BY DEF FramesAfter
<1> HIDE DEF c, First
<1>9. ASSUME NEW i \in w .. n
      PROVE  r.entries[i] \in E
  <2>1. i \in 1 .. n
    BY <1>1, <1>3
  <2> HIDE DEF E
  <2> QED
    BY <1>1, <2>1, ElementOfSeq
<1>10. /\ SubSeq(r.entries, w, n) \in Seq(E)
       /\ Len(SubSeq(r.entries, w, n)) = IF w <= n THEN n - w + 1 ELSE 0
       /\ \A i \in 1 .. n - w + 1 : SubSeq(r.entries, w, n)[i] = r.entries[w + i - 1]
  <2>1. w \in Int /\ n \in Int
    BY <1>1, <1>3
  <2> HIDE DEF w, n, E
  <2> QED
    BY <1>9, <2>1, SubSeqProperties
<1>11. n - w + 1 = Len(h) - after /\ Len(h) - after \in Nat
  <2>1. r.evictedThrough + n = Len(h)
    BY DEF Retains
  <2>2. n \in Nat /\ Len(h) \in Nat /\ r.evictedThrough \in Nat
    BY <1>1
  <2> HIDE DEF n
  <2>3. n - w + 1 = Len(h) - after
    BY <1>2, <2>1, <2>2
  <2> QED
    BY <1>2, <2>2, <2>3
<1>12. ASSUME NEW i \in 1 .. Len(h) - after
       PROVE  SubSeq(r.entries, w, n)[i] = [bseq |-> after + i, frame |-> h[after + i]]
  <2>1. w + i - 1 \in 1 .. n /\ i \in 1 .. n - w + 1
    <3> HIDE DEF n, w
    <3> QED
      BY <1>1, <1>3, <1>11
  <2>2. r.entries[w + i - 1] \in E
    BY <1>1, <2>1, ElementOfSeq
  <2>3. r.evictedThrough + (w + i - 1) = after + i
    BY <1>1, <1>2
  <2>4. /\ r.entries[w + i - 1].bseq = after + i
        /\ r.entries[w + i - 1].frame = h[after + i]
    BY <2>1, <2>3 DEF Retains
  <2>5. SubSeq(r.entries, w, n)[i] = r.entries[w + i - 1]
    BY <1>10, <2>1
  <2> QED
    BY <2>2, <2>4, <2>5
<1> DEFINE q == SubSeq(r.entries, w, n)
<1>13. q \in [1 .. Len(h) - after -> E]
  <2>1. Len(q) = Len(h) - after
    <3> HIDE DEF n, w, E
    <3> QED
      BY <1>1, <1>3, <1>10, <1>11
  <2> HIDE DEF q, E
  <2> QED
    BY <1>10, <2>1, LenProperties DEF q
<1>14. q = SuffixOf(h, after)
  <2> HIDE DEF E
  <2>1. q = [i \in 1 .. Len(h) - after |-> q[i]]
    <3> HIDE DEF q
    <3> QED
      BY <1>13
  <2>2. \A i \in 1 .. Len(h) - after : q[i] = [bseq |-> after + i, frame |-> h[after + i]]
    BY <1>12
  <2> HIDE DEF q
  <2> QED
    BY <2>1, <2>2 DEF SuffixOf
<1> QED
  BY <1>2, <1>7, <1>8, <1>14
=============================================================================
