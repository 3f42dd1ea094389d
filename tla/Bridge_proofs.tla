---------------------------- MODULE Bridge_proofs ----------------------------
(***************************************************************************)
(* Theorems about what runs in the bridge beside the sockets of phones: the *)
(* hub at work under its connection to dsh, and pairing.                   *)
(*                                                                         *)
(* First the hub: the connection calls it, dsh asks, resolves and dies,    *)
(* sockets open, hang and are lost.  This holds for every set of sessions  *)
(* and obligations, with any number of phones known, every retention limit *)
(* and any number of faults.  Every step either leaves the hub alone or    *)
(* calls it, so the hub's own invariant carries over.  To it come three    *)
(* accounts: of the log's lifecycle envelopes against the connection's     *)
(* state; of what dsh has ended against what it still waits for; and of    *)
(* what is on its way on the mux stream against what dsh waits for.        *)
(*                                                                         *)
(* Then pairing, for any number of windows, phones, tiers, pages and dials: *)
(* over the LAN, from the panel, and through a relay.                      *)
(*                                                                         *)
(* Pairing.  The token of the session is that of a window that was opened, *)
(* a completed session and the record of its confirmation stand for each   *)
(* other, and, as long as one window alone was opened, the claim on its    *)
(* screen is the claim of the session.                                     *)
(*                                                                         *)
(* Panel.  The window that the controller holds is one it opened, and a    *)
(* window that was never used was not.                                     *)
(*                                                                         *)
(* Rendezvous.  A claim at an open window comes from a claimant that       *)
(* proved its key; every id is that of a dial that was made; and what a    *)
(* phone that dials once brings about belongs to the token it scanned.     *)
(***************************************************************************)
EXTENDS BridgeCore, StreamHub_proofs, FiniteSetTheorems, Panel, Rendezvous

-----------------------------------------------------------------------------
\* Sets as sequences: SetToSeq lists a finite set, every member and no other.
LEMMA ListsAll ==
  ASSUME NEW S, IsFiniteSet(S)
  PROVE  /\ Cardinality(S) \in Nat
         /\ \A i \in 1 .. Cardinality(S) : SetToSeq(S)[i] \in S
         /\ \A x \in S : \E i \in 1 .. Cardinality(S) : SetToSeq(S)[i] = x
<1> DEFINE n == Cardinality(S)
           f == SetToSeq(S)
<1>1. n \in Nat /\ ExistsBijection(1 .. n, S)
  BY FS_CardinalityType
<1>2. \E g \in [1 .. n -> S] : IsInjective(g)
  BY <1>1 DEF ExistsBijection, Bijection, Injection
<1>3. f \in [1 .. n -> S] /\ IsInjective(f)
  BY <1>2 DEF SetToSeq
<1>4. f \in Injection(1 .. n, S)
  BY <1>3 DEF Injection
<1>5. IsFiniteSet(1 .. n) /\ Cardinality(1 .. n) = n
  <2> HIDE DEF n
  <2>1. 1 \in Int /\ n \in Int
    BY <1>1
  <2>2. IsFiniteSet(1 .. n) /\ Cardinality(1 .. n) = IF 1 > n THEN 0 ELSE n - 1 + 1
    BY <2>1, FS_Interval
  <2> QED
    BY <1>1, <2>2
<1>6. f \in Surjection(1 .. n, S)
  BY <1>4, <1>5, FS_Injection
<1> QED
  BY <1>1, <1>3, <1>6 DEF Surjection

\* Places in a sequence have a last one.
LEMMA HasMaximum ==
  ASSUME NEW n \in Nat, NEW S, S \subseteq 1 .. n, S # {}
  PROVE  \E i \in S : \A j \in S : j <= i
<1> DEFINE R == {p \in Nat \X Nat : p[1] < p[2]}
           T == {n - i : i \in S}
<1>1. IsWellFoundedOn(R, Nat)
  BY NatLessThanWellFounded DEF OpToRel
<1> HIDE DEF R
<1>2. T \subseteq Nat /\ T # {}
  <2>1. \A i \in S : n - i \in Nat
    <3> SUFFICES ASSUME NEW i \in S
                 PROVE  n - i \in Nat
      OBVIOUS
    <3>1. i \in Nat /\ i <= n
      OBVIOUS
    <3> QED
      BY <3>1
  <2>2. PICK i \in S : TRUE
    OBVIOUS
  <2>3. n - i \in T
    BY <2>2
  <2>4. T \subseteq Nat
    BY <2>1
  <2> QED
    BY <2>3, <2>4
<1>3. PICK x \in T : \A y \in T : ~ (<<y, x>> \in R)
  <2> HIDE DEF T
  <2> QED
    BY <1>1, <1>2, WFMin
<1>4. \A y \in T : ~ (y < x)
  BY <1>2, <1>3 DEF R
<1>5. PICK i \in S : x = n - i
  BY <1>3
<1>6. ASSUME NEW j \in S
      PROVE  j <= i
  <2>1. n - j \in T
    OBVIOUS
  <2>2. ~ (n - j < n - i)
    BY <1>4, <1>5, <2>1
  <2>3. i \in Nat /\ j \in Nat
    OBVIOUS
  <2> QED
    BY <2>2, <2>3
<1> QED
  BY <1>6

-----------------------------------------------------------------------------
\* The lifecycle in a history.

Count(h, n, t) == Cardinality({i \in 1 .. n : h[i].type = t})
Up   == "dsh-ready"
Down == "dsh-disconnected"

\* LifecycleAlternates over values.
Alternates(h) ==
  \A i \in 1 .. Len(h) :
    /\ h[i].type = Up => /\ h[i] = DshReadyFrame(Count(h, i, Up))
                         /\ Count(h, i, Up) = Count(h, i, Down) + 1
    /\ h[i].type = Down => Count(h, i, Up) = Count(h, i, Down)
    /\ (h[i].type = Up /\ h[i].generation > 1) <=> (i > 1 /\ h[i - 1] = DshRestarted)

\* What may come after h without breaking the alternation.
MayFollow(h, f) ==
  LET n == Len(h)
  IN  /\ f.type = Up => /\ f = DshReadyFrame(Count(h, n, Up) + 1)
                        /\ Count(h, n, Up) = Count(h, n, Down)
      /\ f.type = Down => Count(h, n, Up) = Count(h, n, Down) + 1
      /\ (f.type = Up /\ f.generation > 1) <=> (n > 0 /\ h[n] = DshRestarted)

\* A count up to a place does not depend on what comes later.
LEMMA CountIsLocal ==
  ASSUME NEW h, NEW k, NEW n \in Nat, \A i \in 1 .. n : k[i] = h[i], NEW t
  PROVE  Count(k, n, t) = Count(h, n, t)
<1>1. {i \in 1 .. n : k[i].type = t} = {i \in 1 .. n : h[i].type = t}
  OBVIOUS
<1> QED
  BY <1>1 DEF Count

\* One more envelope counts once, if it is of the kind that is counted.
LEMMA CountGrows ==
  ASSUME NEW h, NEW n \in Nat, NEW t
  PROVE  /\ Count(h, n, t) \in Nat
         /\ Count(h, n + 1, t) = IF h[n + 1].type = t THEN Count(h, n, t) + 1
                                                      ELSE Count(h, n, t)
<1> DEFINE S == {i \in 1 .. n : h[i].type = t}
           T == {i \in 1 .. n + 1 : h[i].type = t}
<1>1. IsFiniteSet(S)
  <2>1. S \in SUBSET Nat /\ \A s \in S : s <= n
    OBVIOUS
  <2> HIDE DEF S
  <2> QED
    BY <2>1, FS_BoundedSetOfNaturals
<1>2. Cardinality(S) \in Nat
  BY <1>1, FS_CardinalityType
<1>3. n + 1 \notin S
  OBVIOUS
<1>4. CASE h[n + 1].type = t
  <2>1. T = S \cup {n + 1}
    BY <1>4
  <2> HIDE DEF S, T
  <2>2. Cardinality(T) = Cardinality(S) + 1
    BY <1>1, <1>3, <2>1, FS_AddElement
  <2> QED
    BY <1>2, <1>4, <2>2 DEF Count, S, T
<1>5. CASE h[n + 1].type # t
  <2>1. T = S
    BY <1>5
  <2> QED
    BY <1>2, <1>5, <2>1 DEF Count
<1> QED
  BY <1>4, <1>5

\* A history that alternates goes on alternating with what may follow it.
LEMMA AlternationGrows ==
  ASSUME NEW h \in Seq(Published), NEW f \in Published, Alternates(h), MayFollow(h, f)
  PROVE  LET k == h \o <<f>>
             n == Len(h)
         IN  /\ Alternates(k) /\ Len(k) = n + 1 /\ k[n + 1] = f
             /\ \A t : Count(k, n + 1, t) =
                         IF f.type = t THEN Count(h, n, t) + 1 ELSE Count(h, n, t)
<1> DEFINE k == h \o <<f>>
           n == Len(h)
<1>1. /\ n \in Nat /\ Len(k) = n + 1
      /\ \A i \in 1 .. n : k[i] = h[i]
      /\ k[n + 1] = f
  BY LastFrame
<1> HIDE DEF k, n
<1>2. ASSUME NEW t, NEW i \in 1 .. n
      PROVE  Count(k, i, t) = Count(h, i, t)
  <2>1. i \in Nat /\ \A j \in 1 .. i : k[j] = h[j]
    BY <1>1
  <2> QED
    BY <2>1, CountIsLocal
<1>3. ASSUME NEW t
      PROVE  /\ Count(h, n, t) \in Nat
             /\ Count(k, n + 1, t) =
                  IF f.type = t THEN Count(h, n, t) + 1 ELSE Count(h, n, t)
  <2>1. Count(k, n, t) = Count(h, n, t)
    BY <1>1, CountIsLocal
  <2>2. /\ Count(k, n, t) \in Nat
        /\ Count(k, n + 1, t) = IF k[n + 1].type = t THEN Count(k, n, t) + 1
                                                     ELSE Count(k, n, t)
    BY <1>1, CountGrows
  <2> QED
    BY <1>1, <2>1, <2>2
<1>4. ASSUME NEW i \in 1 .. n + 1
      PROVE  /\ k[i].type = Up => /\ k[i] = DshReadyFrame(Count(k, i, Up))
                                  /\ Count(k, i, Up) = Count(k, i, Down) + 1
             /\ k[i].type = Down => Count(k, i, Up) = Count(k, i, Down)
             /\ (k[i].type = Up /\ k[i].generation > 1) <=> (i > 1 /\ k[i - 1] = DshRestarted)
  <2>1. CASE i \in 1 .. n
    <3>1. k[i] = h[i] /\ Count(k, i, Up) = Count(h, i, Up) /\ Count(k, i, Down) = Count(h, i, Down)
      BY <1>1, <1>2, <2>1
    <3>2. i > 1 => k[i - 1] = h[i - 1]
      BY <1>1, <2>1
    <3>3. /\ h[i].type = Up => /\ h[i] = DshReadyFrame(Count(h, i, Up))
                               /\ Count(h, i, Up) = Count(h, i, Down) + 1
          /\ h[i].type = Down => Count(h, i, Up) = Count(h, i, Down)
          /\ (h[i].type = Up /\ h[i].generation > 1) <=> (i > 1 /\ h[i - 1] = DshRestarted)
      BY <2>1 DEF Alternates, n
    <3> QED
      BY <3>1, <3>2, <3>3
  <2>2. CASE i = n + 1
    <3>1. k[i] = f /\ i - 1 = n /\ (i > 1 <=> n > 0) /\ (n > 0 => k[i - 1] = h[n])
      BY <1>1, <2>2
    <3>2. /\ f.type = Up => /\ f = DshReadyFrame(Count(h, n, Up) + 1)
                            /\ Count(h, n, Up) = Count(h, n, Down)
          /\ f.type = Down => Count(h, n, Up) = Count(h, n, Down) + 1
          /\ (f.type = Up /\ f.generation > 1) <=> (n > 0 /\ h[n] = DshRestarted)
      BY DEF MayFollow, n
    <3>3. /\ Count(h, n, Up) \in Nat /\ Count(h, n, Down) \in Nat
          /\ f.type = Up => /\ Count(k, i, Up) = Count(h, n, Up) + 1
                            /\ Count(k, i, Down) = Count(h, n, Down)
          /\ f.type = Down => /\ Count(k, i, Up) = Count(h, n, Up)
                              /\ Count(k, i, Down) = Count(h, n, Down) + 1
      BY <1>3, <2>2 DEF Up, Down
    <3> QED
      BY <3>1, <3>2, <3>3
  <2> QED
    BY <1>1, <2>1, <2>2
<1>5. Alternates(k)
  BY <1>1, <1>4 DEF Alternates
<1> QED
  BY <1>1, <1>3, <1>5 DEF k, n

-----------------------------------------------------------------------------
\* The history tells the generation and whether it is up, and does not end in the middle
\* of an announcement.
Told(h, g, up) ==
  /\ Alternates(h)
  /\ Count(h, Len(h), Up) = g
  /\ Count(h, Len(h), Down) \in Nat
  /\ g = IF up THEN Count(h, Len(h), Down) + 1 ELSE Count(h, Len(h), Down)
  /\ Len(h) > 0 => h[Len(h)] # DshRestarted

\* The frames of dsh are no lifecycle envelopes.
LEMMA DshFramesDiffer ==
  ASSUME NEW f \in MuxFrame \cup HostFrame
  PROVE  f.type \notin {Up, Down} /\ f # DshRestarted
<1>1. CASE f \in MuxFrame
  BY <1>1, MuxFrameKinds
     DEF Requested, Resolved, Projection, Queue, Event, DshRestarted, Up, Down
<1>2. CASE f \in HostFrame
  BY <1>2 DEF HostFrame, Removed, Workspace, DshRestarted, Up, Down
<1> QED
  BY <1>1, <1>2

\* A frame of dsh changes nothing of the lifecycle (hub.ts, ingestMux and ingestHost).
LEMMA FrameIsTold ==
  ASSUME NEW h \in Seq(Published), NEW g \in Nat, NEW up \in BOOLEAN, Told(h, g, up),
         NEW f \in MuxFrame \cup HostFrame
  PROVE  Told(h \o <<f>>, g, up)
<1>1. f \in Published /\ f.type # Up /\ f.type # Down /\ f # DshRestarted
  BY FramesArePublished, DshFramesDiffer
<1>2. Alternates(h) /\ MayFollow(h, f)
  BY <1>1, LenProperties DEF Told, MayFollow
<1> DEFINE k == h \o <<f>>
           n == Len(h)
<1>3. /\ Alternates(k) /\ Len(k) = n + 1 /\ k[n + 1] = f
      /\ \A t : Count(k, n + 1, t) = IF f.type = t THEN Count(h, n, t) + 1 ELSE Count(h, n, t)
  BY <1>1, <1>2, AlternationGrows
<1> HIDE DEF k
<1>4. Count(k, Len(k), Up) = Count(h, n, Up) /\ Count(k, Len(k), Down) = Count(h, n, Down)
  BY <1>1, <1>3
<1> QED
  BY <1>1, <1>3, <1>4 DEF Told, k

\* hub.ts, onDshDisconnected.
LEMMA LossIsTold ==
  ASSUME NEW h \in Seq(Published), NEW g \in Nat, Told(h, g, TRUE)
  PROVE  Told(h \o <<DshDisconnected>>, g, FALSE)
<1> DEFINE f == DshDisconnected
           k == h \o <<f>>
           n == Len(h)
<1>1. f \in Published /\ f.type # Up /\ f.type = Down /\ f # DshRestarted
  BY FramesArePublished DEF DshDisconnected, DshRestarted, Up, Down
<1> HIDE DEF f
<1>2. Alternates(h) /\ MayFollow(h, f)
  BY <1>1, LenProperties DEF Told, MayFollow
<1>3. /\ Alternates(k) /\ Len(k) = n + 1 /\ k[n + 1] = f
      /\ \A t : Count(k, n + 1, t) = IF f.type = t THEN Count(h, n, t) + 1 ELSE Count(h, n, t)
  BY <1>1, <1>2, AlternationGrows
<1> HIDE DEF k
<1>4. Count(k, Len(k), Up) = Count(h, n, Up) /\ Count(k, Len(k), Down) = Count(h, n, Down) + 1
  BY <1>1, <1>3
<1> QED
  BY <1>1, <1>3, <1>4 DEF Told, k, f

\* The announcement of a generation, after whatever h ends with.
LEMMA AnnouncementIsTold ==
  ASSUME NEW h \in Seq(Published), NEW g \in Nat, Alternates(h),
         Count(h, Len(h), Up) = g, Count(h, Len(h), Down) = g,
         g > 0 <=> (Len(h) > 0 /\ h[Len(h)] = DshRestarted)
  PROVE  Told(h \o <<DshReadyFrame(g + 1)>>, g + 1, TRUE)
<1> DEFINE f == DshReadyFrame(g + 1)
           k == h \o <<f>>
           n == Len(h)
<1>1. /\ f \in Published /\ f.type = Up /\ f.type # Down /\ f # DshRestarted
      /\ f = DshReadyFrame(g + 1) /\ f.generation = g + 1
  BY FramesArePublished DEF DshReadyFrame, DshRestarted, Up, Down
<1> HIDE DEF f
<1>2. MayFollow(h, f)
  BY <1>1, LenProperties DEF MayFollow
<1>3. /\ Alternates(k) /\ Len(k) = n + 1 /\ k[n + 1] = f
      /\ \A t : Count(k, n + 1, t) = IF f.type = t THEN Count(h, n, t) + 1 ELSE Count(h, n, t)
  BY <1>1, <1>2, AlternationGrows
<1> HIDE DEF k
<1>4. Count(k, Len(k), Up) = g + 1 /\ Count(k, Len(k), Down) = g
  BY <1>1, <1>3
<1> QED
  BY <1>1, <1>3, <1>4 DEF Told, k, f

\* hub.ts, onDshReady of the first generation.
LEMMA FirstIsTold ==
  ASSUME NEW h \in Seq(Published), Told(h, 0, FALSE)
  PROVE  Told(h \o <<DshReadyFrame(1)>>, 1, TRUE)
<1>1. /\ Alternates(h) /\ Count(h, Len(h), Up) = 0 /\ Count(h, Len(h), Down) = 0
      /\ (0 > 0) <=> (Len(h) > 0 /\ h[Len(h)] = DshRestarted)
  BY DEF Told
<1>2. 0 \in Nat /\ 0 + 1 = 1
  OBVIOUS
<1> QED
  BY <1>1, <1>2, AnnouncementIsTold

\* hub.ts, onDshReady of a generation that replaces another.
LEMMA RestartIsTold ==
  ASSUME NEW h \in Seq(Published), NEW g \in Nat, g > 0, Told(h, g, FALSE)
  PROVE  Told(h \o <<DshRestarted, DshReadyFrame(g + 1)>>, g + 1, TRUE)
<1> DEFINE m == DshRestarted
           a == DshReadyFrame(g + 1)
           k == h \o <<m>>
           n == Len(h)
<1>1. m \in Published /\ a \in Published /\ m.type # Up /\ m.type # Down
  BY FramesArePublished DEF DshRestarted, Up, Down
<1>2. Alternates(h) /\ MayFollow(h, m)
  BY <1>1, LenProperties DEF Told, MayFollow
<1>3. /\ Alternates(k) /\ Len(k) = n + 1 /\ k[n + 1] = m
      /\ \A t : Count(k, n + 1, t) = IF m.type = t THEN Count(h, n, t) + 1 ELSE Count(h, n, t)
  BY <1>1, <1>2, AlternationGrows
<1>4. k \in Seq(Published) /\ n \in Nat
  BY <1>1, LenProperties, ConcatProperties
<1>5. k \o <<a>> = h \o <<m, a>>
  <2>1. <<m>> \in Seq(Published) /\ <<a>> \in Seq(Published)
    BY <1>1
  <2>2. k \o <<a>> = h \o (<<m>> \o <<a>>)
    BY <2>1, ConcatAssociative
  <2> HIDE DEF m, a
  <2>3. <<m>> \o <<a>> = <<m, a>>
    <3>1. /\ <<m>> \o <<a>> \in Seq(Published) /\ Len(<<m>> \o <<a>>) = 2
          /\ (<<m>> \o <<a>>)[1] = m /\ (<<m>> \o <<a>>)[2] = a
      BY <1>1, <2>1, AppendIsConcat, AppendProperties
    <3>2. <<m, a>> \in Seq(Published) /\ Len(<<m, a>>) = 2 /\ <<m, a>>[1] = m /\ <<m, a>>[2] = a
      BY <1>1
    <3>3. \A i \in 1 .. 2 : i = 1 \/ i = 2
      OBVIOUS
    <3> QED
      BY <3>1, <3>2, <3>3, SeqEqual
  <2> QED
    BY <2>2, <2>3
<1> HIDE DEF k, m
<1>6. Count(k, Len(k), Up) = g /\ Count(k, Len(k), Down) = g
  BY <1>1, <1>3 DEF Told
<1>7. g > 0 <=> (Len(k) > 0 /\ k[Len(k)] = DshRestarted)
  BY <1>3, <1>4 DEF m
<1>8. Told(k \o <<DshReadyFrame(g + 1)>>, g + 1, TRUE)
  BY <1>3, <1>4, <1>6, <1>7, AnnouncementIsTold
<1> QED
  BY <1>5, <1>8 DEF m, a

-----------------------------------------------------------------------------
\* What is on its way to the bridge on the mux stream, q, against what dsh waits for, A.

\* After place i of q comes the end of r.
Ended(q, i, r) == \E j \in i + 1 .. Len(q) : q[j] = Resolved(r)
\* Whatever q still asks for is waited for, or ended behind it.
Honoured(q, A) ==
  \A i \in 1 .. Len(q) : \A r \in Rpc : q[i] = Requested(r) => r \in A \/ Ended(q, i, r)
\* Whatever the bridge holds open, P, is waited for, or its end is on its way.
Kept(q, A, P) == \A r \in P : r \in A \/ Ended(q, 0, r)

\* dsh sends p and from then on waits for B.
LEMMA SendingHonours ==
  ASSUME NEW q \in Seq(MuxFrame), NEW p \in Seq(MuxFrame), NEW A, NEW B,
         Honoured(q, A), Honoured(p, B), \A r \in A \ B : Ended(p, 0, r)
  PROVE  /\ q \o p \in Seq(MuxFrame)
         /\ Honoured(q \o p, B)
         /\ \A P : Kept(q, A, P) => Kept(q \o p, B, P)
<1> DEFINE k == q \o p
           n == Len(q)
           m == Len(p)
<1>1. /\ n \in Nat /\ m \in Nat /\ k \in Seq(MuxFrame) /\ Len(k) = n + m
      /\ \A i \in 1 .. n + m : k[i] = IF i <= n THEN q[i] ELSE p[i - n]
  BY LenProperties, ConcatProperties
<1> HIDE DEF k, n, m
<1>2. ASSUME NEW i \in 0 .. n, NEW r, Ended(q, i, r)
      PROVE  Ended(k, i, r)
  <2>1. PICK j \in i + 1 .. n : q[j] = Resolved(r)
    BY <1>2 DEF Ended, n
  <2>2. j \in 1 .. n + m /\ j <= n /\ j \in i + 1 .. n + m
    BY <1>1, <2>1
  <2> QED
    BY <1>1, <2>1, <2>2 DEF Ended
<1>3. ASSUME NEW a \in 0 .. m, NEW i \in 0 .. n + a, NEW r, Ended(p, a, r)
      PROVE  Ended(k, i, r)
  <2>1. PICK j \in a + 1 .. m : p[j] = Resolved(r)
    BY <1>3 DEF Ended, m
  <2>2. n + j \in 1 .. n + m /\ ~ (n + j <= n) /\ (n + j) - n = j /\ n + j \in i + 1 .. n + m
    BY SMTT(40), <1>1, <2>1
  <2>3. k[n + j] = p[j]
    BY <1>1, <2>2
  <2> QED
    BY <1>1, <2>1, <2>2, <2>3 DEF Ended
<1>4. 0 \in 0 .. m /\ \A i \in 0 .. n : i \in 0 .. n + 0
  BY <1>1
<1>5. ASSUME NEW i \in 0 .. n, NEW r \in A \ B
      PROVE  Ended(k, i, r)
  BY <1>3, <1>4
<1>6. ASSUME NEW i \in 1 .. n + m, NEW r \in Rpc, k[i] = Requested(r)
      PROVE  r \in B \/ Ended(k, i, r)
  <2>1. CASE i <= n
    <3>1. i \in 1 .. n /\ i \in 0 .. n /\ q[i] = Requested(r)
      BY <1>1, <1>6, <2>1
    <3>2. r \in A \/ Ended(q, i, r)
      BY <3>1 DEF Honoured, n
    <3> QED
      BY <1>2, <1>5, <3>1, <3>2
  <2>2. CASE ~ (i <= n)
    <3>1. i - n \in 1 .. m /\ i - n \in 0 .. m /\ i \in 0 .. n + (i - n) /\ p[i - n] = Requested(r)
      BY <1>1, <1>6, <2>2
    <3>2. r \in B \/ Ended(p, i - n, r)
      BY <3>1 DEF Honoured, m
    <3> QED
      BY <1>3, <3>1, <3>2
  <2> QED
    BY <2>1, <2>2
<1>7. Honoured(k, B)
  BY <1>1, <1>6 DEF Honoured
<1>8. ASSUME NEW P, Kept(q, A, P)
      PROVE  Kept(k, B, P)
  <2> SUFFICES ASSUME NEW r \in P PROVE r \in B \/ Ended(k, 0, r)
    BY DEF Kept
  <2>1. r \in A \/ Ended(q, 0, r)
    BY <1>8 DEF Kept
  <2>2. 0 \in 0 .. n
    BY <1>1
  <2> QED
    BY <1>2, <1>5, <2>1, <2>2
<1> QED
  BY <1>1, <1>7, <1>8 DEF k

\* The pump hands the first frame of q to the hub, and P becomes Q.
LEMMA PumpingHonours ==
  ASSUME NEW q \in Seq(MuxFrame), q # <<>>, NEW A, Honoured(q, A)
  PROVE  /\ Head(q) \in MuxFrame /\ Tail(q) \in Seq(MuxFrame)
         /\ Honoured(Tail(q), A)
         /\ \A P, Q : /\ Kept(q, A, P)
                      /\ \A r \in Q : /\ r \in Rpc /\ Head(q) # Resolved(r)
                                      /\ r \in P \/ Head(q) = Requested(r)
                      => Kept(Tail(q), A, Q)
<1> DEFINE k == Tail(q)
           n == Len(q)
<1>1. /\ n \in Nat /\ n >= 1 /\ Head(q) = q[1] /\ Head(q) \in MuxFrame
      /\ k \in Seq(MuxFrame) /\ Len(k) = n - 1
      /\ \A i \in 1 .. n - 1 : k[i] = q[i + 1]
  BY LenProperties, HeadTailProperties, EmptySeq
<1> HIDE DEF k, n
<1>2. ASSUME NEW i \in 1 .. n, NEW r, Ended(q, i, r)
      PROVE  Ended(k, i - 1, r)
  <2>1. PICK j \in i + 1 .. n : q[j] = Resolved(r)
    BY <1>2 DEF Ended, n
  <2>2. j - 1 \in 1 .. n - 1 /\ (j - 1) + 1 = j /\ j - 1 \in (i - 1) + 1 .. n - 1
    BY <1>1, <2>1
  <2>3. k[j - 1] = q[j]
    BY <1>1, <2>2
  <2> QED
    BY <1>1, <2>1, <2>2, <2>3 DEF Ended
<1>3. Honoured(k, A)
  <2> SUFFICES ASSUME NEW i \in 1 .. n - 1, NEW r \in Rpc, k[i] = Requested(r)
               PROVE  r \in A \/ Ended(k, i, r)
    BY <1>1 DEF Honoured
  <2>1. i + 1 \in 1 .. n /\ q[i + 1] = Requested(r) /\ (i + 1) - 1 = i
    BY <1>1
  <2>2. r \in A \/ Ended(q, i + 1, r)
    BY <2>1 DEF Honoured, n
  <2> QED
    BY <1>2, <2>1, <2>2
<1>4. ASSUME NEW P, NEW Q, Kept(q, A, P),
             \A r \in Q : /\ r \in Rpc /\ Head(q) # Resolved(r)
                          /\ r \in P \/ Head(q) = Requested(r)
      PROVE  Kept(k, A, Q)
  <2> SUFFICES ASSUME NEW r \in Q PROVE r \in A \/ Ended(k, 0, r)
    BY DEF Kept
  <2>1. 1 \in 1 .. n /\ 1 - 1 = 0
    BY <1>1
  <2>2. r \in A \/ Ended(q, 1, r)
    <3>1. CASE Head(q) = Requested(r)
      BY <1>1, <1>4, <2>1, <3>1 DEF Honoured, n
    <3>2. CASE r \in P
      <4>1. r \in A \/ Ended(q, 0, r)
        BY <1>4, <3>2 DEF Kept
      <4>2. ASSUME Ended(q, 0, r)
            PROVE  Ended(q, 1, r)
        <5>1. PICK j \in 0 + 1 .. n : q[j] = Resolved(r)
          BY <4>2 DEF Ended, n
        <5>2. j # 1
          BY <1>1, <1>4, <5>1
        <5>3. j \in 1 + 1 .. n
          BY <1>1, <5>1, <5>2
        <5> QED
          BY <5>1, <5>3 DEF Ended, n
      <4> QED
        BY <4>1, <4>2
    <3> QED
      BY <1>4, <3>1, <3>2
  <2> QED
    BY <1>2, <2>1, <2>2
<1> QED
  BY <1>1, <1>3, <1>4 DEF k

\* A frame that dsh sends on its own is honoured by what it waits for then.
LEMMA OneFrameHonours ==
  ASSUME NEW r \in Rpc, NEW B
  PROVE  /\ <<Resolved(r)>> \in Seq(MuxFrame) /\ Honoured(<<Resolved(r)>>, B)
         /\ Ended(<<Resolved(r)>>, 0, r)
         /\ <<Requested(r)>> \in Seq(MuxFrame)
         /\ r \in B => Honoured(<<Requested(r)>>, B)
<1>1. Resolved(r) \in MuxFrame /\ Requested(r) \in MuxFrame
  BY DEF MuxFrame
<1> DEFINE a == Resolved(r)
           b == Requested(r)
<1>2. /\ <<a>> \in Seq(MuxFrame) /\ Len(<<a>>) = 1 /\ <<a>>[1] = a
      /\ <<b>> \in Seq(MuxFrame) /\ Len(<<b>>) = 1 /\ <<b>>[1] = b
  BY <1>1
<1> HIDE DEF a, b
<1>3. \A i \in 1 .. 1 : i = 1
  OBVIOUS
<1>4. Honoured(<<a>>, B)
  BY <1>2, <1>3, RequestsDiffer DEF Honoured, a
<1>5. Ended(<<a>>, 0, r)
  <2>1. 1 \in 0 + 1 .. 1
    OBVIOUS
  <2> QED
    BY <1>2, <2>1 DEF Ended, a
<1>6. r \in B => Honoured(<<b>>, B)
  BY <1>2, <1>3, RequestsDiffer DEF Honoured, b
<1> QED
  BY <1>2, <1>4, <1>5, <1>6 DEF a, b

\* What dsh replays to a socket that opens, and what it sends when a session goes away.
LEMMA ListsHonour ==
  ASSUME NEW S, IsFiniteSet(S), S \subseteq Rpc
  PROVE  /\ Requests(S) \in Seq(MuxFrame) /\ Honoured(Requests(S), S)
         /\ LET ends == [i \in 1 .. Cardinality(S) |-> Resolved(SetToSeq(S)[i])]
            IN  /\ ends \in Seq(MuxFrame)
                /\ \A B : Honoured(ends, B)
                /\ \A r \in S : Ended(ends, 0, r)
<1> DEFINE n == Cardinality(S)
           f == SetToSeq(S)
           asks == Requests(S)
           ends == [i \in 1 .. n |-> Resolved(f[i])]
<1>1. /\ n \in Nat /\ \A i \in 1 .. n : f[i] \in S
      /\ \A x \in S : \E i \in 1 .. n : f[i] = x
  BY ListsAll
<1>2. /\ DOMAIN asks = 1 .. n /\ \A i \in 1 .. n : asks[i] = Requested(f[i])
      /\ DOMAIN ends = 1 .. n /\ \A i \in 1 .. n : ends[i] = Resolved(f[i])
  BY DEF Requests
<1>3. asks \in [1 .. n -> MuxFrame] /\ ends \in [1 .. n -> MuxFrame]
  <2>1. \A i \in 1 .. n : Requested(f[i]) \in MuxFrame /\ Resolved(f[i]) \in MuxFrame
    BY <1>1 DEF MuxFrame
  <2> QED
    BY <2>1 DEF Requests
<1> HIDE DEF n, f, asks, ends
<1>4. asks \in Seq(MuxFrame) /\ Len(asks) = n /\ ends \in Seq(MuxFrame) /\ Len(ends) = n
  <2>1. asks \in Seq(MuxFrame) /\ ends \in Seq(MuxFrame)
    BY <1>1, <1>3, IsASeq
  <2>2. /\ Len(asks) \in Nat /\ DOMAIN asks = 1 .. Len(asks)
        /\ Len(ends) \in Nat /\ DOMAIN ends = 1 .. Len(ends)
    BY <2>1, LenProperties
  <2> QED
    BY <1>1, <1>2, <2>1, <2>2
<1>5. Honoured(asks, S)
  BY <1>1, <1>2, <1>4, RequestsDiffer DEF Honoured
<1>6. \A B : Honoured(ends, B)
  BY <1>2, <1>4, RequestsDiffer DEF Honoured
<1>7. ASSUME NEW r \in S
      PROVE  Ended(ends, 0, r)
  <2>1. PICK i \in 1 .. n : f[i] = r
    BY <1>1
  <2>2. i \in 0 + 1 .. n
    BY <2>1
  <2> QED
    BY <1>2, <1>4, <2>1, <2>2 DEF Ended
<1> QED
  BY <1>4, <1>5, <1>6, <1>7 DEF asks, ends, n, f

-----------------------------------------------------------------------------
\* The invariant.

In(q, f) == \E i \in 1 .. Len(q) : q[i] = f

\* What is in a longer queue.
LEMMA InGrows ==
  ASSUME NEW S, NEW q \in Seq(S), NEW p \in Seq(S), NEW f
  PROVE  In(q \o p, f) <=> In(q, f) \/ In(p, f)
<1> DEFINE n == Len(q)
           m == Len(p)
           k == q \o p
<1>1. /\ n \in Nat /\ m \in Nat /\ Len(k) = n + m
      /\ \A i \in 1 .. n + m : k[i] = IF i <= n THEN q[i] ELSE p[i - n]
  BY LenProperties, ConcatProperties
<1> HIDE DEF n, m, k
<1>2. ASSUME In(q, f)
      PROVE  In(k, f)
  <2>1. PICK i \in 1 .. n : q[i] = f
    BY <1>2 DEF In, n
  <2>2. i \in 1 .. n + m /\ i <= n
    BY <1>1, <2>1
  <2> QED
    BY <1>1, <2>1, <2>2 DEF In
<1>3. ASSUME In(p, f)
      PROVE  In(k, f)
  <2>1. PICK i \in 1 .. m : p[i] = f
    BY <1>3 DEF In, m
  <2>2. n + i \in 1 .. n + m /\ ~ (n + i <= n) /\ (n + i) - n = i
    BY <1>1, <2>1
  <2> QED
    BY <1>1, <2>1, <2>2 DEF In
<1>4. ASSUME In(k, f)
      PROVE  In(q, f) \/ In(p, f)
  <2>1. PICK i \in 1 .. n + m : k[i] = f
    BY <1>1, <1>4 DEF In
  <2>2. CASE i <= n
    <3>1. i \in 1 .. n /\ q[i] = f
      BY <1>1, <2>1, <2>2
    <3> QED
      BY <3>1 DEF In, n
  <2>3. CASE ~ (i <= n)
    <3>1. i - n \in 1 .. m /\ p[i - n] = f
      BY <1>1, <2>1, <2>3
    <3> QED
      BY <3>1 DEF In, m
  <2> QED
    BY <2>2, <2>3
<1> QED
  BY <1>2, <1>3, <1>4 DEF k

\* What is in a queue whose head was taken.
LEMMA InShrinks ==
  ASSUME NEW S, NEW q \in Seq(S), q # <<>>, NEW f
  PROVE  In(q, f) <=> In(Tail(q), f) \/ Head(q) = f
<1> DEFINE n == Len(q)
           k == Tail(q)
<1>1. /\ n \in Nat /\ n >= 1 /\ Head(q) = q[1] /\ Len(k) = n - 1
      /\ \A i \in 1 .. n - 1 : k[i] = q[i + 1]
  BY LenProperties, HeadTailProperties, EmptySeq
<1> HIDE DEF n, k
<1>2. 1 \in 1 .. n /\ \A i \in 1 .. n - 1 : i + 1 \in 1 .. n
  BY <1>1
<1>3. ASSUME In(q, f), Head(q) # f
      PROVE  In(k, f)
  <2>1. PICK i \in 1 .. n : q[i] = f
    BY <1>3 DEF In, n
  <2>2. i # 1
    BY <1>1, <1>3, <2>1
  <2>3. i - 1 \in 1 .. n - 1 /\ (i - 1) + 1 = i
    BY <1>1, <2>1, <2>2
  <2> QED
    BY <1>1, <2>1, <2>3 DEF In
<1>4. In(k, f) \/ Head(q) = f => In(q, f)
  BY <1>1, <1>2 DEF In, n
<1> QED
  BY <1>3, <1>4 DEF k

CoreTypes ==
  /\ HubInv /\ consumed = {} /\ dshReady \in BOOLEAN
  /\ socket \in [Carrier -> {"closed", "connecting", "open"}]
  /\ DOMAIN inbox = Carrier
  /\ inbox["mux"] \in Seq(MuxFrame) /\ inbox["host"] \in Seq(HostFrame)
  /\ IsFiniteSet(asked) /\ asked \subseteq everAsked /\ everAsked \subseteq Rpc

\* What dsh said so far, whether the bridge has read it or not.
Said(f) == In(log, f) \/ In(inbox["mux"], f) \/ In(inbox["host"], f)

\* An obligation whose end was said is not waited for, and is never asked for again.
EndingsAreFinal ==
  \A r \in Rpc : Said(Resolved(r)) \/ Said(Removed(SessionOf[r])) => r \in everAsked \ asked

\* The mux stream of this generation brings the bridge up to what dsh waits for. Until the
\* socket is open nothing is on its way, and the restart has left nothing open.
OnTheWay ==
  /\ socket["mux"] = "connecting" => inbox["mux"] = <<>>
  /\ socket["mux"] = "open" => Honoured(inbox["mux"], asked)
  /\ dshReady /\ generation > 1 =>
       /\ socket["mux"] = "connecting" => pending = {}
       /\ socket["mux"] = "open" => Kept(inbox["mux"], asked, pending)

Accounts == CoreTypes /\ Told(log, generation, dshReady) /\ EndingsAreFinal /\ OnTheWay

\* The hub takes dsh for ready exactly while the loop serves a generation whose handshake
\* succeeded.
Readiness ==
  /\ dshReady <=> loop = "serving" /\ connState = "connected"
  /\ loop \in {"unstarted", "handshake", "backoff"} => connState # "connected"

CoreInv == Accounts /\ Readiness

\* A bridge that has not connected yet.
LEMMA CoreInitEstablishesInv == CoreInit => CoreInv
<1> SUFFICES ASSUME CoreInit PROVE CoreInv
  OBVIOUS
<1>1. HubInv
  BY HubInitEstablishesInv DEF CoreInit
<1>2. /\ log = <<>> /\ consumed = {} /\ dshReady = FALSE /\ generation = 0
      /\ socket = [c \in Carrier |-> "closed"] /\ inbox = [c \in Carrier |-> <<>>]
      /\ asked = {} /\ everAsked = {}
      /\ loop = "unstarted" /\ connState = "idle"
  BY DEF CoreInit, HubInit, ConnInit
<1>3. socket["mux"] = "closed" /\ inbox["mux"] = <<>> /\ inbox["host"] = <<>>
  BY <1>2 DEF Carrier
<1>4. /\ <<>> \in Seq(MuxFrame) /\ <<>> \in Seq(HostFrame) /\ Len(<<>>) = 0
      /\ IsFiniteSet({}) /\ Cardinality({}) = 0
  BY EmptySeq, FS_EmptySet
<1>5. CoreTypes
  BY <1>1, <1>2, <1>3, <1>4 DEF CoreTypes
<1>6. Told(log, generation, dshReady)
  <2>1. \A h, t : {i \in 1 .. 0 : h[i].type = t} = {}
    OBVIOUS
  <2>2. \A h, t : Count(h, 0, t) = 0
    BY <1>4, <2>1 DEF Count
  <2>3. Alternates(<<>>)
    BY <1>4 DEF Alternates
  <2> QED
    BY <1>2, <1>4, <2>2, <2>3 DEF Told
<1>7. \A f : ~ Said(f)
  BY <1>2, <1>3, <1>4 DEF Said, In
<1>8. EndingsAreFinal /\ OnTheWay
  BY <1>2, <1>3, <1>7 DEF EndingsAreFinal, OnTheWay
<1> QED
  BY <1>2, <1>5, <1>6, <1>8 DEF CoreInv, Accounts, Readiness

-----------------------------------------------------------------------------
\* Steps that leave the hub alone.

\* Sockets may close; nothing else that the accounts are about changes.
LEMMA ClosingKeepsAccounts ==
  ASSUME Accounts, UNCHANGED <<hubVars, asked, everAsked>>,
         DOMAIN inbox' = DOMAIN inbox, \A c \in Carrier : inbox'[c] = inbox[c],
         socket' \in [Carrier -> {"closed", "connecting", "open"}],
         socket'["mux"] \in {"closed", socket["mux"]}
  PROVE  Accounts'
<1>1. HubInv'
  BY StutterKeepsInv DEF Accounts, CoreTypes
<1>2. /\ UNCHANGED <<log, generation, dshReady, consumed, pending>>
      /\ inbox'["mux"] = inbox["mux"] /\ inbox'["host"] = inbox["host"]
  BY DEF hubVars, Carrier
<1>3. CoreTypes'
  BY <1>1, <1>2 DEF Accounts, CoreTypes
<1>4. Told(log, generation, dshReady)'
  BY <1>2 DEF Accounts
<1>5. EndingsAreFinal'
  BY <1>2 DEF Accounts, EndingsAreFinal, Said
<1>6. OnTheWay'
  BY <1>2 DEF Accounts, OnTheWay
<1> QED
  BY <1>3, <1>4, <1>5, <1>6 DEF Accounts

\* With dsh its sockets end: what it waited for is forgotten with it.
LEMMA CrashKeepsAccounts ==
  ASSUME Accounts, DshCrashes
  PROVE  Accounts'
<1>0. /\ UNCHANGED <<hubVars, inbox, everAsked>> /\ asked' = {}
      /\ socket' = [c \in Carrier |-> "closed"]
  BY DEF DshCrashes, SocketsEnd
<1>1. HubInv'
  BY <1>0, StutterKeepsInv DEF Accounts, CoreTypes
<1>2. UNCHANGED <<log, generation, dshReady, consumed, pending>>
  BY <1>0 DEF hubVars
<1>3. socket'["mux"] = "closed" /\ IsFiniteSet({})
  BY <1>0, FS_EmptySet DEF Carrier
<1>4. CoreTypes'
  BY <1>0, <1>1, <1>2, <1>3 DEF Accounts, CoreTypes
<1>5. Told(log, generation, dshReady)'
  BY <1>2 DEF Accounts
<1>6. EndingsAreFinal'
  BY <1>0, <1>2 DEF Accounts, EndingsAreFinal, Said
<1>7. OnTheWay'
  BY <1>3 DEF OnTheWay
<1> QED
  BY <1>4, <1>5, <1>6, <1>7 DEF Accounts

\* A new generation starts with nothing on its way, and not ready.
LEMMA NewGenerationKeepsAccounts ==
  ASSUME Accounts, ~ dshReady, NewGeneration, UNCHANGED <<hubVars, envVars>>
  PROVE  Accounts'
<1>0. /\ socket' = [c \in Carrier |-> "connecting"] /\ inbox' = [c \in Carrier |-> <<>>]
      /\ UNCHANGED <<log, generation, dshReady, consumed, pending, asked, everAsked>>
  BY DEF NewGeneration, hubVars, envVars
<1>1. HubInv'
  BY StutterKeepsInv DEF Accounts, CoreTypes
<1>2. /\ socket'["mux"] = "connecting"
      /\ inbox'["mux"] = <<>> /\ inbox'["host"] = <<>> /\ DOMAIN inbox' = Carrier
      /\ socket' \in [Carrier -> {"closed", "connecting", "open"}]
  BY <1>0 DEF Carrier
<1>3. <<>> \in Seq(MuxFrame) /\ <<>> \in Seq(HostFrame) /\ Len(<<>>) = 0
  BY EmptySeq
<1>4. CoreTypes'
  BY <1>0, <1>1, <1>2, <1>3 DEF Accounts, CoreTypes
<1>5. Told(log, generation, dshReady)'
  BY <1>0 DEF Accounts
<1>6. EndingsAreFinal'
  <2>1. \A f : Said(f)' => Said(f)
    BY <1>0, <1>2, <1>3 DEF Said, In
  <2> QED
    BY <1>0, <2>1 DEF Accounts, EndingsAreFinal
<1>7. OnTheWay'
  BY <1>0, <1>2 DEF OnTheWay
<1> QED
  BY <1>4, <1>5, <1>6, <1>7 DEF Accounts

\* dsh sends p on mux and h on host, where they are open, and then waits for asked'.
LEMMA SendingKeepsAccounts ==
  ASSUME Accounts, NEW p \in Seq(MuxFrame), NEW h \in Seq(HostFrame),
         UNCHANGED <<hubVars, socket>>, DOMAIN inbox' = Carrier,
         inbox'["mux"] = IF socket["mux"] = "open" THEN inbox["mux"] \o p ELSE inbox["mux"],
         inbox'["host"] = IF socket["host"] = "open" THEN inbox["host"] \o h ELSE inbox["host"],
         IsFiniteSet(asked'), asked' \subseteq everAsked', everAsked' \subseteq Rpc,
         Honoured(p, asked'), \A r \in asked \ asked' : Ended(p, 0, r),
         \A r \in Rpc : \/ r \in everAsked \ asked
                        \/ \E f \in {Resolved(r), Removed(SessionOf[r])} : In(p, f) \/ In(h, f)
                        => r \in everAsked' \ asked'
  PROVE  Accounts'
<1>0. UNCHANGED <<log, generation, dshReady, consumed, pending>>
  BY DEF hubVars
<1>1. HubInv'
  BY StutterKeepsInv DEF Accounts, CoreTypes
<1>2. inbox["mux"] \in Seq(MuxFrame) /\ inbox["host"] \in Seq(HostFrame)
  BY DEF Accounts, CoreTypes
<1>3. inbox["mux"] \o p \in Seq(MuxFrame) /\ inbox["host"] \o h \in Seq(HostFrame)
  BY <1>2, ConcatProperties
<1>4. CoreTypes'
  BY <1>0, <1>1, <1>2, <1>3 DEF Accounts, CoreTypes
<1>5. Told(log, generation, dshReady)'
  BY <1>0 DEF Accounts
<1>6. EndingsAreFinal'
  <2>1. \A f : /\ In(inbox["mux"] \o p, f) <=> In(inbox["mux"], f) \/ In(p, f)
               /\ In(inbox["host"] \o h, f) <=> In(inbox["host"], f) \/ In(h, f)
    BY <1>2, InGrows
  <2>2. ASSUME NEW f, Said(f)'
        PROVE  Said(f) \/ In(p, f) \/ In(h, f)
    <3>1. In(log', f) \/ In(inbox'["mux"], f) \/ In(inbox'["host"], f)
      BY <2>2 DEF Said
    <3>2. In(inbox'["mux"], f) => In(inbox["mux"], f) \/ In(p, f)
      BY <2>1
    <3>3. In(inbox'["host"], f) => In(inbox["host"], f) \/ In(h, f)
      BY <2>1
    <3> QED
      BY <1>0, <3>1, <3>2, <3>3 DEF Said
  <2>3. ASSUME NEW r \in Rpc, NEW f \in {Resolved(r), Removed(SessionOf[r])}, Said(f)'
        PROVE  r \in everAsked' \ asked'
    BY <2>2, <2>3 DEF Accounts, EndingsAreFinal
  <2> QED
    BY <2>3 DEF EndingsAreFinal
<1>7. OnTheWay'
  <2>1. CASE socket["mux"] = "open"
    <3>1. Honoured(inbox["mux"], asked)
      BY <2>1 DEF Accounts, OnTheWay
    <3>2. /\ Honoured(inbox["mux"] \o p, asked')
          /\ \A P : Kept(inbox["mux"], asked, P) => Kept(inbox["mux"] \o p, asked', P)
      BY <1>2, <3>1, SendingHonours
    <3> QED
      BY <1>0, <2>1, <3>2 DEF Accounts, OnTheWay
  <2>2. CASE socket["mux"] # "open"
    BY <1>0, <2>2 DEF Accounts, OnTheWay
  <2> QED
    BY <2>1, <2>2
<1> QED
  BY <1>4, <1>5, <1>6, <1>7 DEF Accounts

\* What a sending step does to the inboxes.
LEMMA SentIsReceived ==
  ASSUME Accounts, NEW frames, DshSends(frames)
  PROVE  /\ UNCHANGED <<hubVars, socket>> /\ DOMAIN inbox' = Carrier
         /\ inbox'["mux"] = IF socket["mux"] = "open" THEN inbox["mux"] \o frames["mux"]
                                                      ELSE inbox["mux"]
         /\ inbox'["host"] = IF socket["host"] = "open" THEN inbox["host"] \o frames["host"]
                                                        ELSE inbox["host"]
  BY DEF DshSends, Receive, Carrier

\* The empty queue, and that of one frame.
LEMMA NothingIsSaid == /\ \A S : <<>> \in Seq(S)
                       /\ \A f : ~ In(<<>>, f)
                       /\ \A f : In(<<f>>, f) /\ \A g : In(<<f>>, g) => g = f
<1>1. \A S : <<>> \in Seq(S) /\ Len(<<>>) = 0
  BY EmptySeq
<1>2. \A f : ~ In(<<>>, f)
  BY <1>1 DEF In
<1>3. \A f : Len(<<f>>) = 1 /\ <<f>>[1] = f
  OBVIOUS
<1>4. 1 \in 1 .. 1 /\ \A i \in 1 .. 1 : i = 1
  OBVIOUS
<1>5. ASSUME NEW f
      PROVE  In(<<f>>, f) /\ \A g : In(<<f>>, g) => g = f
  BY <1>3, <1>4 DEF In
<1> QED
  BY <1>1, <1>2, <1>5

\* dsh asks: what it asks for is new, and is on its way to an open mux socket.
LEMMA AskingKeepsAccounts ==
  ASSUME Accounts, DshAsks
  PROVE  Accounts'
<1> PICK r \in Rpc \ everAsked :
      /\ asked' = asked \cup {r} /\ everAsked' = everAsked \cup {r}
      /\ DshSends(OnMux(<<Requested(r)>>))
  BY DEF DshAsks
<1> DEFINE p == <<Requested(r)>>
<1>1. OnMux(p)["mux"] = p /\ OnMux(p)["host"] = <<>>
  BY DEF OnMux, Carrier
<1>2. p \in Seq(MuxFrame) /\ Honoured(p, asked')
  BY OneFrameHonours
<1>3. <<>> \in Seq(HostFrame) /\ \A f : ~ In(<<>>, f) /\ (In(p, f) => f = Requested(r))
  BY NothingIsSaid
<1> HIDE DEF p
<1>4. DshSends(OnMux(p))
  BY DEF p
<1>5. /\ UNCHANGED <<hubVars, socket>> /\ DOMAIN inbox' = Carrier
      /\ inbox'["mux"] = IF socket["mux"] = "open" THEN inbox["mux"] \o p ELSE inbox["mux"]
      /\ inbox'["host"] = IF socket["host"] = "open" THEN inbox["host"] \o <<>> ELSE inbox["host"]
  BY <1>1, <1>4, SentIsReceived
<1>6. IsFiniteSet(asked') /\ asked' \subseteq everAsked' /\ everAsked' \subseteq Rpc
  BY FS_AddElement DEF Accounts, CoreTypes
<1>7. \A q \in Rpc : \/ q \in everAsked \ asked
                     \/ \E f \in {Resolved(q), Removed(SessionOf[q])} : In(p, f) \/ In(<<>>, f)
                     => q \in everAsked' \ asked'
  <2>1. \A q : ~ In(p, Resolved(q)) /\ ~ In(p, Removed(SessionOf[q]))
    BY <1>3, RequestsDiffer
  <2> QED
    BY <1>3, <2>1
<1>8. \A q \in asked \ asked' : Ended(p, 0, q)
  OBVIOUS
<1> QED
  BY <1>2, <1>3, <1>5, <1>6, <1>7, <1>8, SendingKeepsAccounts

\* dsh resolves: the end is said, and follows whatever asked.
LEMMA ResolvingKeepsAccounts ==
  ASSUME Accounts, DshResolves
  PROVE  Accounts'
<1> PICK r \in asked :
      /\ asked' = asked \ {r} /\ UNCHANGED everAsked
      /\ DshSends(OnMux(<<Resolved(r)>>))
  BY DEF DshResolves
<1> DEFINE p == <<Resolved(r)>>
<1>0. r \in Rpc
  BY DEF Accounts, CoreTypes
<1>1. OnMux(p)["mux"] = p /\ OnMux(p)["host"] = <<>>
  BY DEF OnMux, Carrier
<1>2. p \in Seq(MuxFrame) /\ Honoured(p, asked') /\ Ended(p, 0, r)
  BY <1>0, OneFrameHonours
<1>3. <<>> \in Seq(HostFrame) /\ \A f : ~ In(<<>>, f) /\ (In(p, f) => f = Resolved(r))
  BY NothingIsSaid
<1> HIDE DEF p
<1>4. DshSends(OnMux(p))
  BY DEF p
<1>5. /\ UNCHANGED <<hubVars, socket>> /\ DOMAIN inbox' = Carrier
      /\ inbox'["mux"] = IF socket["mux"] = "open" THEN inbox["mux"] \o p ELSE inbox["mux"]
      /\ inbox'["host"] = IF socket["host"] = "open" THEN inbox["host"] \o <<>> ELSE inbox["host"]
  BY <1>1, <1>4, SentIsReceived
<1>6. IsFiniteSet(asked') /\ asked' \subseteq everAsked' /\ everAsked' \subseteq Rpc
  BY FS_RemoveElement DEF Accounts, CoreTypes
<1>7. \A q \in Rpc : \/ q \in everAsked \ asked
                     \/ \E f \in {Resolved(q), Removed(SessionOf[q])} : In(p, f) \/ In(<<>>, f)
                     => q \in everAsked' \ asked'
  <2>1. \A q : (In(p, Resolved(q)) => q = r) /\ ~ In(p, Removed(SessionOf[q]))
    BY <1>3, ResolutionsDiffer
  <2>2. r \in everAsked' \ asked'
    BY DEF Accounts, CoreTypes
  <2> QED
    BY <1>3, <2>1, <2>2
<1>8. \A q \in asked \ asked' : Ended(p, 0, q)
  BY <1>2
<1> QED
  BY <1>2, <1>3, <1>5, <1>6, <1>7, <1>8, SendingKeepsAccounts

\* dsh removes a session: the end of each of its obligations goes out on the mux stream.
LEMMA RemovingKeepsAccounts ==
  ASSUME Accounts, DshRemovesSession
  PROVE  Accounts'
<1> PICK s \in Session :
      LET dead == {r \in asked : SessionOf[r] = s}
      IN  /\ asked' = asked \ dead
          /\ everAsked' = everAsked \cup {r \in Rpc : SessionOf[r] = s}
          /\ DshSends([c \in Carrier |-> IF c = "host" THEN <<Removed(s)>>
                ELSE [i \in 1 .. Cardinality(dead) |-> Resolved(SetToSeq(dead)[i])]])
  BY DEF DshRemovesSession
<1> DEFINE dead == {r \in asked : SessionOf[r] = s}
           p == [i \in 1 .. Cardinality(dead) |-> Resolved(SetToSeq(dead)[i])]
           h == <<Removed(s)>>
           frames == [c \in Carrier |-> IF c = "host" THEN h ELSE p]
<1>1. frames["mux"] = p /\ frames["host"] = h
  BY DEF Carrier
<1>2. IsFiniteSet(dead) /\ dead \subseteq Rpc /\ dead \subseteq asked
  BY FS_Subset DEF Accounts, CoreTypes
<1>3. p \in Seq(MuxFrame) /\ Honoured(p, asked') /\ \A r \in dead : Ended(p, 0, r)
  <2> HIDE DEF dead
  <2> QED
    BY <1>2, ListsHonour
<1>4. h \in Seq(HostFrame) /\ \A f : In(h, f) => f = Removed(s)
  <2>1. Removed(s) \in HostFrame
    BY DEF HostFrame
  <2> QED
    BY <2>1, NothingIsSaid
<1>5. \A f : In(p, f) => \E r \in dead : f = Resolved(r)
  <2> HIDE DEF dead
  <2>1. Len(p) = Cardinality(dead)
    <3>1. Cardinality(dead) \in Nat
      BY <1>2, FS_CardinalityType
    <3>2. DOMAIN p = 1 .. Cardinality(dead)
      OBVIOUS
    <3>3. Len(p) \in Nat /\ DOMAIN p = 1 .. Len(p)
      BY <1>3, LenProperties
    <3> HIDE DEF p
    <3> QED
      BY <3>1, <3>2, <3>3
  <2>2. \A i \in 1 .. Cardinality(dead) : /\ p[i] = Resolved(SetToSeq(dead)[i])
                                         /\ SetToSeq(dead)[i] \in dead
    BY <1>2, ListsAll
  <2> HIDE DEF p
  <2> QED
    BY <2>1, <2>2 DEF In
<1>6. DshSends(frames) /\ asked' = asked \ dead
      /\ everAsked' = everAsked \cup {r \in Rpc : SessionOf[r] = s}
  OBVIOUS
<1>7. /\ UNCHANGED <<hubVars, socket>> /\ DOMAIN inbox' = Carrier
      /\ inbox'["mux"] = IF socket["mux"] = "open" THEN inbox["mux"] \o p ELSE inbox["mux"]
      /\ inbox'["host"] = IF socket["host"] = "open" THEN inbox["host"] \o h ELSE inbox["host"]
  <2> HIDE DEF frames, p, h
  <2> QED
    BY <1>1, <1>6, SentIsReceived
<1>8. IsFiniteSet(asked') /\ asked' \subseteq everAsked' /\ everAsked' \subseteq Rpc
  <2>1. IsFiniteSet(asked \ dead)
    <3> HIDE DEF dead
    <3> QED
      BY FS_Difference DEF Accounts, CoreTypes
  <2> QED
    BY <1>6, <2>1 DEF Accounts, CoreTypes
<1>9. \A q \in Rpc : \/ q \in everAsked \ asked
                     \/ \E f \in {Resolved(q), Removed(SessionOf[q])} : In(p, f) \/ In(h, f)
                     => q \in everAsked' \ asked'
  <2>1. ASSUME NEW q \in Rpc, SessionOf[q] = s
        PROVE  q \in everAsked' \ asked'
    BY <1>6, <2>1
  <2>2. dead \subseteq {q \in Rpc : SessionOf[q] = s}
    BY <1>2
  <2> HIDE DEF p, h, dead
  <2>3. ASSUME NEW q \in Rpc, NEW f \in {Resolved(q), Removed(SessionOf[q])}, In(p, f) \/ In(h, f)
        PROVE  q \in everAsked' \ asked'
    <3>1. CASE In(p, f)
      <4>1. PICK r \in dead : f = Resolved(r)
        BY <1>5, <3>1
      <4>2. q = r
        BY <2>3, <4>1, ResolutionsDiffer
      <4> QED
        BY <2>1, <2>2, <4>2
    <3>2. CASE In(h, f)
      <4>1. f = Removed(s)
        BY <1>4, <3>2
      <4>2. SessionOf[q] = s
        BY <2>3, <4>1, ResolutionsDiffer, RemovalsDiffer
      <4> QED
        BY <2>1, <4>2
    <3> QED
      BY <2>3, <3>1, <3>2
  <2>4. \A q \in everAsked \ asked : q \in everAsked' \ asked'
    BY <1>6
  <2> QED
    BY <2>3, <2>4
<1>10. \A q \in asked \ asked' : Ended(p, 0, q)
  BY <1>3, <1>6
<1> HIDE DEF p, h, dead, frames
<1> QED
  BY <1>3, <1>4, <1>7, <1>8, <1>9, <1>10, SendingKeepsAccounts

\* A socket opens into what dsh replays (external: dsh; downlink.ts, handleOpen).
LEMMA OpeningKeepsAccounts ==
  ASSUME Accounts, NEW c \in Carrier, OpenSocket(c)
  PROVE  Accounts'
<1> DEFINE p == IF c = "mux" THEN Requests(asked) ELSE <<>>
<1>0. /\ socket[c] = "connecting" /\ socket' = [socket EXCEPT ![c] = "open"]
      /\ inbox' = [inbox EXCEPT ![c] = @ \o p]
      /\ UNCHANGED <<hubVars, asked, everAsked>>
  BY DEF OpenSocket, SocketOpens, envVars
<1>1. UNCHANGED <<log, generation, dshReady, consumed, pending>>
  BY <1>0 DEF hubVars
<1>2. HubInv'
  BY <1>0, StutterKeepsInv DEF Accounts, CoreTypes
<1>3. /\ inbox["mux"] \in Seq(MuxFrame) /\ inbox["host"] \in Seq(HostFrame)
      /\ DOMAIN inbox = Carrier /\ socket \in [Carrier -> {"closed", "connecting", "open"}]
      /\ IsFiniteSet(asked) /\ asked \subseteq Rpc
      /\ asked \subseteq everAsked /\ everAsked \subseteq Rpc
  BY DEF Accounts, CoreTypes
<1>4. CASE c = "mux"
  <2>1. p \in Seq(MuxFrame) /\ Honoured(p, asked) /\ p = Requests(asked)
    BY <1>3, <1>4, ListsHonour
  <2>2. inbox["mux"] = <<>>
    BY <1>0, <1>4 DEF Accounts, OnTheWay
  <2> HIDE DEF p
  <2>3. <<>> \o p = p
    BY <2>1, ConcatEmptySeq
  <2>4. /\ inbox'["mux"] = p /\ inbox'["host"] = inbox["host"] /\ DOMAIN inbox' = Carrier
        /\ socket'["mux"] = "open"
        /\ socket' \in [Carrier -> {"closed", "connecting", "open"}]
    BY <1>0, <1>3, <1>4, <2>2, <2>3 DEF Carrier
  <2>5. CoreTypes'
    BY <1>0, <1>1, <1>2, <1>3, <2>1, <2>4 DEF Accounts, CoreTypes
  <2>6. \A r : ~ In(p, Resolved(r)) /\ ~ In(p, Removed(SessionOf[r]))
    <3>1. \A i \in 1 .. Len(p) : \E r \in asked : p[i] = Requested(r)
      <4>1. /\ Cardinality(asked) \in Nat
            /\ \A i \in 1 .. Cardinality(asked) : SetToSeq(asked)[i] \in asked
        BY <1>3, ListsAll
      <4>2. DOMAIN p = 1 .. Cardinality(asked)
            /\ \A i \in 1 .. Cardinality(asked) : p[i] = Requested(SetToSeq(asked)[i])
        BY <2>1 DEF Requests
      <4>3. Len(p) \in Nat /\ DOMAIN p = 1 .. Len(p)
        BY <2>1, LenProperties
      <4> QED
        BY <4>1, <4>2, <4>3
    <3> QED
      BY <3>1, RequestsDiffer DEF In
  <2>7. EndingsAreFinal'
    <3>1. \A f : Said(f)' => Said(f) \/ In(p, f)
      BY <1>1, <2>4 DEF Said
    <3> QED
      BY <1>0, <2>6, <3>1 DEF Accounts, EndingsAreFinal
  <2>8. OnTheWay'
    <3>1. socket["mux"] = "connecting"
      BY <1>0, <1>4
    <3>2. dshReady /\ generation > 1 => Kept(p, asked, pending)
      BY <3>1 DEF Accounts, OnTheWay, Kept
    <3> QED
      BY <1>0, <1>1, <2>1, <2>4, <3>2 DEF OnTheWay
  <2> QED
    BY <1>1, <2>5, <2>7, <2>8 DEF Accounts
<1>5. CASE c = "host"
  <2>1. p = <<>> /\ inbox["host"] \o <<>> = inbox["host"]
    BY <1>3, <1>5, ConcatEmptySeq
  <2>2. DOMAIN inbox' = DOMAIN inbox /\ \A d \in Carrier : inbox'[d] = inbox[d]
    BY <1>0, <1>3, <1>5, <2>1 DEF Carrier
  <2>3. socket'["mux"] = socket["mux"] /\ socket' \in [Carrier -> {"closed", "connecting", "open"}]
    BY <1>0, <1>3, <1>5 DEF Carrier
  <2> QED
    BY <1>0, <2>2, <2>3, ClosingKeepsAccounts
<1> QED
  BY <1>4, <1>5 DEF Carrier

-----------------------------------------------------------------------------
\* Steps that call the hub.

\* The log and its end under one more frame of dsh.
LEMMA LogGrows ==
  ASSUME Accounts, NEW f \in MuxFrame \cup HostFrame, log' = log \o <<f>>,
         UNCHANGED <<generation, dshReady>>
  PROVE  /\ Told(log', generation', dshReady')
         /\ \A x : In(log', x) <=> In(log, x) \/ f = x
<1>1. /\ log \in Seq(Published) /\ generation \in Nat /\ dshReady \in BOOLEAN
      /\ Told(log, generation, dshReady)
  BY DEF Accounts, CoreTypes, HubInv, HubTypes
<1>2. <<f>> \in Seq(Published)
  BY FramesArePublished
<1>3. \A x : In(log \o <<f>>, x) <=> In(log, x) \/ In(<<f>>, x)
  BY <1>1, <1>2, InGrows
<1>4. \A x : In(<<f>>, x) <=> f = x
  BY NothingIsSaid
<1>5. Told(log \o <<f>>, generation, dshReady)
  BY <1>1, FrameIsTold
<1> QED
  BY <1>3, <1>4, <1>5

\* One turn of the mux pump (connection.ts, pump; hub.ts, ingestMux).
LEMMA PumpMuxKeepsAccounts ==
  ASSUME Accounts, PumpMux
  PROVE  Accounts'
<1> DEFINE q == inbox["mux"]
<1> PICK f : f = Head(q)
  OBVIOUS
<1>0. /\ q # <<>> /\ inbox' = [inbox EXCEPT !["mux"] = Tail(@)]
      /\ UNCHANGED <<socket, asked, everAsked>> /\ IngestMux(f)
  BY DEF PumpMux, Pump, envVars
<1>1. /\ q \in Seq(MuxFrame) /\ inbox["host"] \in Seq(HostFrame) /\ DOMAIN inbox = Carrier
      /\ consumed = {} /\ HubInv
  BY DEF Accounts, CoreTypes
<1>2. f \in MuxFrame /\ Tail(q) \in Seq(MuxFrame)
  BY <1>0, <1>1, HeadTailProperties
<1>3. /\ inbox'["mux"] = Tail(q) /\ inbox'["host"] = inbox["host"] /\ DOMAIN inbox' = Carrier
  BY <1>0, <1>1 DEF Carrier
<1> HIDE DEF q
<1>4. HubInv'
  BY <1>0, <1>1, <1>2, CallsKeepInv DEF HubCall
<1>5. log' = log \o <<f>> /\ UNCHANGED <<generation, dshReady>> /\ consumed' = {}
  BY <1>0, <1>1 DEF IngestMux, Publish, PublishAs
<1>6. /\ Told(log', generation', dshReady')
      /\ \A x : In(log', x) <=> In(log, x) \/ f = x
  BY <1>2, <1>5, LogGrows
<1>7. CoreTypes'
  BY <1>0, <1>1, <1>2, <1>3, <1>4, <1>5 DEF Accounts, CoreTypes
<1>8. EndingsAreFinal'
  <2>1. \A x : In(q, x) <=> In(Tail(q), x) \/ f = x
    BY <1>0, <1>1, InShrinks
  <2>2. \A x : Said(x)' => Said(x)
    BY <1>3, <1>6, <2>1 DEF Said, q
  <2> QED
    BY <1>0, <2>2 DEF Accounts, EndingsAreFinal
<1>9. ASSUME NEW r \in pending'
      PROVE  /\ r \in Rpc /\ f # Resolved(r)
             /\ r \in pending \/ f = Requested(r)
  <2>1. r \in Rpc
    BY <1>4 DEF HubInv, HubTypes
  <2>2. r \in pending \/ f = Requested(r)
    <3>1. CASE Answerable(f)
      <4>1. PICK x \in Rpc : f = Requested(x)
        BY <1>2, <3>1, MuxFrameKinds DEF Answerable, Resolved, Projection, Queue, Event
      <4>2. f.rpc = x
        BY <4>1 DEF Requested
      <4>3. pending' = pending \cup {x}
        BY <1>0, <3>1, <4>2 DEF IngestMux, RecordPending, Answerable
      <4> QED
        BY <4>1, <4>3
    <3>2. CASE ~ Answerable(f)
      BY <1>0, <3>2 DEF IngestMux, ResolvePending
    <3> QED
      BY <3>1, <3>2
  <2>3. ASSUME f = Resolved(r)
        PROVE  FALSE
    <3>1. /\ f.rpc = r /\ ~ Answerable(f)
          /\ f.type \in {"approval/resolved", "question/resolved"}
      BY <2>3 DEF Resolved, Answerable
    <3>2. ResolvePending(r)
      BY <1>0, <3>1 DEF IngestMux
    <3>3. byApprovalId = pending \cap Approval
      BY <1>1 DEF HubInv, Ledger, ObligationsAreOpen
    <3> QED
      BY <3>2, <3>3 DEF ResolvePending
  <2> QED
    BY <2>1, <2>2, <2>3
<1>10. OnTheWay'
  <2>1. CASE socket["mux"] = "connecting"
    BY <1>0, <2>1 DEF Accounts, OnTheWay, q
  <2>2. CASE socket["mux"] = "open"
    <3>1. Honoured(q, asked)
      BY <2>2 DEF Accounts, OnTheWay, q
    <3>2. Honoured(Tail(q), asked)
      BY <1>0, <1>1, <3>1, PumpingHonours
    <3>3. Kept(q, asked, pending) => Kept(Tail(q), asked, pending')
      BY <1>0, <1>1, <1>9, <3>1, PumpingHonours
    <3> QED
      BY <1>0, <1>3, <1>5, <2>2, <3>2, <3>3 DEF Accounts, OnTheWay, q
  <2>3. CASE socket["mux"] \notin {"connecting", "open"}
    BY <1>0, <2>3 DEF OnTheWay
  <2> QED
    BY <2>1, <2>2, <2>3
<1> QED
  BY <1>6, <1>7, <1>8, <1>10 DEF Accounts

\* One turn of the host pump (hub.ts, ingestHost).
LEMMA PumpHostKeepsAccounts ==
  ASSUME Accounts, PumpHost
  PROVE  Accounts'
<1> DEFINE q == inbox["host"]
<1> PICK f : f = Head(q)
  OBVIOUS
<1>0. /\ q # <<>> /\ inbox' = [inbox EXCEPT !["host"] = Tail(@)]
      /\ UNCHANGED <<socket, asked, everAsked>> /\ IngestHost(f)
  BY DEF PumpHost, Pump, envVars
<1>1. /\ q \in Seq(HostFrame) /\ inbox["mux"] \in Seq(MuxFrame) /\ DOMAIN inbox = Carrier
      /\ consumed = {} /\ HubInv
  BY DEF Accounts, CoreTypes
<1>2. f \in HostFrame /\ Tail(q) \in Seq(HostFrame)
  BY <1>0, <1>1, HeadTailProperties
<1>3. /\ inbox'["host"] = Tail(q) /\ inbox'["mux"] = inbox["mux"] /\ DOMAIN inbox' = Carrier
  BY <1>0, <1>1 DEF Carrier
<1> HIDE DEF q
<1>4. HubInv'
  BY <1>0, <1>1, <1>2, CallsKeepInv DEF HubCall
<1>5. log' = log \o <<f>> /\ UNCHANGED <<generation, dshReady, consumed>>
  BY <1>0 DEF IngestHost, Publish, PublishAs
<1>6. /\ Told(log', generation', dshReady')
      /\ \A x : In(log', x) <=> In(log, x) \/ f = x
  BY <1>2, <1>5, LogGrows
<1>7. CoreTypes'
  BY <1>0, <1>1, <1>2, <1>3, <1>4, <1>5 DEF Accounts, CoreTypes
<1>8. EndingsAreFinal'
  <2>1. \A x : In(q, x) <=> In(Tail(q), x) \/ f = x
    BY <1>0, <1>1, InShrinks
  <2>2. \A x : Said(x)' => Said(x)
    BY <1>3, <1>6, <2>1 DEF Said, q
  <2> QED
    BY <1>0, <2>2 DEF Accounts, EndingsAreFinal
<1>9. pending' \subseteq pending
  BY <1>0 DEF IngestHost, ForgetPending, DropPending
<1>10. OnTheWay'
  BY <1>0, <1>3, <1>5, <1>9 DEF Accounts, OnTheWay, Kept
<1> QED
  BY <1>6, <1>7, <1>8, <1>10 DEF Accounts

\* The lifecycle envelopes end nothing.
LEMMA LifecycleEndsNothing ==
  ASSUME NEW h \in Seq(Published), NEW fs \in Seq(Published),
         \A i \in 1 .. Len(fs) : Plain(fs[i]) \/ fs[i] = DshRestarted, NEW r
  PROVE  /\ In(h \o fs, Resolved(r)) <=> In(h, Resolved(r))
         /\ \A s : In(h \o fs, Removed(s)) <=> In(h, Removed(s))
<1>1. \A f : In(h \o fs, f) <=> In(h, f) \/ In(fs, f)
  BY InGrows
<1>2. ~ In(fs, Resolved(r))
  BY ResolutionsDiffer DEF In, Plain
<1>3. \A s : ~ In(fs, Removed(s))
  BY RemovalsDiffer DEF In, Plain
<1> QED
  BY <1>1, <1>2, <1>3

\* The handshake succeeds (connection.ts, the loop; hub.ts, onDshReady).
LEMMA ConnectingKeepsAccounts ==
  ASSUME Accounts, ~ dshReady, Connected
  PROVE  Accounts'
<1>0. OnDshReady /\ UNCHANGED <<socket, inbox, asked, everAsked>>
  BY DEF Connected, HandshakeSucceeds, envVars
<1>1. /\ HubInv /\ log \in Seq(Published) /\ generation \in Nat /\ consumed = {}
      /\ Told(log, generation, FALSE)
  BY DEF Accounts, CoreTypes, HubInv, HubTypes
<1>2. HubInv'
  BY <1>0, <1>1, CallsKeepInv DEF HubCall
<1>3. generation' = generation + 1 /\ dshReady' = TRUE /\ consumed' = consumed
  BY <1>0 DEF OnDshReady
<1>4. CoreTypes'
  BY <1>0, <1>2, <1>3 DEF Accounts, CoreTypes
<1>5. PICK fs \in Seq(Published) :
        /\ log' = log \o fs
        /\ \A i \in 1 .. Len(fs) : Plain(fs[i]) \/ fs[i] = DshRestarted
        /\ Told(log', generation + 1, TRUE)
  <2>1. CASE generation > 0
    <3> DEFINE a == DshReadyFrame(generation + 1)
               fs == <<DshRestarted, a>>
    <3>1. log' = log \o fs
      BY <1>0, <2>1 DEF OnDshReady, PublishAs
    <3>2. a \in Published /\ DshRestarted \in Published /\ Plain(a)
      BY <1>1, FramesArePublished, OthersArePlain
    <3>3. fs \in Seq(Published) /\ Len(fs) = 2 /\ fs[1] = DshRestarted /\ fs[2] = a
      BY <3>2
    <3>4. \A i \in 1 .. 2 : i = 1 \/ i = 2
      OBVIOUS
    <3>5. Told(log \o fs, generation + 1, TRUE)
      BY <1>1, <2>1, RestartIsTold
    <3> HIDE DEF fs, a
    <3> QED
      BY <3>1, <3>2, <3>3, <3>4, <3>5
  <2>2. CASE ~ (generation > 0)
    <3> DEFINE a == DshReadyFrame(1)
               fs == <<a>>
    <3>1. log' = log \o fs /\ generation = 0
      BY <1>0, <1>1, <2>2 DEF OnDshReady, Publish, PublishAs
    <3>2. a \in Published /\ Plain(a)
      BY FramesArePublished, OthersArePlain
    <3>3. fs \in Seq(Published) /\ Len(fs) = 1 /\ fs[1] = a
      BY <3>2
    <3>4. \A i \in 1 .. 1 : i = 1
      OBVIOUS
    <3>5. Told(log \o fs, generation + 1, TRUE)
      <4>1. Told(log, 0, FALSE)
        BY <1>1, <3>1, Zenon
      <4>2. Told(log \o <<DshReadyFrame(1)>>, 1, TRUE)
        BY <1>1, <4>1, FirstIsTold
      <4>3. generation + 1 = 1
        BY <3>1
      <4> QED
        BY <4>2, <4>3, Zenon
    <3> HIDE DEF fs, a
    <3> QED
      BY <3>1, <3>2, <3>3, <3>4, <3>5
  <2> QED
    BY <2>1, <2>2
<1>6. EndingsAreFinal'
  <2>1. \A r : /\ In(log', Resolved(r)) <=> In(log, Resolved(r))
               /\ \A s : In(log', Removed(s)) <=> In(log, Removed(s))
    BY <1>1, <1>5, LifecycleEndsNothing
  <2> QED
    BY <1>0, <2>1 DEF Accounts, EndingsAreFinal, Said
<1>7. OnTheWay'
  <2>1. generation' > 1 => pending' = {}
    BY <1>0, <1>1, <1>3 DEF OnDshReady, ClearPending
  <2> QED
    BY <1>0, <2>1 DEF Accounts, OnTheWay, Kept
<1> QED
  BY <1>3, <1>4, <1>5, <1>6, <1>7 DEF Accounts

\* A generation that was announced is lost (connection.ts, the loop; hub.ts,
\* onDshDisconnected).
LEMMA LosingKeepsAccounts ==
  ASSUME Accounts, dshReady, OnDshDisconnected, UNCHANGED <<socket, inbox, envVars>>
  PROVE  Accounts'
<1>1. /\ HubInv /\ log \in Seq(Published) /\ generation \in Nat /\ consumed = {}
      /\ Told(log, generation, TRUE)
  BY DEF Accounts, CoreTypes, HubInv, HubTypes
<1>2. HubInv'
  BY <1>1, CallsKeepInv DEF HubCall
<1>3. /\ log' = log \o <<DshDisconnected>> /\ dshReady' = FALSE
      /\ UNCHANGED <<generation, consumed, asked, everAsked>>
  BY DEF OnDshDisconnected, Publish, PublishAs, envVars
<1>4. CoreTypes'
  BY <1>2, <1>3 DEF Accounts, CoreTypes
<1>5. Told(log', generation', dshReady')
  BY <1>1, <1>3, LossIsTold
<1>6. EndingsAreFinal'
  <2> DEFINE fs == <<DshDisconnected>>
  <2>1. fs \in Seq(Published) /\ Len(fs) = 1 /\ fs[1] = DshDisconnected
    BY FramesArePublished
  <2>2. \A i \in 1 .. 1 : i = 1
    OBVIOUS
  <2> HIDE DEF fs
  <2>3. \A i \in 1 .. Len(fs) : Plain(fs[i]) \/ fs[i] = DshRestarted
    BY <2>1, <2>2, OthersArePlain
  <2>4. \A r : /\ In(log \o fs, Resolved(r)) <=> In(log, Resolved(r))
               /\ \A s : In(log \o fs, Removed(s)) <=> In(log, Removed(s))
    BY <1>1, <2>1, <2>3, LifecycleEndsNothing
  <2> QED
    BY <1>3, <2>4 DEF Accounts, EndingsAreFinal, Said, fs
<1>7. OnTheWay'
  BY <1>3 DEF Accounts, OnTheWay
<1> QED
  BY <1>4, <1>5, <1>6, <1>7 DEF Accounts

-----------------------------------------------------------------------------
\* The steps one by one.

\* The steps of the connection that call no sink and end no generation: sockets may close,
\* the inboxes stay.
Quiet ==
  \/ StopBridge \/ DshBoots \/ SocketDrops
  \/ \E c \in Carrier : RefuseSocket(c) \/ PumpEnd(c)
  \/ DescribeAnswers \/ DescribeFails \/ HandshakeTimesOut \/ HandshakeFailed \/ StopReturn

\* Quiet steps leave the hub and the queues alone.
LEMMA QuietOnlyCloses ==
  ASSUME Accounts, Quiet
  PROVE  /\ UNCHANGED <<hubVars, inbox, asked, everAsked>>
         /\ socket' \in [Carrier -> {"closed", "connecting", "open"}]
         /\ socket'["mux"] \in {"closed", socket["mux"]}
<1>0. socket \in [Carrier -> {"closed", "connecting", "open"}]
  BY DEF Accounts, CoreTypes
<1>1. ASSUME NEW cs, SocketsEnd(cs)
      PROVE  /\ socket' \in [Carrier -> {"closed", "connecting", "open"}]
             /\ socket'["mux"] \in {"closed", socket["mux"]}
  BY <1>0, <1>1 DEF SocketsEnd, Carrier
<1>2. ASSUME CloseSockets
      PROVE  /\ socket' \in [Carrier -> {"closed", "connecting", "open"}]
             /\ socket'["mux"] \in {"closed", socket["mux"]}
  BY <1>2 DEF CloseSockets, Carrier
<1>3. ASSUME UNCHANGED socket
      PROVE  /\ socket' \in [Carrier -> {"closed", "connecting", "open"}]
             /\ socket'["mux"] \in {"closed", socket["mux"]}
  BY <1>0, <1>3
<1>4. CASE StopBridge
  BY <1>2, <1>4 DEF StopBridge, Stop, envVars
<1>5. CASE DshBoots
  BY <1>3, <1>5 DEF DshBoots, connVars
<1>6. CASE SocketDrops
  BY <1>1, <1>6 DEF SocketDrops
<1>7. CASE \E c \in Carrier : RefuseSocket(c)
  BY <1>1, <1>7 DEF RefuseSocket, envVars
<1>8. CASE \E c \in Carrier : PumpEnd(c)
  BY <1>2, <1>8 DEF PumpEnd, PumpEnds, envVars
<1>9. CASE DescribeAnswers \/ DescribeFails
  BY <1>3, <1>9 DEF DescribeAnswers, DescribeFails, Describe, envVars
<1>10. CASE HandshakeTimesOut
  BY <1>3, <1>10 DEF HandshakeTimesOut, OpenTimeout
<1>11. CASE HandshakeFailed
  BY <1>2, <1>11 DEF HandshakeFailed, HandshakeFails, envVars
<1>12. CASE StopReturn
  BY <1>3, <1>12 DEF StopReturn, StopReturns, envVars
<1> QED
  BY <1>4, <1>5, <1>6, <1>7, <1>8, <1>9, <1>10, <1>11, <1>12 DEF Quiet

\* All the steps: a sink that is called, an end of a generation, a step of dsh, or a quiet
\* one.
LEMMA AccountsKept == CoreInv /\ [CoreNext]_coreVars => Accounts'
<1> SUFFICES ASSUME CoreInv, [CoreNext]_coreVars PROVE Accounts'
  OBVIOUS
<1>0. Accounts /\ Readiness /\ socket \in [Carrier -> {"closed", "connecting", "open"}]
  BY DEF CoreInv, Accounts, CoreTypes
<1>1. CASE UNCHANGED coreVars
  <2>1. UNCHANGED <<hubVars, socket, inbox, asked, everAsked>>
    BY <1>1 DEF coreVars, connVars, envVars
  <2> QED
    BY <1>0, <2>1, ClosingKeepsAccounts DEF Carrier
<1>2. CASE Quiet
  <2>1. /\ UNCHANGED <<hubVars, inbox, asked, everAsked>>
        /\ socket' \in [Carrier -> {"closed", "connecting", "open"}]
        /\ socket'["mux"] \in {"closed", socket["mux"]}
    BY <1>0, <1>2, QuietOnlyCloses
  <2> QED
    BY <1>0, <2>1, ClosingKeepsAccounts
<1>3. CASE StartBridge
  <2>1. NewGeneration /\ UNCHANGED <<hubVars, envVars>> /\ ~ dshReady
    BY <1>0, <1>3 DEF StartBridge, Start, Readiness
  <2> QED
    BY <1>0, <2>1, NewGenerationKeepsAccounts
<1>4. CASE BackoffOver
  <2>1. UNCHANGED <<hubVars, envVars>> /\ ~ dshReady
    BY <1>0, <1>4 DEF BackoffOver, BackoffEnds, Readiness
  <2>2. CASE running
    <3>1. NewGeneration
      BY <1>4, <2>2 DEF BackoffOver, BackoffEnds
    <3> QED
      BY <1>0, <2>1, <3>1, NewGenerationKeepsAccounts
  <2>3. CASE ~ running
    <3>1. UNCHANGED <<socket, inbox, asked, everAsked>>
      BY <1>4, <2>1, <2>3 DEF BackoffOver, BackoffEnds, envVars
    <3> QED
      BY <1>0, <2>1, <3>1, ClosingKeepsAccounts DEF Carrier
  <2> QED
    BY <2>2, <2>3
<1>5. CASE DshAsks
  BY <1>0, <1>5, AskingKeepsAccounts
<1>6. CASE DshResolves
  BY <1>0, <1>6, ResolvingKeepsAccounts
<1>7. CASE DshRemovesSession
  BY <1>0, <1>7, RemovingKeepsAccounts
<1>8. CASE DshCrashes
  BY <1>0, <1>8, CrashKeepsAccounts
<1>9. CASE \E c \in Carrier : OpenSocket(c)
  BY <1>0, <1>9, OpeningKeepsAccounts
<1>10. CASE Connected
  <2>1. ~ dshReady
    BY <1>0, <1>10 DEF Connected, HandshakeSucceeds, Readiness
  <2> QED
    BY <1>0, <1>10, <2>1, ConnectingKeepsAccounts
<1>11. CASE Disconnected
  <2>1. UNCHANGED <<socket, inbox, envVars>> /\ loop = "serving"
    BY <1>11 DEF Disconnected, GenerationLost
  <2>2. CASE WasConnected
    <3>1. OnDshDisconnected /\ dshReady
      BY <1>0, <1>11, <2>1, <2>2 DEF Disconnected, WasConnected, Readiness
    <3> QED
      BY <1>0, <2>1, <3>1, LosingKeepsAccounts
  <2>3. CASE ~ WasConnected
    <3>1. UNCHANGED <<hubVars, asked, everAsked>>
      BY <1>11, <2>1, <2>3 DEF Disconnected, envVars
    <3> QED
      BY <1>0, <2>1, <3>1, ClosingKeepsAccounts DEF Carrier
  <2> QED
    BY <2>2, <2>3
<1>12. CASE PumpMux
  BY <1>0, <1>12, PumpMuxKeepsAccounts
<1>13. CASE PumpHost
  BY <1>0, <1>13, PumpHostKeepsAccounts
<1> QED
  BY <1>1, <1>2, <1>3, <1>4, <1>5, <1>6, <1>7, <1>8, <1>9, <1>10, <1>11, <1>12, <1>13
     DEF CoreNext, Quiet

\* Only two steps touch both the loop and the hub's readiness, and they do so together.
LEMMA ReadinessKept == Readiness /\ [CoreNext]_coreVars => Readiness'
<1> SUFFICES ASSUME Readiness, [CoreNext]_coreVars PROVE Readiness'
  OBVIOUS
<1> DEFINE Same == UNCHANGED <<loop, connState, dshReady>>
<1>0. ASSUME Same
      PROVE  Readiness'
  BY <1>0 DEF Readiness
<1>1. CASE UNCHANGED coreVars
  BY <1>0, <1>1 DEF coreVars, connVars, hubVars
<1>2. CASE StartBridge
  BY <1>2 DEF StartBridge, Start, NewGeneration, hubVars, Readiness
<1>3. CASE StopBridge
  BY <1>0, <1>3 DEF StopBridge, Stop, hubVars
<1>4. CASE DshAsks
  BY <1>0, <1>4 DEF DshAsks, DshSends, hubVars
<1>5. CASE DshResolves
  BY <1>0, <1>5 DEF DshResolves, DshSends, hubVars
<1>6. CASE DshRemovesSession
  BY <1>0, <1>6 DEF DshRemovesSession, DshSends, hubVars
<1>7. CASE DshCrashes
  BY <1>0, <1>7 DEF DshCrashes, hubVars
<1>8. CASE DshBoots
  BY <1>0, <1>8 DEF DshBoots, hubVars, connVars
<1>9. CASE SocketDrops
  BY <1>0, <1>9 DEF SocketDrops, hubVars
<1>10. CASE \E c \in Carrier : OpenSocket(c)
  BY <1>0, <1>10 DEF OpenSocket, SocketOpens, hubVars
<1>11. CASE \E c \in Carrier : RefuseSocket(c)
  BY <1>0, <1>11 DEF RefuseSocket, hubVars
<1>12. CASE \E c \in Carrier : PumpEnd(c)
  BY <1>0, <1>12 DEF PumpEnd, PumpEnds, hubVars
<1>13. CASE DescribeAnswers \/ DescribeFails
  BY <1>0, <1>13 DEF DescribeAnswers, DescribeFails, Describe, hubVars
<1>14. CASE HandshakeTimesOut
  BY <1>0, <1>14 DEF HandshakeTimesOut, OpenTimeout, hubVars
<1>15. CASE Connected
  BY <1>15 DEF Connected, HandshakeSucceeds, OnDshReady, Readiness
<1>16. CASE HandshakeFailed
  BY <1>16 DEF HandshakeFailed, HandshakeFails, hubVars, Readiness
<1>17. CASE Disconnected
  <2>1. loop = "serving" /\ loop' \in {"backoff", "returned"}
        /\ (loop' = "backoff" => connState' = "reconnecting")
    BY <1>17 DEF Disconnected, GenerationLost
  <2>2. ~ dshReady'
    <3>1. CASE WasConnected
      BY <1>17, <3>1 DEF Disconnected, OnDshDisconnected
    <3>2. CASE ~ WasConnected
      BY <1>17, <2>1, <3>2 DEF Disconnected, WasConnected, hubVars, Readiness
    <3> QED
      BY <3>1, <3>2
  <2> QED
    BY <2>1, <2>2 DEF Readiness
<1>18. CASE PumpMux
  BY <1>0, <1>18 DEF PumpMux, Pump, IngestMux
<1>19. CASE PumpHost
  BY <1>0, <1>19 DEF PumpHost, Pump, IngestHost
<1>20. CASE BackoffOver
  BY <1>20 DEF BackoffOver, BackoffEnds, NewGeneration, hubVars, Readiness
<1>21. CASE StopReturn
  BY <1>21 DEF StopReturn, StopReturns, hubVars, Readiness
<1> QED
  BY <1>1, <1>2, <1>3, <1>4, <1>5, <1>6, <1>7, <1>8, <1>9, <1>10, <1>11, <1>12, <1>13,
     <1>14, <1>15, <1>16, <1>17, <1>18, <1>19, <1>20, <1>21
     DEF CoreNext

\* The inductive invariant of the connection and the hub together.
THEOREM CoreInvHolds == CoreSpec => []CoreInv
<1>1. CoreInv /\ [CoreNext]_coreVars => CoreInv'
  BY AccountsKept, ReadinessKept DEF CoreInv
<1> QED
  BY <1>1, CoreInitEstablishesInv, PTL DEF CoreSpec

-----------------------------------------------------------------------------
\* What the invariant says of one state.

LEMMA InvAlternates == CoreInv => LifecycleAlternates
<1> SUFFICES ASSUME CoreInv PROVE LifecycleAlternates
  OBVIOUS
<1>1. Alternates(log)
  BY DEF CoreInv, Accounts, Told
<1>2. \A i : Announced(i) = Count(log, i, Up) /\ Lost(i) = Count(log, i, Down)
  BY DEF Announced, Lost, Count, Up, Down
<1> QED
  BY <1>1, <1>2 DEF LifecycleAlternates, Alternates, Index, Up, Down

\* The last announcement is not before the last restart marker.
LEMMA AnnouncedAfterRestart ==
  ASSUME CoreInv, dshReady
  PROVE  LastReady \in StartIn(log) .. Len(log) /\ StartIn(log) \in Nat /\ Len(log) \in Nat
<1> DEFINE n == Len(log)
           g == StartIn(log)
           ready == {i \in 1 .. n : log[i].type = Up}
<1>1. /\ log \in Seq(Published) /\ IsStart(log, g) /\ Told(log, generation, TRUE)
  BY DEF CoreInv, Accounts, CoreTypes, HubInv, HubTypes, Ledger, StartIsKnown
<1>2. n \in Nat /\ g \in Nat
  BY <1>1, LenProperties, StartIsUnique
<1>3. ready # {}
  <2>1. Cardinality(ready) = generation
    BY <1>1 DEF Told, Count
  <2>2. Count(log, n, Down) \in Nat /\ generation = Count(log, n, Down) + 1
    BY <1>1 DEF Told
  <2>3. generation # 0
    <3> DEFINE d == Count(log, n, Down)
    <3> HIDE DEF d
    <3>1. d \in Nat /\ generation = d + 1
      BY <2>2 DEF d
    <3> QED
      BY <3>1
  <2> HIDE DEF ready
  <2> QED
    BY <2>1, <2>3, FS_EmptySet
<1>4. \E i \in ready : \A j \in ready : j <= i
  <2>1. ready \subseteq 1 .. n
    OBVIOUS
  <2> HIDE DEF ready
  <2> QED
    BY <1>2, <1>3, <2>1, HasMaximum
<1>5. LastReady = CHOOSE i \in ready : \A j \in ready : j <= i
  BY DEF LastReady, Index, Up
<1>6. LastReady \in ready /\ \A j \in ready : j <= LastReady
  <2> HIDE DEF ready
  <2> QED
    BY <1>4, <1>5
<1>7. g <= LastReady
  <2>1. CASE g = 1
    BY <1>2, <1>6, <2>1
  <2>2. CASE g \in 1 .. n /\ Marker(log, g)
    <3>1. log[n] # DshRestarted
      BY <1>2, <2>2 DEF Told, CoreInv, Accounts
    <3>2. g + 1 \in 1 .. n /\ (g + 1) - 1 = g /\ g + 1 > 1
      BY <1>2, <2>2, <3>1 DEF Marker
    <3>3. log[g + 1].type = Up
      BY <1>1, <2>2, <3>2 DEF Told, Alternates, Marker
    <3>4. g + 1 \in ready
      BY <3>2, <3>3
    <3> HIDE DEF g, n, ready
    <3>5. g + 1 <= LastReady
      BY <1>6, <3>4
    <3>6. LastReady \in Nat
      BY <1>6 DEF ready
    <3> QED
      BY <1>2, <3>5, <3>6
  <2> QED
    BY <1>1, <2>1, <2>2 DEF IsStart
<1> QED
  BY <1>2, <1>6, <1>7

\* With an open mux socket and an empty queue, nothing is left between the bridge and dsh.
LEMMA InvFollowsDsh == CoreInv => ObligationsFollowDsh
<1> SUFFICES ASSUME CoreInv, CaughtUp
             PROVE  /\ \A r \in asked :
                         (\E i \in LastReady .. Len(log) : log[i] = Requested(r)) => r \in pending
                    /\ generation > 1 => pending \subseteq asked
  BY DEF ObligationsFollowDsh, AskedWhileConnectedIsPending, NoDeadObligationAfterRestart
<1>1. /\ dshReady /\ socket["mux"] = "open" /\ inbox["mux"] = <<>>
      /\ consumed = {} /\ asked \subseteq Rpc
      /\ EndingsAreFinal /\ OnTheWay
      /\ pending = {r \in Rpc : r \notin consumed /\ Asked(log, StartIn(log), r)}
  BY DEF CaughtUp, StreamsOpen, Carrier, CoreInv, Accounts, CoreTypes, HubInv, Ledger,
         ObligationsAreOpen
<1>2. LastReady \in StartIn(log) .. Len(log) /\ StartIn(log) \in Nat /\ Len(log) \in Nat
  BY <1>1, AnnouncedAfterRestart
<1>3. ASSUME NEW r \in asked, NEW i \in LastReady .. Len(log), log[i] = Requested(r)
      PROVE  r \in pending
  <2>1. \A j \in 1 .. Len(log) : log[j] # Resolved(r) /\ log[j] # Removed(SessionOf[r])
    BY <1>1 DEF EndingsAreFinal, Said, In
  <2>2. i \in StartIn(log) .. Len(log) /\ i + 1 .. Len(log) \subseteq 1 .. Len(log)
    BY <1>2
  <2>3. Asked(log, StartIn(log), r)
    BY <1>3, <2>1, <2>2 DEF Asked
  <2> QED
    BY <1>1, <2>3
<1>4. ASSUME generation > 1, NEW r \in pending
      PROVE  r \in asked
  <2>1. r \in asked \/ Ended(<<>>, 0, r)
    BY <1>1, <1>4 DEF OnTheWay, Kept
  <2>2. Len(<<>>) = 0
    BY EmptySeq
  <2> QED
    BY <2>1, <2>2 DEF Ended
<1> QED
  BY <1>3, <1>4

\* The phones' view of the lifecycle: through any number of crashes, lost and hung sockets
\* and failed handshakes, announcements and losses alternate, are numbered without a gap,
\* and the order to resync stands exactly before each announcement but the first
\* (connection.ts, the loop; hub.ts, onDshReady and onDshDisconnected).
THEOREM LifecyclesAlternate == CoreSpec => []LifecycleAlternates
  BY CoreInvHolds, InvAlternates, PTL

\* What phones are offered is what dsh waits for: once the bridge has read what the
\* generation sent, nothing asked for since it was announced is missing, and, behind a
\* restart, nothing of an earlier generation is left (hub.ts; snapshots.ts).
THEOREM ObligationsAreFollowed == CoreSpec => []ObligationsFollowDsh
  BY CoreInvHolds, InvFollowsDsh, PTL

-----------------------------------------------------------------------------
SessionState == {"none", "awaiting-claim", "awaiting-confirmation", "completed",
                 "failed", "expired"}
WindowState  == {"unused", "open", "finished", "closed"}

SessionRecord == [token : Window \cup {None}, state : SessionState, pending : Phone \cup {None}]
ShownPair     == (Phone \cup {None}) \X (Window \cup {None})
WindowRecord  == [state : WindowState, shown : ShownPair, paired : BOOLEAN,
                  declined : BOOLEAN, tier : Tier \cup {None}]
DeviceRecord  == [state : {"none", "active", "revoked"}, tier : Tier \cup {None},
                  by : Window \cup {None}]
PhoneState    == Outcome \cup {"idle", "posting"}
AnswerValue   == Outcome \cup {"awaiting-confirmation", None}
PairRecord    == [state : PhoneState, token : Window \cup {None}, answer : AnswerValue]

Types ==
  /\ session \in SessionRecord
  /\ dshReachable \in BOOLEAN
  /\ window \in [Window -> WindowRecord]
  /\ registry \in [Phone -> DeviceRecord]
  /\ phone \in [Phone -> PairRecord]
  /\ confirmed \subseteq [phone : Phone, token : Window, at : Window]

\* A session has a claim exactly from the claim on, and a token that was minted.
SessionIsClaimed ==
  /\ session.state = "none" <=> session.token = None
  /\ session.state \in {"awaiting-confirmation", "completed"} => session.pending # None
  /\ session.state \in {"none", "awaiting-claim", "expired"} => session.pending = None
  /\ session.token # None => window[session.token].state # "unused"

WindowsAreFresh ==
  /\ \A w \in Window : window[w].state = "unused" => window[w].shown = <<None, None>>
  /\ \A p \in Phone : phone[p].token # None => window[phone[p].token].state # "unused"

\* The session and the confirmations know of each other.
ConfirmedIsCompleted ==
  /\ \A c \in confirmed : /\ window[c.token].state # "unused"
                          /\ window[c.at].state \in {"finished", "closed"}
                          /\ window[c.at].paired
                          /\ c.token = session.token => session.state = "completed"
  /\ session.state = "completed" =>
       \E c \in confirmed : c.phone = session.pending /\ c.token = session.token

\* What one window, alone, shows and brings about.
ShownIsPending(w) ==
  window[w].shown # <<None, None>> =>
    /\ session.state # "awaiting-claim"
    /\ session.state \in {"awaiting-confirmation", "completed"} =>
         window[w].shown = <<session.pending, session.token>>
CompletedStays(w) ==
  \A c \in confirmed : c.at = w =>
    /\ session = [token |-> c.token, state |-> "completed", pending |-> c.phone]
    /\ window[w].shown = <<c.phone, c.token>>
    /\ phone[c.phone].token = c.token => ~ Hears(c.phone, "pairing-invalid")
ClaimantIsNotRefused ==
  /\ session.state = "awaiting-claim" =>
       \A p \in Phone : phone[p].token = session.token => ~ Hears(p, "pairing-invalid")
  /\ session.state = "awaiting-confirmation" =>
       (phone[session.pending].token = session.token
          => ~ Hears(session.pending, "pairing-invalid"))
OneWindow ==
  \A w \in Window : Alone(w) =>
    ShownIsPending(w) /\ CompletedStays(w) /\ ClaimantIsNotRefused

\* The record of a device is by the session that completed, and a phone that was told of
\* a pairing claims no other.
RecordIsOwn ==
  /\ session.state = "completed" => registry[session.pending].by = session.token
  /\ \A p \in Phone : Hears(p, "paired") =>
       /\ registry[p].by = phone[p].token
       /\ session.pending = p => session.token = phone[p].token

IInv == /\ Types /\ SessionIsClaimed /\ WindowsAreFresh /\ ConfirmedIsCompleted
        /\ TokenIsSingleUse /\ PairedWasConfirmed /\ OneWindow /\ RecordIsOwn

-----------------------------------------------------------------------------
\* A session that expires, in current, keeps its token, and one with a claim does not.
LEMMA CurrentSession ==
  ASSUME Types
  PROVE  /\ Current \in SessionRecord
         /\ Current.token = session.token /\ Current.pending = session.pending
         /\ \/ Current.state = session.state
            \/ session.state = "awaiting-claim" /\ Current.state = "expired"
         /\ session.state # "awaiting-claim" => Current = session
<1>1. CASE Current = session
  <2>1. session \in SessionRecord
    BY DEF Types
  <2> QED
    BY <1>1, <2>1
<1>2. CASE Current # session
  <2>1. /\ session.state = "awaiting-claim"
        /\ Current = [session EXCEPT !.state = "expired"]
    BY <1>2 DEF Current
  <2> QED
    BY <2>1 DEF Types, SessionRecord, SessionState
<1> QED
  BY <1>1, <1>2

\* The records of windows, changed in one field.
LEMMA WindowFields ==
  ASSUME NEW r \in WindowRecord
  PROVE  /\ \A x \in WindowState : [r EXCEPT !.state = x] \in WindowRecord
         /\ \A x \in ShownPair : [r EXCEPT !.shown = x] \in WindowRecord
         /\ \A x \in BOOLEAN : /\ [r EXCEPT !.paired = x] \in WindowRecord
                              /\ [r EXCEPT !.declined = x] \in WindowRecord
         /\ \A x \in Tier \cup {None} : [r EXCEPT !.tier = x] \in WindowRecord
  BY DEF WindowRecord

\* The record of a window that is over.
LEMMA FinishedRecord ==
  ASSUME Types, NEW w \in Window
  PROVE  /\ Finished(w) \in WindowRecord
         /\ [Finished(w) EXCEPT !.paired = TRUE] \in WindowRecord
         /\ [Finished(w) EXCEPT !.declined = TRUE] \in WindowRecord
<1>1. window[w] \in WindowRecord /\ "finished" \in WindowState
  BY DEF Types, WindowState
<1>2. Finished(w) \in WindowRecord
  BY <1>1, WindowFields DEF Finished
<1> QED
  BY <1>2, WindowFields

\* No session, no window, no device.
LEMMA InitEstablishesIInv == PairingInit => IInv
  BY PairingAssumption
  DEF PairingInit, IInv, Types, SessionRecord, ShownPair, WindowRecord, SessionIsClaimed,
      WindowsAreFresh, ConfirmedIsCompleted, TokenIsSingleUse, PairedWasConfirmed, OneWindow,
      ShownIsPending, CompletedStays,
      ClaimantIsNotRefused, noSession, unopened, unpaired, unknown, SessionState, WindowState,
      Outcome, Alone, DeviceRecord, PairRecord, PhoneState, AnswerValue, RecordIsOwn, Hears

-----------------------------------------------------------------------------
\* One lemma for each action, one step for each conjunct.
LEMMA PollWindowPreserves ==
  ASSUME IInv, NEW w \in Window, PollWindow(w)
  PROVE  IInv'
<1>w. /\ window[w].state = "open" /\ window'[w].state \in {"open", "finished"}
      /\ window' = [window EXCEPT ![w] = window'[w]] /\ window'[w] \in WindowRecord
      /\ window'[w].paired = window[w].paired
      /\ \/ window'[w].shown = window[w].shown
         \/ /\ session.state = "awaiting-confirmation"
            /\ window'[w].shown = <<session.pending, session.token>>
      /\ \A v \in Window \ {w} : window'[v] = window[v]
  <2>1. window \in [Window -> WindowRecord] /\ window[w] \in WindowRecord
    BY DEF IInv, Types
  <2>2. CASE window' = [window EXCEPT ![w] = Finished(w)]
    <3>1. window'[w] = Finished(w)
      BY <2>1, <2>2
    <3>2. /\ Finished(w).state = "finished" /\ Finished(w).shown = window[w].shown
          /\ Finished(w).paired = window[w].paired
      BY <2>1 DEF Finished, WindowRecord
    <3> QED
      BY <2>1, <2>2, <3>1, <3>2, FinishedRecord DEF PollWindow, IInv
  <2>3. CASE /\ Current.state = "awaiting-confirmation" /\ Current.pending # None
             /\ window' = [window EXCEPT ![w].shown = <<Current.pending, Current.token>>]
    <3> DEFINE shown == [window[w] EXCEPT !.shown = <<Current.pending, Current.token>>]
    <3>1. window' = [window EXCEPT ![w] = shown] /\ window'[w] = shown
      BY <2>1, <2>3
    <3>2. <<Current.pending, Current.token>> \in ShownPair
      BY CurrentSession DEF IInv, SessionRecord, ShownPair
    <3>3. shown \in WindowRecord
      BY <2>1, <3>2, WindowFields
    <3>4. /\ shown.state = window[w].state /\ shown.paired = window[w].paired
          /\ shown.shown = <<Current.pending, Current.token>>
      BY <2>1 DEF WindowRecord
    <3>5. session.state = "awaiting-confirmation" /\ Current = session
      BY <2>3, CurrentSession DEF IInv
    <3>6. \A v \in Window \ {w} : window'[v] = window[v]
      BY <2>1, <3>1
    <3>7. window[w].state = "open"
      BY DEF PollWindow
    <3> HIDE DEF shown
    <3> QED
      BY <3>1, <3>3, <3>4, <3>5, <3>6, <3>7
  <2> QED
    BY <2>2, <2>3 DEF PollWindow
<1>s. session' = Current /\ UNCHANGED <<elapsed, dshReachable, registry, phone, confirmed>>
  BY DEF PollWindow
<1>1. Types'
  BY <1>w, <1>s, CurrentSession DEF IInv, Types
<1>2. SessionIsClaimed'
  <2>1. \A v \in Window : window[v].state # "unused" => window'[v].state # "unused"
    BY <1>w
  <2>2. Current.token \in Window \cup {None}
    BY CurrentSession DEF IInv, SessionRecord
  <2> QED
    BY <1>s, <2>1, <2>2, CurrentSession DEF IInv, SessionIsClaimed
<1>3. WindowsAreFresh'
  <2>1. \A v \in Window : window'[v].state = "unused" => window'[v] = window[v]
    BY <1>w
  <2>2. \A v \in Window : window[v].state # "unused" => window'[v].state # "unused"
    BY <1>w
  <2>3. \A p \in Phone : phone'[p].token # None => phone[p].token \in Window
    BY <1>s DEF IInv, Types, PairRecord
  <2> QED
    BY <1>s, <2>1, <2>2, <2>3 DEF IInv, WindowsAreFresh
<1>4. ConfirmedIsCompleted'
  <2>1. \A c \in confirmed : c.at \in Window \ {w} /\ c.token \in Window
    BY <1>w DEF IInv, Types, ConfirmedIsCompleted
  <2>2. \A v \in Window : window[v].state # "unused" => window'[v].state # "unused"
    BY <1>w
  <2>3. \A c \in confirmed : window'[c.at] = window[c.at] /\ window'[c.token].state # "unused"
    BY <1>w, <2>1, <2>2 DEF IInv, ConfirmedIsCompleted
  <2> QED
    BY <1>s, <2>3, CurrentSession DEF IInv, ConfirmedIsCompleted
<1>5. TokenIsSingleUse'
  BY <1>s DEF IInv, TokenIsSingleUse
<1>6. PairedWasConfirmed'
  BY <1>s DEF IInv, PairedWasConfirmed, Hears
<1>7. OneWindow'
  <2> SUFFICES ASSUME NEW v \in Window, Alone(v)'
               PROVE  (ShownIsPending(v) /\ CompletedStays(v) /\ ClaimantIsNotRefused)'
    BY DEF OneWindow
  <2>1. v = w
    BY <1>w DEF Alone
  <2>2. Alone(w)
    BY <1>w, <2>1 DEF Alone
  <2>3. ShownIsPending(w) /\ ClaimantIsNotRefused
    BY <2>2 DEF IInv, OneWindow
  <2>4. \A c \in confirmed : c.at # w
    BY <1>w DEF IInv, ConfirmedIsCompleted
  <2>5. ShownIsPending(w)'
    BY <1>w, <1>s, <2>3, CurrentSession DEF IInv, ShownIsPending
  <2>6. CompletedStays(w)'
    BY <1>s, <2>4 DEF CompletedStays, Hears
  <2>7. ClaimantIsNotRefused'
    BY <1>s, <2>3, CurrentSession DEF IInv, ClaimantIsNotRefused, Hears
  <2> QED
    BY <2>1, <2>5, <2>6, <2>7
<1>8. RecordIsOwn'
  BY <1>s, CurrentSession DEF IInv, RecordIsOwn, Hears
<1> QED
  BY <1>1, <1>2, <1>3, <1>4, <1>5, <1>6, <1>7, <1>8 DEF IInv

\* The operator's yes: the claim of the session is registered, or the window just ends.
LEMMA AcceptPreserves ==
  ASSUME IInv, NEW w \in Window, Accept(w)
  PROVE  IInv'
<1>w. /\ window[w].state = "open" /\ window'[w].state = "finished"
      /\ Confirmable => window'[w].paired
      /\ window'[w].shown = window[w].shown /\ window[w].shown # <<None, None>>
      /\ \A v \in Window \ {w} : window'[v] = window[v]
  <2>1. window[w] \in WindowRecord /\ window \in [Window -> WindowRecord]
    BY DEF IInv, Types
  <2>2. /\ Finished(w).state = "finished"
        /\ [Finished(w) EXCEPT !.paired = TRUE].state = "finished"
        /\ [Finished(w) EXCEPT !.paired = TRUE].paired
        /\ Finished(w).shown = window[w].shown
        /\ [Finished(w) EXCEPT !.paired = TRUE].shown = window[w].shown
    BY <2>1 DEF Finished, WindowRecord
  <2>3. window'[w] = IF Confirmable THEN [Finished(w) EXCEPT !.paired = TRUE] ELSE Finished(w)
    BY <2>1 DEF Accept
  <2>4. \A v \in Window \ {w} : window'[v] = window[v]
    BY <2>1 DEF Accept
  <2> QED
    BY <2>2, <2>3, <2>4 DEF Accept, Deciding
<1>1. Types'
  <2>1. CASE Confirmable
    <3>1. session.pending \in Phone /\ session.token \in Window
      BY <2>1, PairingAssumption
      DEF Confirmable, IInv, Types, SessionRecord, SessionIsClaimed
    <3>2. /\ registry' = [registry EXCEPT ![session.pending] =
                            [state |-> "active", tier |-> window[w].tier,
                             by |-> session.token]]
          /\ session' = [session EXCEPT !.state = "completed"]
          /\ window' = [window EXCEPT ![w] = [Finished(w) EXCEPT !.paired = TRUE]]
          /\ confirmed' = confirmed \cup {[phone |-> session.pending, token |-> session.token,
                                          at |-> w]}
          /\ UNCHANGED <<dshReachable, phone>>
      BY <2>1 DEF Accept
    <3>3. [state |-> "active", tier |-> window[w].tier, by |-> session.token] \in DeviceRecord
      BY <3>1 DEF IInv, Types, WindowRecord, DeviceRecord
    <3>4. session' \in SessionRecord
      BY <3>2 DEF IInv, Types, SessionRecord, SessionState
    <3>5. window' \in [Window -> WindowRecord]
      BY <3>2, FinishedRecord DEF IInv, Types
    <3>6. confirmed' \subseteq [phone : Phone, token : Window, at : Window]
      BY <3>1, <3>2 DEF IInv, Types
    <3>7. registry' \in [Phone -> DeviceRecord]
      BY <3>1, <3>2, <3>3 DEF IInv, Types
    <3> QED
      BY <3>2, <3>4, <3>5, <3>6, <3>7 DEF IInv, Types
  <2>2. CASE ~ Confirmable
    BY <2>2, CurrentSession, FinishedRecord DEF Accept, IInv, Types
  <2> QED
    BY <2>1, <2>2
<1>2. SessionIsClaimed'
  <2>1. CASE Confirmable
    <3>1. /\ session'.state = "completed"
          /\ session'.pending = session.pending /\ session'.token = session.token
      BY <2>1 DEF Accept, IInv, Types, SessionRecord
    <3>2. /\ session.token \in Window /\ session.pending # None
          /\ window[session.token].state # "unused"
      BY <2>1, PairingAssumption DEF Confirmable, IInv, Types, SessionRecord, SessionIsClaimed
    <3> QED
      BY <1>w, <3>1, <3>2, PairingAssumption DEF SessionIsClaimed
  <2>2. CASE ~ Confirmable
    <3>1. session' = Current
      BY <2>2 DEF Accept
    <3> QED
      BY <1>w, <3>1, CurrentSession DEF IInv, Types, SessionRecord, SessionIsClaimed
  <2> QED
    BY <2>1, <2>2
<1>3. WindowsAreFresh'
  <2>1. phone' = phone
    BY DEF Accept
  <2> QED
    BY <1>w, <2>1 DEF IInv, Types, PairRecord, WindowsAreFresh
<1>4. ConfirmedIsCompleted'
  <2>1. CASE Confirmable
    <3> DEFINE d == [phone |-> session.pending, token |-> session.token, at |-> w]
    <3>1. /\ confirmed' = confirmed \cup {d}
          /\ session'.state = "completed"
          /\ session'.pending = session.pending /\ session'.token = session.token
      BY <2>1 DEF Accept, IInv, Types, SessionRecord
    <3>2. session.token \in Window /\ window[session.token].state # "unused"
      BY <2>1, PairingAssumption DEF Confirmable, IInv, Types, SessionRecord, SessionIsClaimed
    <3>3. ASSUME NEW c \in confirmed
          PROVE  /\ c.at \in Window \ {w} /\ window'[c.at] = window[c.at]
                 /\ c.token \in Window /\ window'[c.token].state # "unused"
      <4>1. c.at \in Window /\ c.token \in Window
        BY DEF IInv, Types
      <4> QED
        BY <1>w, <4>1 DEF IInv, ConfirmedIsCompleted
    <3>4. window'[session.token].state # "unused"
      BY <1>w, <3>2
    <3>5. d.phone = session.pending /\ d.token = session.token /\ d.at = w
      OBVIOUS
    <3> HIDE DEF d
    <3> QED
      <4>1. \A c \in confirmed' :
              /\ window'[c.token].state # "unused"
              /\ window'[c.at].state \in {"finished", "closed"}
              /\ window'[c.at].paired
        BY <1>w, <2>1, <3>1, <3>3, <3>4, <3>5 DEF IInv, ConfirmedIsCompleted
      <4>2. d \in confirmed'
        BY <3>1
      <4> QED
        BY <3>1, <3>5, <4>1, <4>2 DEF ConfirmedIsCompleted
  <2>2. CASE ~ Confirmable
    <3>1. confirmed' = confirmed /\ session' = Current
      BY <2>2 DEF Accept
    <3> QED
      BY <1>w, <3>1, CurrentSession DEF IInv, Types, ConfirmedIsCompleted
  <2> QED
    BY <2>1, <2>2
<1>5. TokenIsSingleUse'
  BY DEF IInv, TokenIsSingleUse, Accept, Confirmable, ConfirmedIsCompleted
<1>6. PairedWasConfirmed'
  BY DEF IInv, PairedWasConfirmed, Accept, Hears
<1>7. OneWindow'
  <2> SUFFICES ASSUME NEW v \in Window, Alone(v)'
               PROVE  (ShownIsPending(v) /\ CompletedStays(v) /\ ClaimantIsNotRefused)'
    BY DEF OneWindow
  <2>1. v = w
    BY <1>w DEF Alone
  <2>2. Alone(w)
    BY <1>w, <2>1 DEF Alone
  <2>3. ShownIsPending(w) /\ ClaimantIsNotRefused
    BY <2>2 DEF IInv, OneWindow
  <2>4. \A c \in confirmed : c.at # w
    BY <1>w DEF IInv, ConfirmedIsCompleted
  <2>5. CASE Confirmable
    <3>1. /\ session' = [session EXCEPT !.state = "completed"] /\ phone' = phone
          /\ confirmed' = confirmed \cup {[phone |-> session.pending, token |-> session.token,
                                          at |-> w]}
      BY <2>5 DEF Accept
    <3>2. /\ session.state = "awaiting-confirmation"
          /\ session' = [token |-> session.token, state |-> "completed",
                         pending |-> session.pending]
      BY <2>5, <3>1 DEF Confirmable, IInv, Types, SessionRecord
    <3>3. window[w].shown = <<session.pending, session.token>>
      BY <1>w, <2>3, <3>2 DEF ShownIsPending
    <3>4. ShownIsPending(w)' /\ ClaimantIsNotRefused'
      BY <1>w, <3>2, <3>3 DEF ShownIsPending, ClaimantIsNotRefused
    <3>5. \A c \in confirmed' : c.at = w => c.phone = session.pending /\ c.token = session.token
      BY <2>4, <3>1
    <3>6. phone[session.pending].token = session.token
            => ~ Hears(session.pending, "pairing-invalid")
      BY <2>3, <3>2 DEF ClaimantIsNotRefused
    <3>7. CompletedStays(w)'
      <4>1. ASSUME NEW c \in confirmed', c.at = w
            PROVE  /\ session' = [token |-> c.token, state |-> "completed", pending |-> c.phone]
                   /\ window'[w].shown = <<c.phone, c.token>>
                   /\ phone[c.phone].token = c.token => ~ Hears(c.phone, "pairing-invalid")'
        <5>1. c.phone = session.pending /\ c.token = session.token
          BY <3>5, <4>1
        <5> QED
          BY <1>w, <3>1, <3>2, <3>3, <3>6, <5>1 DEF Hears
      <4> QED
        BY <3>1, <4>1 DEF CompletedStays
    <3> QED
      BY <2>1, <3>4, <3>7
  <2>6. CASE ~ Confirmable
    <3>1. UNCHANGED <<confirmed, phone>> /\ session' = Current
      BY <2>6 DEF Accept
    <3>2. session.state \notin {"awaiting-claim", "awaiting-confirmation"}
      BY <1>w, <2>3, <2>6 DEF ShownIsPending, Confirmable, IInv, SessionIsClaimed
    <3>3. session' = session
      BY <3>1, <3>2, CurrentSession DEF IInv
    <3> QED
      BY <1>w, <2>1, <2>3, <2>4, <3>1, <3>2, <3>3
      DEF ShownIsPending, CompletedStays, ClaimantIsNotRefused, Hears
  <2> QED
    BY <2>5, <2>6
<1>8. RecordIsOwn'
  <2>1. phone' = phone
    BY DEF Accept
  <2>2. CASE Confirmable
    <3>1. /\ session' = [session EXCEPT !.state = "completed"]
          /\ registry' = [registry EXCEPT ![session.pending] =
                            [state |-> "active", tier |-> window[w].tier,
                             by |-> session.token]]
      BY <2>2 DEF Accept
    <3>2. /\ session'.pending = session.pending /\ session'.token = session.token
          /\ session.pending \in Phone
      BY <2>2, <3>1 DEF Confirmable, IInv, Types, SessionRecord
    <3>3. \A p \in Phone : registry'[p].by = IF p = session.pending THEN session.token
                                             ELSE registry[p].by
      BY <3>1, <3>2 DEF IInv, Types, DeviceRecord
    <3> QED
      BY <2>1, <3>2, <3>3 DEF IInv, RecordIsOwn, Hears
  <2>3. CASE ~ Confirmable
    BY <2>1, <2>3, CurrentSession DEF Accept, IInv, RecordIsOwn, Hears
  <2> QED
    BY <2>2, <2>3
<1> QED
  BY <1>1, <1>2, <1>3, <1>4, <1>5, <1>6, <1>7, <1>8 DEF IInv

\* The operator's no.
LEMMA DeclinePreserves ==
  ASSUME IInv, NEW w \in Window, Decline(w)
  PROVE  IInv'
<1>1. Types'
  <2>1. session' \in SessionRecord
    BY DEF Decline, IInv, Types, SessionRecord, SessionState
  <2> QED
    BY <2>1, FinishedRecord DEF Decline, IInv, Types
<1>2. SessionIsClaimed'
  BY DEF IInv, SessionIsClaimed, Decline, Finished
<1>3. WindowsAreFresh'
  BY DEF IInv, WindowsAreFresh, Decline, Finished
<1>4. ConfirmedIsCompleted'
  BY DEF IInv, ConfirmedIsCompleted, Decline, Finished
<1>5. TokenIsSingleUse'
  BY DEF IInv, TokenIsSingleUse, Decline
<1>6. PairedWasConfirmed'
  BY DEF IInv, PairedWasConfirmed, Hears, Decline
<1>7. OneWindow'
  BY DEF IInv, OneWindow, ShownIsPending, CompletedStays, ClaimantIsNotRefused, Alone, Hears, Decline,
         Finished
<1>8. RecordIsOwn'
  BY CurrentSession DEF IInv, RecordIsOwn, Hears, Types, PairRecord, DeviceRecord, Decline
<1> QED
  BY <1>1, <1>2, <1>3, <1>4, <1>5, <1>6, <1>7, <1>8 DEF IInv

\* The window is closed, and the session dropped unless the code keeps it.
LEMMA CancelPreserves ==
  ASSUME IInv, NEW w \in Window, Cancel(w)
  PROVE  IInv'
<1>1. Types'
  BY DEF IInv, Types, SessionRecord, SessionState, WindowRecord, WindowState, Outcome, Cancel,
         noSession
<1>2. SessionIsClaimed'
  BY DEF IInv, SessionIsClaimed, Cancel, noSession
<1>3. WindowsAreFresh'
  BY DEF IInv, WindowsAreFresh, Cancel
<1>4. ConfirmedIsCompleted'
  BY PairingAssumption DEF IInv, ConfirmedIsCompleted, Cancel, noSession, Types
<1>5. TokenIsSingleUse'
  BY DEF IInv, TokenIsSingleUse, Cancel
<1>6. PairedWasConfirmed'
  BY DEF IInv, PairedWasConfirmed, Hears, Cancel
<1>7. OneWindow'
  BY PairingAssumption
  DEF IInv, OneWindow, ShownIsPending, CompletedStays, ClaimantIsNotRefused, Alone, Hears, Cancel,
      KeepsSession, noSession, Types, SessionRecord, SessionIsClaimed, WindowsAreFresh,
      ConfirmedIsCompleted
<1>8. RecordIsOwn'
  BY PairingAssumption DEF IInv, RecordIsOwn, Hears, Cancel, noSession
<1> QED
  BY <1>1, <1>2, <1>3, <1>4, <1>5, <1>6, <1>7, <1>8 DEF IInv

\* A claim whose proof does not hold fails a session that waits for one.
LEMMA BadProofPreserves ==
  ASSUME IInv, NEW w \in Window, BadProof(w)
  PROVE  IInv'
<1>1. Types'
  BY CurrentSession DEF IInv, Types, BadProof, SessionRecord, SessionState
<1>2. SessionIsClaimed'
  BY CurrentSession DEF IInv, SessionIsClaimed, BadProof, Types
<1>3. WindowsAreFresh'
  BY DEF IInv, WindowsAreFresh, BadProof
<1>4. ConfirmedIsCompleted'
  BY CurrentSession DEF IInv, ConfirmedIsCompleted, BadProof, Types
<1>5. TokenIsSingleUse'
  BY DEF IInv, TokenIsSingleUse, BadProof
<1>6. PairedWasConfirmed'
  BY DEF IInv, PairedWasConfirmed, Hears, BadProof
<1>7. OneWindow'
  BY CurrentSession
  DEF IInv, OneWindow, ShownIsPending, CompletedStays, ClaimantIsNotRefused, Alone, Hears, BadProof,
      Types
<1>8. RecordIsOwn'
  BY CurrentSession DEF IInv, RecordIsOwn, Types, Hears, BadProof
<1> QED
  BY <1>1, <1>2, <1>3, <1>4, <1>5, <1>6, <1>7, <1>8 DEF IInv

\* A token's lifetime is over.
LEMMA TokenElapsesPreserves ==
  ASSUME IInv, NEW w \in Window, TokenElapses(w)
  PROVE  IInv'
<1>1. Types'
  BY DEF IInv, Types, TokenElapses
<1>2. SessionIsClaimed'
  BY DEF IInv, SessionIsClaimed, TokenElapses
<1>3. WindowsAreFresh'
  BY DEF IInv, WindowsAreFresh, TokenElapses
<1>4. ConfirmedIsCompleted'
  BY DEF IInv, ConfirmedIsCompleted, TokenElapses
<1>5. TokenIsSingleUse'
  BY DEF IInv, TokenIsSingleUse, TokenElapses
<1>6. PairedWasConfirmed'
  BY DEF IInv, PairedWasConfirmed, Hears, TokenElapses
<1>7. OneWindow'
  BY DEF IInv, OneWindow, ShownIsPending, CompletedStays, ClaimantIsNotRefused, Alone, Hears,
         TokenElapses
<1>8. RecordIsOwn'
  BY DEF IInv, RecordIsOwn, Hears, TokenElapses
<1> QED
  BY <1>1, <1>2, <1>3, <1>4, <1>5, <1>6, <1>7, <1>8 DEF IInv

\* The record of one phone changes, and its token stays.
LEMMA PhoneMoves ==
  ASSUME Types, NEW p \in Phone, NEW r \in PairRecord, r.token = phone[p].token,
         phone' = [phone EXCEPT ![p] = r]
  PROVE  /\ phone' \in [Phone -> PairRecord] /\ phone'[p] = r
         /\ \A q \in Phone : /\ phone'[q].token = phone[q].token
                             /\ q # p => phone'[q] = phone[q]
  BY DEF Types

\* A phone that is told nothing new of a pairing or of a refusal, while the bridge stays as
\* it is, keeps the invariant.
LEMMA HearingNothingPreserves ==
  ASSUME IInv, UNCHANGED <<session, dshReachable, window, registry, confirmed>>,
         phone' \in [Phone -> PairRecord],
         \A q \in Phone : phone'[q].token = phone[q].token,
         \A q \in Phone, x \in {"paired", "pairing-invalid"} : Hears(q, x)' => Hears(q, x)
  PROVE  IInv'
<1>1. Types'
  BY DEF IInv, Types
<1>2. SessionIsClaimed'
  BY DEF IInv, SessionIsClaimed
<1>3. WindowsAreFresh'
  BY DEF IInv, WindowsAreFresh
<1>4. ConfirmedIsCompleted'
  BY DEF IInv, ConfirmedIsCompleted
<1>5. TokenIsSingleUse'
  BY DEF IInv, TokenIsSingleUse
<1>6. PairedWasConfirmed'
  BY DEF IInv, PairedWasConfirmed
<1>7. OneWindow'
  <2>1. /\ \A c \in confirmed : c.phone \in Phone
        /\ session.state = "awaiting-confirmation" => session.pending \in Phone
    BY PairingAssumption DEF IInv, Types, SessionRecord, SessionIsClaimed
  <2> QED
    BY <2>1 DEF IInv, OneWindow, ShownIsPending, CompletedStays, ClaimantIsNotRefused, Alone
<1>8. RecordIsOwn'
  BY DEF IInv, RecordIsOwn
<1> QED
  BY <1>1, <1>2, <1>3, <1>4, <1>5, <1>6, <1>7, <1>8 DEF IInv

\* A phone stops posting, with or without an answer on its way.
LEMMA GiveUpPreserves ==
  ASSUME IInv, NEW p \in Phone, GiveUp(p)
  PROVE  IInv'
<1>1. PICK x \in {"timeout", "cancelled", "unreachable"} :
         phone' = [phone EXCEPT ![p] = [phone[p] EXCEPT !.state = x, !.answer = phone[p].answer]]
  <2>1. PICK x \in {"timeout", "cancelled", "unreachable"} : phone' = [phone EXCEPT ![p].state = x]
    BY DEF GiveUp
  <2>2. [phone[p] EXCEPT !.state = x] = [phone[p] EXCEPT !.state = x, !.answer = phone[p].answer]
    BY DEF IInv, Types, PairRecord
  <2> QED
    BY <2>1, <2>2
<1> DEFINE r == [phone[p] EXCEPT !.state = x, !.answer = phone[p].answer]
<1>2. /\ phone' = [phone EXCEPT ![p] = r] /\ r \in PairRecord /\ Types
      /\ r.token = phone[p].token /\ r.state = x /\ r.answer = phone[p].answer
  BY <1>1 DEF IInv, Types, PairRecord, PhoneState, Outcome
<1> HIDE DEF r
<1>3. /\ phone' \in [Phone -> PairRecord]
      /\ \A q \in Phone : phone'[q].token = phone[q].token /\ (q # p => phone'[q] = phone[q])
      /\ phone'[p].state = x /\ phone'[p].answer = phone[p].answer
  BY <1>1, <1>2, PhoneMoves
<1> QED
  BY <1>3, HearingNothingPreserves DEF GiveUp, Hears

\* The answer arrives: what was on its way is believed.
LEMMA ArrivalPreserves ==
  ASSUME IInv, NEW p \in Phone, AnswerArrives(p)
  PROVE  IInv'
<1> DEFINE reply == phone[p].answer
           x == IF reply = "awaiting-confirmation" THEN "posting" ELSE reply
<1>1. phone' = [phone EXCEPT ![p] = [phone[p] EXCEPT !.state = x, !.answer = None]]
  BY DEF AnswerArrives, Learns
<1>2. x \in PhoneState /\ None \in AnswerValue /\ Types
  BY DEF AnswerArrives, IInv, Types, PairRecord, PhoneState, AnswerValue
<1>3. x \in {"paired", "pairing-invalid"} => phone[p].answer = x
  OBVIOUS
<1>4. None \notin {"paired", "pairing-invalid"}
  BY PairingAssumption DEF Outcome
<1> DEFINE r == [phone[p] EXCEPT !.state = x, !.answer = None]
<1> HIDE DEF x
<1>6. /\ phone' = [phone EXCEPT ![p] = r] /\ r \in PairRecord
      /\ r.token = phone[p].token /\ r.state = x /\ r.answer = None
  BY <1>1, <1>2 DEF IInv, Types, PairRecord
<1> HIDE DEF r
<1>5. /\ phone' \in [Phone -> PairRecord]
      /\ \A q \in Phone : phone'[q].token = phone[q].token /\ (q # p => phone'[q] = phone[q])
      /\ phone'[p].state = x /\ phone'[p].answer = None
  BY <1>2, <1>6, PhoneMoves
<1> QED
  BY <1>3, <1>4, <1>5, HearingNothingPreserves DEF AnswerArrives, Hears

\* A device is revoked.
LEMMA RevokePreserves ==
  ASSUME IInv, NEW p \in Phone, Revoke(p)
  PROVE  IInv'
<1>1. Types'
  BY DEF IInv, Types, DeviceRecord, Revoke
<1>2. SessionIsClaimed'
  BY DEF IInv, SessionIsClaimed, Revoke
<1>3. WindowsAreFresh'
  BY DEF IInv, WindowsAreFresh, Revoke
<1>4. ConfirmedIsCompleted'
  BY DEF IInv, ConfirmedIsCompleted, Revoke
<1>5. TokenIsSingleUse'
  BY DEF IInv, TokenIsSingleUse, Revoke
<1>6. PairedWasConfirmed'
  BY DEF IInv, PairedWasConfirmed, Hears, Revoke
<1>7. OneWindow'
  BY DEF IInv, OneWindow, ShownIsPending, CompletedStays, ClaimantIsNotRefused, Alone, Hears,
         Revoke
<1>8. RecordIsOwn'
  BY DEF IInv, Types, DeviceRecord, RecordIsOwn, Hears, Revoke
<1> QED
  BY <1>1, <1>2, <1>3, <1>4, <1>5, <1>6, <1>7, <1>8 DEF IInv

\* A claim is posted, first or again, and answered from the session.
LEMMA PostPreserves ==
  ASSUME IInv, NEW p \in Phone, Post(p)
  PROVE  IInv'
<1> DEFINE reply == Answer(p, phone[p].token).reply
<1>p. /\ phone[p].state = "posting" /\ phone[p].answer = None
      /\ phone' = [phone EXCEPT ![p].answer = reply]
      /\ session' = Answer(p, phone[p].token).session
      /\ UNCHANGED <<dshReachable, window, registry, confirmed>>
  BY DEF Post
<1>r. /\ reply \in AnswerValue
      /\ reply = "paired" => /\ session.pending = p /\ session.token = phone[p].token
                             /\ session.state = "completed"
      /\ reply = "pairing-invalid" => /\ ~ OwnClaim(p, phone[p].token)
                                      /\ session'.state = "awaiting-claim" =>
                                           session.token # phone[p].token
  BY <1>p, CurrentSession
  DEF Answer, Decision, Claim, OwnClaim, Outcome, AnswerValue, IInv, Types, SessionRecord
<1>s. /\ session' \in SessionRecord
      /\ session'.token = session.token
      /\ \/ session' = session
         \/ session' = Current
         \/ /\ session.state = "awaiting-claim" /\ session'.state = "failed"
            /\ session'.pending = None
         \/ /\ session.state = "awaiting-claim" /\ session'.state = "awaiting-confirmation"
            /\ session'.pending = p /\ session.token = phone[p].token
            /\ reply = "awaiting-confirmation"
  <2>1. /\ Current \in SessionRecord /\ session \in SessionRecord
        /\ session.state = "awaiting-claim" => session.pending = None
    BY CurrentSession DEF IInv, Types, SessionIsClaimed
  <2>2. /\ [Current EXCEPT !.state = "failed"] \in SessionRecord
        /\ [Current EXCEPT !.state = "awaiting-confirmation", !.pending = p] \in SessionRecord
    BY <2>1 DEF SessionRecord, SessionState
  <2> QED
    BY <1>p, <2>1, <2>2, CurrentSession
    DEF Answer, Claim, Decision, IInv, Types, SessionRecord
<1>h. /\ phone' \in [Phone -> PairRecord]
      /\ \A q \in Phone : phone'[q].token = phone[q].token /\ (q # p => phone'[q] = phone[q])
      /\ phone'[p].state = "posting" /\ phone'[p].answer = reply
  <2>1. "posting" \in PhoneState /\ Types /\ phone[p] \in PairRecord
    BY DEF PhoneState, IInv, Types
  <2> HIDE DEF reply
  <2> DEFINE r == [phone[p] EXCEPT !.answer = reply]
  <2>2. /\ phone' = [phone EXCEPT ![p] = r] /\ r \in PairRecord
        /\ r.token = phone[p].token /\ r.state = "posting" /\ r.answer = reply
    BY <1>p, <1>r, <2>1 DEF PairRecord
  <2> HIDE DEF r
  <2> QED
    BY <2>1, <2>2, PhoneMoves
<1>n. /\ \A q \in Phone, x \in {"paired", "pairing-invalid"} :
           Hears(q, x)' => Hears(q, x) \/ (q = p /\ x = reply)
      /\ phone[p].token \in Window \cup {None}
  <2> HIDE DEF reply
  <2> QED
    BY <1>h DEF Hears, IInv, Types, PairRecord
<1> HIDE DEF reply
<1>1. Types'
  BY <1>p, <1>s, <1>h DEF IInv, Types
<1>2. SessionIsClaimed'
  BY <1>p, <1>s, CurrentSession, PairingAssumption DEF IInv, SessionIsClaimed
<1>3. WindowsAreFresh'
  BY <1>p, <1>h DEF IInv, WindowsAreFresh
<1>4. ConfirmedIsCompleted'
  BY <1>p, <1>s, CurrentSession DEF IInv, ConfirmedIsCompleted
<1>5. TokenIsSingleUse'
  BY <1>p DEF IInv, TokenIsSingleUse
<1>6. PairedWasConfirmed'
  BY <1>p, <1>r, <1>h, <1>n DEF IInv, PairedWasConfirmed, ConfirmedIsCompleted
<1>7. OneWindow'
  <2> SUFFICES ASSUME NEW w \in Window, Alone(w)'
               PROVE  (ShownIsPending(w) /\ CompletedStays(w) /\ ClaimantIsNotRefused)'
    BY DEF OneWindow
  <2>1. Alone(w) /\ ShownIsPending(w) /\ CompletedStays(w) /\ ClaimantIsNotRefused
    BY <1>p DEF IInv, OneWindow, Alone
  <2>2. ShownIsPending(w)'
    BY <1>p, <1>s, <2>1, CurrentSession DEF IInv, ShownIsPending
  <2>3. CompletedStays(w)'
    <3>1. ASSUME NEW c \in confirmed, c.at = w
          PROVE  /\ session = [token |-> c.token, state |-> "completed", pending |-> c.phone]
                 /\ session' = session /\ c.phone \in Phone
                 /\ window[w].shown = <<c.phone, c.token>>
                 /\ phone[c.phone].token = c.token => ~ Hears(c.phone, "pairing-invalid")
      <4>1. /\ session = [token |-> c.token, state |-> "completed", pending |-> c.phone]
            /\ window[w].shown = <<c.phone, c.token>> /\ c.phone \in Phone
            /\ phone[c.phone].token = c.token => ~ Hears(c.phone, "pairing-invalid")
        BY <2>1, <3>1 DEF CompletedStays, IInv, Types
      <4>2. session.state = "completed"
        BY <4>1
      <4> QED
        BY <1>s, <4>1, <4>2, CurrentSession DEF IInv
    <3>2. ASSUME NEW c \in confirmed, c.at = w, phone[c.phone].token = c.token
          PROVE  ~ Hears(c.phone, "pairing-invalid")'
      <4>1. c.phone = p => OwnClaim(p, phone[p].token)
        BY <3>1, <3>2 DEF OwnClaim
      <4> QED
        BY <1>r, <1>n, <3>1, <3>2, <4>1
    <3> QED
      BY <1>p, <1>h, <3>1, <3>2 DEF CompletedStays
  <2>4. ClaimantIsNotRefused'
    <3>1. ASSUME session'.state = "awaiting-claim", NEW q \in Phone,
                 phone[q].token = session.token
          PROVE  ~ Hears(q, "pairing-invalid")'
      <4>1. session.state = "awaiting-claim"
        BY <1>s, <3>1, CurrentSession DEF IInv
      <4> QED
        BY <1>r, <1>n, <2>1, <3>1, <4>1 DEF ClaimantIsNotRefused
    <3>2. ASSUME session'.state = "awaiting-confirmation", NEW q, q = session'.pending,
                 phone[q].token = session.token
          PROVE  q \in Phone /\ ~ Hears(q, "pairing-invalid")'
      <4>1. CASE session.state = "awaiting-claim"
        <5>1. q = p /\ session.token = phone[p].token
              /\ reply = "awaiting-confirmation"
          BY <1>s, <3>2, <4>1, CurrentSession DEF IInv
        <5> QED
          BY <1>n, <2>1, <4>1, <5>1 DEF ClaimantIsNotRefused
      <4>2. CASE session.state # "awaiting-claim"
        <5>1. session' = session /\ session.state = "awaiting-confirmation"
              /\ session.pending \in Phone
          BY <1>s, <3>2, <4>2, CurrentSession, PairingAssumption
          DEF IInv, Types, SessionRecord, SessionIsClaimed
        <5>2. q = p => OwnClaim(p, phone[p].token)
          BY <3>2, <5>1 DEF OwnClaim
        <5> QED
          BY <1>r, <1>n, <2>1, <3>2, <5>1, <5>2 DEF ClaimantIsNotRefused
      <4> QED
        BY <4>1, <4>2
    <3>3. session'.state = "awaiting-confirmation" => session'.pending \in Phone
      BY <1>1, <1>2 DEF Types, SessionRecord, SessionIsClaimed
    <3>4. \A q \in Phone : (phone[q].token = session.token)'
                          <=> phone[q].token = session.token
      BY <1>s, <1>h
    <3> QED
      BY <3>1, <3>2, <3>3, <3>4 DEF ClaimantIsNotRefused, Hears
  <2> QED
    BY <2>2, <2>3, <2>4
<1>8. RecordIsOwn'
  <2>1. session'.state = "completed" => session' = session
    BY <1>s, CurrentSession DEF IInv
  <2>2. ASSUME NEW q \in Phone, Hears(q, "paired")'
        PROVE  /\ registry[q].by = phone[q].token
               /\ session'.pending = q => session.token = phone[q].token
    <3>1. CASE Hears(q, "paired")
      <4>1. /\ registry[q].by = phone[q].token
            /\ session.pending = q => session.token = phone[q].token
        BY <3>1 DEF IInv, RecordIsOwn
      <4> QED
        BY <1>s, <4>1, CurrentSession, PairingAssumption DEF IInv
    <3>2. CASE q = p /\ reply = "paired"
      BY <1>r, <3>2 DEF IInv, RecordIsOwn
    <3> QED
      BY <1>n, <2>2, <3>1, <3>2
  <2> QED
    BY <1>p, <1>s, <1>h, <2>1, <2>2 DEF IInv, RecordIsOwn
<1> QED
  BY <1>1, <1>2, <1>3, <1>4, <1>5, <1>6, <1>7, <1>8 DEF IInv

\* A window that is refused replaces the session by none.
LEMMA RefusesRelayPreserves ==
  ASSUME IInv, NEW w \in Window, RefusesRelay(w)
  PROVE  IInv'
<1>1. Types'
  BY DEF IInv, Types, SessionRecord, SessionState, WindowRecord, WindowState, RefusesRelay,
         noSession
<1>2. SessionIsClaimed'
  BY DEF IInv, SessionIsClaimed, RefusesRelay, noSession
<1>3. WindowsAreFresh'
  BY DEF IInv, WindowsAreFresh, RefusesRelay, Types
<1>4. ConfirmedIsCompleted'
  BY PairingAssumption DEF IInv, ConfirmedIsCompleted, RefusesRelay, noSession, Types
<1>5. TokenIsSingleUse'
  BY DEF IInv, TokenIsSingleUse, RefusesRelay
<1>6. PairedWasConfirmed'
  BY DEF IInv, PairedWasConfirmed, Hears, RefusesRelay
<1>7. OneWindow'
  <2> SUFFICES ASSUME NEW v \in Window, Alone(v)'
               PROVE  (ShownIsPending(v) /\ CompletedStays(v) /\ ClaimantIsNotRefused)'
    BY DEF OneWindow
  <2>1. /\ window[w].state = "unused" /\ window'[w].state = "closed"
        /\ window'[w].shown = window[w].shown
    BY DEF RefusesRelay, IInv, Types, WindowRecord
  <2>2. v = w
    BY <2>1 DEF Alone
  <2>3. ShownIsPending(w)'
    BY <2>1 DEF IInv, WindowsAreFresh, ShownIsPending
  <2>4. CompletedStays(w)'
    BY <2>1 DEF RefusesRelay, IInv, ConfirmedIsCompleted, CompletedStays
  <2>5. ClaimantIsNotRefused'
    BY DEF RefusesRelay, noSession, ClaimantIsNotRefused
  <2> QED
    BY <2>2, <2>3, <2>4, <2>5
<1>8. RecordIsOwn'
  BY PairingAssumption
  DEF IInv, RecordIsOwn, Hears, RefusesRelay, noSession
<1> QED
  BY <1>1, <1>2, <1>3, <1>4, <1>5, <1>6, <1>7, <1>8 DEF IInv

\* A new window replaces the session by one whose token was never used.
LEMMA BeginPairPreserves ==
  ASSUME IInv, NEW w \in Window, NEW tier \in Tier, BeginPair(w, tier)
  PROVE  IInv'
<1>1. Types'
  <2>1. session' \in SessionRecord
    BY DEF BeginPair, SessionRecord, SessionState
  <2>2. /\ window \in [Window -> WindowRecord] /\ window[w] \in WindowRecord
        /\ "open" \in WindowState
    BY DEF IInv, Types, WindowState
  <2>3. window' = [window EXCEPT
                     ![w] = [[window[w] EXCEPT !.state = "open"] EXCEPT !.tier = tier]]
    BY <2>2 DEF BeginPair
  <2>4. [[window[w] EXCEPT !.state = "open"] EXCEPT !.tier = tier] \in WindowRecord
    BY <2>2, WindowFields
  <2> QED
    BY <2>1, <2>2, <2>3, <2>4 DEF BeginPair, IInv, Types
<1>2. SessionIsClaimed'
  BY PairingAssumption
  DEF IInv, SessionIsClaimed, BeginPair, Types, SessionRecord, WindowsAreFresh,
      ConfirmedIsCompleted
<1>3. WindowsAreFresh'
  BY DEF IInv, WindowsAreFresh, BeginPair, Types, PairRecord
<1>4. ConfirmedIsCompleted'
  BY DEF IInv, ConfirmedIsCompleted, BeginPair, Types
<1>5. TokenIsSingleUse'
  BY DEF IInv, TokenIsSingleUse, BeginPair
<1>6. PairedWasConfirmed'
  BY DEF IInv, PairedWasConfirmed, Hears, BeginPair
<1>7. OneWindow'
  <2> SUFFICES ASSUME NEW v \in Window, Alone(v)'
               PROVE  (ShownIsPending(v) /\ CompletedStays(v) /\ ClaimantIsNotRefused)'
    BY DEF OneWindow
  <2>1. /\ window[w].state = "unused" /\ window'[w].state = "open"
        /\ window'[w].shown = window[w].shown
    BY DEF BeginPair, IInv, Types, WindowRecord
  <2>2. v = w
    BY <2>1 DEF Alone
  <2>3. ShownIsPending(w)'
    BY <2>1 DEF IInv, WindowsAreFresh, ShownIsPending
  <2>4. CompletedStays(w)'
    BY <2>1 DEF BeginPair, IInv, ConfirmedIsCompleted, CompletedStays
  <2>5. \A p \in Phone : phone[p].token # w
    BY <2>1, PairingAssumption DEF IInv, WindowsAreFresh
  <2>6. ClaimantIsNotRefused'
    BY <2>5 DEF BeginPair, ClaimantIsNotRefused, Hears
  <2> QED
    BY <2>2, <2>3, <2>4, <2>6
<1>8. RecordIsOwn'
  BY PairingAssumption DEF IInv, RecordIsOwn, Hears, BeginPair
<1> QED
  BY <1>1, <1>2, <1>3, <1>4, <1>5, <1>6, <1>7, <1>8 DEF IInv

\* A phone scans the code of a window.
LEMMA ScanPreserves ==
  ASSUME IInv, NEW p \in Phone, NEW w \in Window, Scan(p, w)
  PROVE  IInv'
<1>0. /\ phone' \in [Phone -> PairRecord] /\ phone'[p].token = w
      /\ window[w].state = "open"
      /\ \A q \in Phone \ {p} : phone'[q] = phone[q]
      /\ \A x \in {"paired", "pairing-invalid"} : ~ Hears(p, x)'
      /\ UNCHANGED <<session, dshReachable, window, registry, confirmed>>
  <2>1. phone \in [Phone -> PairRecord] /\ None \notin {"paired", "pairing-invalid"}
    BY PairingAssumption DEF IInv, Types, Outcome
  <2> DEFINE r == [state |-> "posting", token |-> w, answer |-> None]
  <2>2. phone' = [phone EXCEPT ![p] = r] /\ r \in PairRecord
    BY DEF Scan, PairRecord, PhoneState, AnswerValue
  <2>3. r.token = w /\ r.state = "posting" /\ r.answer = None
    OBVIOUS
  <2> HIDE DEF r
  <2> QED
    BY <2>1, <2>2, <2>3 DEF Scan, Hears
<1>1. Types'
  BY <1>0 DEF IInv, Types
<1>2. SessionIsClaimed'
  BY <1>0 DEF IInv, SessionIsClaimed
<1>3. WindowsAreFresh'
  BY <1>0 DEF IInv, WindowsAreFresh
<1>4. ConfirmedIsCompleted'
  BY <1>0 DEF IInv, ConfirmedIsCompleted
<1>5. TokenIsSingleUse'
  BY <1>0 DEF IInv, TokenIsSingleUse
<1>6. PairedWasConfirmed'
  BY <1>0 DEF IInv, PairedWasConfirmed, Hears
<1>7. OneWindow'
  <2>1. /\ \A c \in confirmed : c.phone \in Phone
        /\ session.state = "awaiting-confirmation" => session.pending \in Phone
    BY DEF IInv, Types, SessionRecord, SessionIsClaimed
  <2> QED
    BY <1>0, <2>1
    DEF IInv, OneWindow, ShownIsPending, CompletedStays, ClaimantIsNotRefused, Alone, Hears
<1>8. RecordIsOwn'
  BY <1>0 DEF IInv, RecordIsOwn, Hears
<1> QED
  BY <1>1, <1>2, <1>3, <1>4, <1>5, <1>6, <1>7, <1>8 DEF IInv

\* dsh becomes reachable or unreachable.
LEMMA DshReachabilityPreserves ==
  ASSUME IInv, DshReachability
  PROVE  IInv'
<1>1. Types'
  BY DEF IInv, Types, DshReachability
<1>2. SessionIsClaimed'
  BY DEF IInv, SessionIsClaimed, DshReachability
<1>3. WindowsAreFresh'
  BY DEF IInv, WindowsAreFresh, DshReachability
<1>4. ConfirmedIsCompleted'
  BY DEF IInv, ConfirmedIsCompleted, DshReachability
<1>5. TokenIsSingleUse'
  BY DEF IInv, TokenIsSingleUse, DshReachability
<1>6. PairedWasConfirmed'
  BY DEF IInv, PairedWasConfirmed, Hears, DshReachability
<1>7. OneWindow'
  BY DEF IInv, OneWindow, ShownIsPending, CompletedStays, ClaimantIsNotRefused, Alone, Hears,
         DshReachability
<1>8. RecordIsOwn'
  BY DEF IInv, RecordIsOwn, Hears, DshReachability
<1> QED
  BY <1>1, <1>2, <1>3, <1>4, <1>5, <1>6, <1>7, <1>8 DEF IInv

\* Every step of pairing keeps the invariant.
LEMMA StepPreservesIInv ==
  ASSUME IInv, [PairingNext]_pairingVars
  PROVE  IInv'
<1>1. ASSUME NEW w \in Window, NEW tier \in Tier, BeginPair(w, tier)
      PROVE  IInv'
  BY <1>1, BeginPairPreserves
<1>2. ASSUME NEW w \in Window,
             \/ PollWindow(w) \/ Accept(w) \/ Decline(w) \/ Cancel(w)
             \/ BadProof(w) \/ TokenElapses(w) \/ RefusesRelay(w)
      PROVE  IInv'
  BY <1>2, PollWindowPreserves, AcceptPreserves, DeclinePreserves, CancelPreserves,
     BadProofPreserves, TokenElapsesPreserves, RefusesRelayPreserves
<1>3. ASSUME NEW p \in Phone, NEW w \in Window, Scan(p, w)
      PROVE  IInv'
  BY <1>3, ScanPreserves
<1>4. ASSUME NEW p \in Phone, Post(p) \/ AnswerArrives(p) \/ GiveUp(p) \/ Revoke(p)
      PROVE  IInv'
  BY <1>4, PostPreserves, ArrivalPreserves, GiveUpPreserves, RevokePreserves
<1>5. CASE DshReachability
  BY <1>5, DshReachabilityPreserves
<1>6. CASE UNCHANGED pairingVars
  BY <1>6
  DEF pairingVars, IInv, Types, SessionIsClaimed, WindowsAreFresh, ConfirmedIsCompleted,
      TokenIsSingleUse, PairedWasConfirmed, OneWindow, ShownIsPending, CompletedStays,
      ClaimantIsNotRefused, Alone, RecordIsOwn, Hears
<1> QED
  BY <1>1, <1>2, <1>3, <1>4, <1>5, <1>6 DEF PairingNext

\* The inductive invariant of pairing holds in every behaviour.
LEMMA IInvHolds == PairingSpec => []IInv
<1>1. PairingInit => IInv
  BY InitEstablishesIInv
<1>2. IInv /\ [PairingNext]_pairingVars => IInv'
  BY StepPreservesIInv
<1> QED
  BY <1>1, <1>2, PTL DEF PairingSpec

-----------------------------------------------------------------------------
\* The single session of the bridge is sound, however many windows and phones race for
\* it: a token pairs one phone at most, and none believes that it is paired unless the
\* operator confirmed it for the token it scanned.
THEOREM SessionPairsOnce == PairingSpec => []PairingIsSound
<1>1. IInv => PairingTypeOK
  BY PairingAssumption
  DEF IInv, Types, SessionRecord, WindowRecord, SessionState, WindowState, SessionIsClaimed,
      PairingTypeOK, DeviceRecord, PairRecord, PhoneState, AnswerValue
<1>2. IInv => PairingIsSound
  BY <1>1 DEF IInv, PairingIsSound
<1> QED
  BY <1>2, IInvHolds, PTL

\* As long as one window is used, the device that is registered is the one whose code its
\* screen has shown, whoever claims, polls, expires and is revoked in between.
THEOREM ShownIsRegistered == PairingSpec => []ConfirmsWhatWasShown
<1>1. IInv => ConfirmsWhatWasShown
  BY DEF IInv, Types, OneWindow, CompletedStays, ConfirmsWhatWasShown
<1> QED
  BY <1>1, IInvHolds, PTL

\* A phone that posts again after the operator confirmed it, its terminal gone or not, is
\* not told that its token is invalid.
THEOREM CompletionSurvives == PairingSpec => []CompletedIsLearned
<1>1. IInv => CompletedIsLearned
  BY DEF IInv, Types, OneWindow, CompletedStays, CompletedIsLearned
<1> QED
  BY <1>1, IInvHolds, PTL

\* Whatever lies between the bridge's answer and the phone's receipt of it, revocations and
\* other pairings of the same phone included: the pairing a phone believes in, or is being
\* told of, is the one on record for its device.
THEOREM BeliefIsOnRecord == PairingSpec => []BelievesWhatIsOnRecord
<1>1. IInv => BelievesWhatIsOnRecord
  BY DEF IInv, RecordIsOwn, BelievesWhatIsOnRecord
<1> QED
  BY <1>1, IInvHolds, PTL

-----------------------------------------------------------------------------
\* Panel.

\* The panel and the windows: what the controller knows of every window it opened.
SnapshotRecord == [phase : {"idle", "open", "claimed", "done", "failed"},
                   of : Window \cup {None}, rev : Nat]
PanelRecord == [handle : Window \cup {None}, snapshot : SnapshotRecord, opened : SUBSET Window]

PanelInv ==
  /\ session \in SessionRecord
  /\ window \in [Window -> WindowRecord]
  /\ panel \in PanelRecord
  /\ panel.handle # None => panel.handle \in panel.opened
  /\ \A w \in Window : window[w].state = "unused" =>
       w \notin panel.opened /\ window[w].shown = <<None, None>>
  /\ OneOpenWindow

\* Sessions stay sessions when they expire, and when a phone claims them.
LEMMA SessionStays ==
  ASSUME session \in SessionRecord
  PROVE  /\ Current \in SessionRecord
         /\ \A p \in Phone, w \in Window : Claim(p, w).session \in SessionRecord
<1>1. Current \in SessionRecord
  BY DEF Current, SessionRecord, SessionState
<1>2. ASSUME NEW p \in Phone
      PROVE  /\ [Current EXCEPT !.state = "failed"] \in SessionRecord
             /\ [Current EXCEPT !.state = "awaiting-confirmation", !.pending = p]
                   \in SessionRecord
  BY <1>1 DEF SessionRecord, SessionState
<1> QED
  BY <1>1, <1>2 DEF Claim

\* What accepting, declining, cancelling and polling do to a window, and to no other.
LEMMA WindowEnds ==
  ASSUME session \in SessionRecord, window \in [Window -> WindowRecord], NEW w \in Window,
         Accept(w) \/ Decline(w) \/ Cancel(w)
  PROVE  /\ window' \in [Window -> WindowRecord] /\ session' \in SessionRecord
         /\ \A v \in Window \ {w} : window'[v] = window[v]
         /\ window[w].state \in {"open", "finished"}
         /\ window'[w].state \in {"finished", "closed"}
<1> DEFINE f == Finished(w)
<1>1. /\ window[w] \in WindowRecord /\ "finished" \in WindowState /\ "closed" \in WindowState
  BY DEF WindowState
<1>2. /\ f \in WindowRecord /\ f.state = "finished"
      /\ [f EXCEPT !.paired = TRUE] \in WindowRecord
      /\ [f EXCEPT !.paired = TRUE].state = "finished"
      /\ [f EXCEPT !.declined = TRUE] \in WindowRecord
      /\ [f EXCEPT !.declined = TRUE].state = "finished"
  BY <1>1 DEF Finished, WindowRecord
<1>3. [window[w] EXCEPT !.state = "closed"] \in WindowRecord
  BY <1>1, WindowFields
<1>4. session' \in SessionRecord
  BY SessionStays, PairingAssumption
  DEF Accept, Decline, Cancel, Confirmable, SessionRecord, SessionState, noSession
<1>5. PICK r \in WindowRecord : /\ window' = [window EXCEPT ![w] = r]
                                /\ r.state \in {"finished", "closed"}
  <2>1. CASE Accept(w)
    <3>1. \/ window' = [window EXCEPT ![w] = f]
          \/ window' = [window EXCEPT ![w] = [f EXCEPT !.paired = TRUE]]
      BY <2>1 DEF Accept
    <3> HIDE DEF f
    <3> QED
      BY <3>1, <1>2
  <2>2. CASE Decline(w)
    <3>1. window' = [window EXCEPT ![w] = [f EXCEPT !.declined = TRUE]]
      BY <2>2 DEF Decline
    <3> HIDE DEF f
    <3> QED
      BY <3>1, <1>2
  <2>3. CASE Cancel(w)
    <3>1. window' = [window EXCEPT ![w] = [window[w] EXCEPT !.state = "closed"]]
      BY <2>3 DEF Cancel
    <3>2. [window[w] EXCEPT !.state = "closed"].state = "closed"
      BY <1>1 DEF WindowRecord
    <3> QED
      BY <3>1, <3>2, <1>3
  <2> QED
    BY <2>1, <2>2, <2>3
<1>6. window[w].state \in {"open", "finished"}
  BY DEF Accept, Decline, Cancel, Deciding
<1> QED
  BY <1>4, <1>5, <1>6

\* What the poll timer does to a window and to nothing else.
LEMMA WindowPolled ==
  ASSUME session \in SessionRecord, window \in [Window -> WindowRecord], NEW w \in Window,
         PollWindow(w)
  PROVE  /\ window' \in [Window -> WindowRecord] /\ session' \in SessionRecord
         /\ \A v \in Window \ {w} : window'[v] = window[v]
         /\ window[w].state = "open"
         /\ \/ window'[w].state = "finished"
            \/ window'[w].state = "open" /\ window'[w].shown # <<None, None>>
<1>1. window[w] \in WindowRecord /\ "finished" \in WindowState
  BY DEF WindowState
<1>2. Current \in SessionRecord /\ session' = Current
  BY SessionStays DEF PollWindow
<1>3. CASE window' = [window EXCEPT ![w] = Finished(w)]
  <2>1. Finished(w) \in WindowRecord /\ Finished(w).state = "finished"
    BY <1>1, WindowFields DEF Finished, WindowRecord
  <2> QED
    BY <1>2, <1>3, <2>1 DEF PollWindow
<1>4. CASE /\ Current.pending # None
           /\ window' = [window EXCEPT ![w].shown = <<Current.pending, Current.token>>]
  <2> DEFINE code == <<Current.pending, Current.token>>
             r    == [window[w] EXCEPT !.shown = code]
  <2>1. code \in ShownPair /\ code # <<None, None>>
    BY <1>2, <1>4 DEF SessionRecord, ShownPair
  <2>2. r \in WindowRecord /\ r.state = window[w].state /\ r.shown = code
    <3> HIDE DEF code
    <3> QED
      BY <1>1, <2>1, WindowFields DEF WindowRecord
  <2>3. window' = [window EXCEPT ![w] = r]
    BY <1>4
  <2>4. window[w].state = "open"
    BY DEF PollWindow
  <2> HIDE DEF r, code
  <2> QED
    BY <1>2, <2>1, <2>2, <2>3, <2>4
<1> QED
  BY <1>3, <1>4 DEF PollWindow

\* A step that the panel has no part in leaves the windows it opened alone.
LEMMA OthersKeepPanel ==
  ASSUME PanelInv, panel' = panel, session' \in SessionRecord,
         window' \in [Window -> WindowRecord],
         \A v \in panel.opened : window'[v] = window[v],
         \A v \in Window : window'[v].state = "unused" => window'[v] = window[v]
  PROVE  PanelInv'
<1>1. panel.opened \subseteq Window
  BY DEF PanelInv, PanelRecord
<1>2. OneOpenWindow'
  BY <1>1 DEF PanelInv, OneOpenWindow, Active, Claimed, Deciding
<1> QED
  BY <1>1, <1>2 DEF PanelInv

\* A snapshot of the panel with its next number.
LEMMA NextShot ==
  ASSUME panel \in PanelRecord, NEW phase \in {"idle", "open", "claimed", "done", "failed"},
         NEW of \in Window \cup {None}
  PROVE  /\ Shot(phase, of, panel.snapshot.rev + 1) \in SnapshotRecord
         /\ Shot(phase, of, panel.snapshot.rev + 1).phase = phase
         /\ Shot(phase, of, panel.snapshot.rev + 1).of = of
<1>1. panel.snapshot.rev + 1 \in Nat
  BY DEF PanelRecord, SnapshotRecord
<1> DEFINE rev == panel.snapshot.rev + 1
<1> HIDE DEF rev
<1> QED
  BY <1>1 DEF Shot, SnapshotRecord, rev

\* The window of the panel is over, and its handle is given back.
LEMMA HandleEnds ==
  ASSUME PanelInv, panel.handle # None, session' \in SessionRecord,
         window' \in [Window -> WindowRecord],
         \A v \in Window \ {panel.handle} : window'[v] = window[v],
         window'[panel.handle].state \in {"finished", "closed"},
         NEW phase \in {"idle", "done", "failed"}, NEW of \in Window \cup {None},
         panel' = [panel EXCEPT !.handle = None, !.snapshot = Shot(phase, of, @.rev + 1)]
  PROVE  PanelInv'
<1>1. /\ panel' \in PanelRecord /\ panel'.handle = None /\ panel'.opened = panel.opened
      /\ panel'.snapshot.phase = phase
  <2> DEFINE shot == Shot(phase, of, panel.snapshot.rev + 1)
  <2>1. shot \in SnapshotRecord /\ shot.phase = phase
    BY NextShot DEF PanelInv
  <2>2. panel' = [panel EXCEPT !.handle = None, !.snapshot = shot]
    OBVIOUS
  <2> HIDE DEF shot
  <2> QED
    BY <2>1, <2>2 DEF PanelInv, PanelRecord
<1>2. panel.opened \subseteq Window /\ panel.handle \in panel.opened /\ None \notin Window
  BY PairingAssumption DEF PanelInv, PanelRecord
<1>3. OneOpenWindow'
  BY <1>1, <1>2 DEF PanelInv, OneOpenWindow, Active
<1> QED
  BY <1>1, <1>2, <1>3 DEF PanelInv

\* A panel that has opened no window.
LEMMA PanelInitEstablishes == PanelInit => PanelInv
  BY PairingAssumption
  DEF PanelInit, PairingInit, PanelInv, PanelRecord, SnapshotRecord, Shot, SessionRecord,
      SessionState, WindowRecord, WindowState, ShownPair, noSession, unopened, OneOpenWindow,
      Active

\* The timer of a window reports to the panel, if the panel opened it.
LEMMA PollsKeepsPanel ==
  ASSUME PanelInv, NEW w \in Window, Polls(w)
  PROVE  PanelInv'
<1>1. /\ window' \in [Window -> WindowRecord] /\ session' \in SessionRecord
      /\ \A v \in Window \ {w} : window'[v] = window[v]
      /\ window[w].state = "open"
      /\ \/ window'[w].state = "finished"
         \/ window'[w].state = "open" /\ window'[w].shown # <<None, None>>
  BY WindowPolled DEF PanelInv, Polls
<1>2. CASE w \notin panel.opened
  <2>1. panel' = panel
    BY <1>2 DEF Polls, Ingest
  <2>2. \A v \in panel.opened : v \in Window \ {w}
    BY <1>2 DEF PanelInv, PanelRecord
  <2> QED
    BY <1>1, <2>1, <2>2, OthersKeepPanel
<1>3. CASE w \in panel.opened /\ window'[w].state = "finished"
  <2>1. panel.handle = w /\ w # None
    BY <1>1, <1>3, PairingAssumption DEF PanelInv, OneOpenWindow
  <2>2. panel' = [panel EXCEPT !.handle = None, !.snapshot = Shot("failed", w, @.rev + 1)]
    BY <1>3 DEF Polls, Ingest, PanelInv, PanelRecord
  <2> QED
    BY <1>1, <1>3, <2>1, <2>2, HandleEnds
<1>4. CASE w \in panel.opened /\ window'[w].state # "finished"
  <2>1. panel.handle = w /\ w # None
    BY <1>1, <1>4, PairingAssumption DEF PanelInv, OneOpenWindow
  <2>2. panel' = [panel EXCEPT !.snapshot = Shot("claimed", w, @.rev + 1)]
    BY <1>4 DEF Polls, Ingest, PanelInv, PanelRecord
  <2>3. /\ panel' \in PanelRecord /\ panel'.handle = w /\ panel'.opened = panel.opened
        /\ panel'.snapshot.phase = "claimed" /\ panel'.snapshot.of = w
    BY <2>1, <2>2 DEF PanelInv, PanelRecord, SnapshotRecord, Shot
  <2>4. panel.opened \subseteq Window
    BY DEF PanelInv, PanelRecord
  <2>5. OneOpenWindow'
    BY <1>1, <1>4, <2>1, <2>3, <2>4 DEF PanelInv, OneOpenWindow, Active, Claimed, Deciding
  <2> QED
    BY <1>1, <1>4, <2>1, <2>3, <2>5 DEF PanelInv
<1> QED
  BY <1>2, <1>3, <1>4

\* A new window takes the place of the one before, open, or closed by a refusal.
LEMMA ReplacingKeepsPanel ==
  ASSUME PanelInv, NEW w \in Window, session' \in SessionRecord,
         NEW record \in WindowRecord, record.shown = window[w].shown,
         NEW phase \in {"open", "failed"}, NEW n \in Nat,
         record.state = IF phase = "open" THEN "open" ELSE "closed",
         Replaces(w, record, Shot(phase, w, n))
  PROVE  PanelInv'
<1>1. /\ window[w].state = "unused" /\ w \notin panel.opened
      /\ record.shown = <<None, None>>
  BY DEF Replaces, PanelInv
<1>2. /\ panel' \in PanelRecord /\ panel'.handle = w /\ panel'.opened = panel.opened \cup {w}
      /\ panel'.snapshot.phase = phase /\ panel'.snapshot.of = w
  <2> DEFINE shot == Shot(phase, w, n)
  <2>1. shot \in SnapshotRecord /\ shot.phase = phase /\ shot.of = w
    BY DEF Shot, SnapshotRecord
  <2>2. panel' = [handle |-> w, snapshot |-> shot, opened |-> panel.opened \cup {w}]
    BY DEF Replaces
  <2> HIDE DEF shot
  <2> QED
    BY <2>1, <2>2 DEF PanelInv, PanelRecord
<1>3. \A v \in Window : /\ window[v] \in WindowRecord
                        /\ [window[v] EXCEPT !.state = "closed"] \in WindowRecord
                        /\ [window[v] EXCEPT !.state = "closed"].state = "closed"
  BY DEF PanelInv, WindowRecord, WindowState
<1>4. /\ window' \in [Window -> WindowRecord] /\ window'[w] = record
      /\ \A v \in Window \ {w} : window'[v] = IF v = panel.handle
                                             THEN [window[v] EXCEPT !.state = "closed"]
                                             ELSE window[v]
  BY <1>1, <1>3 DEF Replaces
<1>5. \A v \in panel.opened : v \in Window \ {w} /\ window'[v].state # "open"
  <2> SUFFICES ASSUME NEW v \in panel.opened
               PROVE  v \in Window \ {w} /\ window'[v].state # "open"
    OBVIOUS
  <2>1. v \in Window \ {w}
    BY <1>1 DEF PanelInv, PanelRecord
  <2>2. v = panel.handle \/ window[v].state # "open"
    BY DEF PanelInv, OneOpenWindow
  <2> QED
    BY <1>3, <1>4, <2>1, <2>2
<1>6. OneOpenWindow'
  <2>1. \A v \in panel'.opened : window'[v].state = "open" <=> v = w /\ phase = "open"
    BY <1>2, <1>4, <1>5
  <2>2. w # None
    BY PairingAssumption
  <2>3. ~ Deciding(w)' /\ ~ Claimed'
    BY <1>1, <1>2, <1>4 DEF Deciding, Claimed
  <2> QED
    BY <1>2, <2>1, <2>2, <2>3 DEF OneOpenWindow, Active
<1>7. \A v \in Window : window'[v].state = "unused" =>
        v \notin panel'.opened /\ window'[v].shown = <<None, None>>
  <2> SUFFICES ASSUME NEW v \in Window, window'[v].state = "unused"
               PROVE  v \notin panel'.opened /\ window'[v].shown = <<None, None>>
    OBVIOUS
  <2>1. v # w /\ window'[v] = window[v]
    BY <1>3, <1>4
  <2> QED
    BY <1>2, <2>1 DEF PanelInv
<1> QED
  BY <1>2, <1>4, <1>6, <1>7 DEF PanelInv

\* start, when it opens a window.
LEMMA StartKeepsPanel ==
  ASSUME PanelInv, NEW w \in Window, NEW tier \in Tier, StartPairing(w, tier)
  PROVE  PanelInv'
<1> DEFINE r == [window[w] EXCEPT !.state = "open", !.tier = tier]
           n == panel.snapshot.rev + 1
<1>1. r \in WindowRecord /\ r.state = "open" /\ r.shown = window[w].shown
  BY DEF PanelInv, WindowRecord, WindowState
<1>2. n \in Nat
  BY DEF PanelInv, PanelRecord, SnapshotRecord
<1>3. session' \in SessionRecord
  BY DEF StartPairing, SessionRecord, SessionState
<1>4. Replaces(w, r, Shot("open", w, n))
  BY DEF StartPairing
<1> HIDE DEF r, n
<1> QED
  BY <1>1, <1>2, <1>3, <1>4, ReplacingKeepsPanel

\* start, when the bridge has no relay to open the window on.
LEMMA RefusalKeepsPanel ==
  ASSUME PanelInv, NEW w \in Window, StartIsRefused(w)
  PROVE  PanelInv'
<1> DEFINE r == [window[w] EXCEPT !.state = "closed"]
           n == panel.snapshot.rev + 2
<1>1. r \in WindowRecord /\ r.state = "closed" /\ r.shown = window[w].shown
  BY DEF PanelInv, WindowRecord, WindowState
<1>2. n \in Nat
  BY DEF PanelInv, PanelRecord, SnapshotRecord
<1>3. session' \in SessionRecord
  BY DEF StartIsRefused, SessionRecord, SessionState, noSession
<1>4. Replaces(w, r, Shot("failed", w, n))
  BY DEF StartIsRefused
<1> HIDE DEF r, n
<1> QED
  BY <1>1, <1>2, <1>3, <1>4, ReplacingKeepsPanel

\* What a terminal does to its window.
LEMMA TerminalKeepsPanel ==
  ASSUME PanelInv, NEW w \in Window,
         \/ \E tier \in Tier : TerminalOpens(w, tier)
         \/ TerminalIsRefused(w) \/ TerminalDecides(w) \/ TerminalLeaves(w)
  PROVE  PanelInv'
<1>1. CASE \E tier \in Tier : TerminalOpens(w, tier)
  <2>1. PICK tier \in Tier : BeginPair(w, tier) /\ panel' = panel
    BY <1>1 DEF TerminalOpens
  <2>2. session' \in SessionRecord
    BY <2>1 DEF BeginPair, SessionRecord, SessionState
  <2>3. w \notin panel.opened
    BY <2>1 DEF BeginPair, PanelInv
  <2> DEFINE r == [window[w] EXCEPT !.state = "open", !.tier = tier]
  <2>4. r \in WindowRecord /\ r.state = "open"
    BY DEF PanelInv, WindowRecord, WindowState
  <2>5. window' = [window EXCEPT ![w] = r]
    BY <2>1 DEF BeginPair, PanelInv
  <2> HIDE DEF r
  <2>6. /\ window' \in [Window -> WindowRecord] /\ window'[w].state = "open"
        /\ \A v \in Window \ {w} : window'[v] = window[v]
    BY <2>4, <2>5 DEF PanelInv
  <2>7. \A v \in panel.opened : v \in Window \ {w}
    BY <2>3 DEF PanelInv, PanelRecord
  <2> QED
    BY <2>1, <2>2, <2>6, <2>7, OthersKeepPanel
<1>2. CASE TerminalDecides(w) \/ TerminalLeaves(w)
  <2>1. /\ w \notin panel.opened /\ panel' = panel
        /\ Accept(w) \/ Decline(w) \/ Cancel(w)
    BY <1>2 DEF TerminalDecides, TerminalLeaves
  <2>2. /\ window' \in [Window -> WindowRecord] /\ session' \in SessionRecord
        /\ \A v \in Window \ {w} : window'[v] = window[v]
        /\ window'[w].state \in {"finished", "closed"}
    BY <2>1, WindowEnds DEF PanelInv
  <2>3. \A v \in panel.opened : v \in Window \ {w}
    BY <2>1 DEF PanelInv, PanelRecord
  <2> QED
    BY <2>1, <2>2, <2>3, OthersKeepPanel
<1>3. CASE TerminalIsRefused(w)
  <2>1. RefusesRelay(w) /\ panel' = panel
    BY <1>3 DEF TerminalIsRefused
  <2>2. session' \in SessionRecord
    BY <2>1 DEF RefusesRelay, SessionRecord, SessionState, noSession
  <2>3. w \notin panel.opened
    BY <2>1 DEF RefusesRelay, PanelInv
  <2> DEFINE r == [window[w] EXCEPT !.state = "closed"]
  <2>4. r \in WindowRecord /\ r.state = "closed"
    BY DEF PanelInv, WindowRecord, WindowState
  <2>5. window' = [window EXCEPT ![w] = r]
    BY <2>1 DEF RefusesRelay, PanelInv
  <2> HIDE DEF r
  <2>6. /\ window' \in [Window -> WindowRecord] /\ window'[w].state = "closed"
        /\ \A v \in Window \ {w} : window'[v] = window[v]
    BY <2>4, <2>5 DEF PanelInv
  <2>7. \A v \in panel.opened : v \in Window \ {w}
    BY <2>3 DEF PanelInv, PanelRecord
  <2> QED
    BY <2>1, <2>2, <2>6, <2>7, OthersKeepPanel
<1> QED
  BY <1>1, <1>2, <1>3

\* A request of a page.
LEMMA ServesKeepsPanel ==
  ASSUME PanelInv, NEW t \in Tab, NEW r \in tab[t].requests, Serves(t, r)
  PROVE  PanelInv'
<1>1. CASE UNCHANGED <<pairingVars, panel>>
  BY <1>1, OthersKeepPanel DEF pairingVars, PanelInv
<1>2. CASE \E w \in Window : StartIsRefused(w) \/ \E tier \in Tier : StartPairing(w, tier)
  BY <1>2, StartKeepsPanel, RefusalKeepsPanel
<1>3. CASE /\ Claimed /\ \E accept \in BOOLEAN : Confirm(accept)
  <2>1. PICK accept \in BOOLEAN : Confirm(accept)
    BY <1>3
  <2> DEFINE w == panel.handle
             phase == IF window'[w].paired THEN "done" ELSE "failed"
  <2>2. w \in Window /\ w \in panel.opened /\ w # None
    BY <1>3 DEF Claimed, PanelInv, PanelRecord
  <2>3. /\ Accept(w) \/ Decline(w)
        /\ panel' = [panel EXCEPT !.handle = None, !.snapshot = Shot(phase, w, @.rev + 1)]
    BY <2>1, <2>2 DEF Confirm, Ingest, PanelInv, PanelRecord
  <2>4. phase \in {"idle", "done", "failed"}
    OBVIOUS
  <2> HIDE DEF w, phase
  <2>5. /\ window' \in [Window -> WindowRecord] /\ session' \in SessionRecord
        /\ \A v \in Window \ {w} : window'[v] = window[v]
        /\ window[w].state = "open" /\ window'[w].state \in {"finished", "closed"}
    BY <2>2, <2>3, WindowEnds DEF PanelInv, Accept, Decline, Deciding
  <2> QED
    BY <2>2, <2>3, <2>4, <2>5, HandleEnds DEF w
<1>4. CASE panel.handle # None /\ CancelPairing /\ ~ Terminal(panel.snapshot)
  <2>1. panel.handle \in Window /\ Cancel(panel.handle)
    BY <1>4 DEF CancelPairing, PanelInv, PanelRecord
  <2>2. /\ window' \in [Window -> WindowRecord] /\ session' \in SessionRecord
        /\ \A v \in Window \ {panel.handle} : window'[v] = window[v]
        /\ window'[panel.handle].state \in {"finished", "closed"}
    BY <2>1, WindowEnds DEF PanelInv
  <2>3. panel' = [panel EXCEPT !.handle = None, !.snapshot = Shot("idle", None, @.rev + 1)]
    BY <1>4 DEF CancelPairing
  <2> QED
    BY <1>4, <2>2, <2>3, HandleEnds
<1>5. CASE panel.handle # None /\ CancelPairing /\ Terminal(panel.snapshot)
  <2>1. /\ panel' = [panel EXCEPT !.handle = None] /\ UNCHANGED <<session, window>>
        /\ panel \in PanelRecord
    BY <1>5 DEF CancelPairing, pairingVars, PanelInv
  <2>2. /\ panel' \in PanelRecord /\ panel'.handle = None
        /\ panel'.snapshot = panel.snapshot /\ panel'.opened = panel.opened
    BY <2>1 DEF PanelRecord
  <2>3. ~ Active(panel.snapshot) /\ panel.opened \subseteq Window /\ None \notin Window
    BY <1>5, <2>1, PairingAssumption DEF Active, Terminal, PanelRecord
  <2>4. OneOpenWindow'
    BY <2>1, <2>2, <2>3 DEF PanelInv, OneOpenWindow, Active
  <2> QED
    BY <2>1, <2>2, <2>4 DEF PanelInv
<1> QED
  BY <1>1, <1>2, <1>3, <1>4, <1>5 DEF Serves

\* All the steps: of the controller, of its pages, of a terminal and of phones.
LEMMA PanelStepKeepsInv ==
  ASSUME PanelInv, [PanelNext]_panelVars
  PROVE  PanelInv'
<1>1. ASSUME UNCHANGED <<session, window, panel>>
      PROVE  PanelInv'
  BY <1>1, OthersKeepPanel DEF PanelInv
<1>2. ASSUME NEW w \in Window,
             \/ \E tier \in Tier : TerminalOpens(w, tier)
             \/ TerminalIsRefused(w) \/ TerminalDecides(w) \/ TerminalLeaves(w)
      PROVE  PanelInv'
  BY <1>2, TerminalKeepsPanel
<1>3. ASSUME NEW w \in Window, Polls(w)
      PROVE  PanelInv'
  BY <1>3, PollsKeepsPanel
<1>4. ASSUME NEW w \in Window, Elapses(w)
      PROVE  PanelInv'
  BY <1>1, <1>4 DEF Elapses, TokenElapses
<1>5. ASSUME NEW t \in Tab, \/ \E kind \in Button : Clicks(t, kind)
                            \/ Refreshes(t) \/ Ticks(t) \/ Resets(t)
                            \/ \E r \in tab[t].requests : Receives(t, r)
      PROVE  PanelInv'
  BY <1>1, <1>5 DEF Clicks, Refreshes, Ticks, Resets, Receives, Sends, pairingVars
<1>6. ASSUME NEW t \in Tab, NEW r \in tab[t].requests, Serves(t, r)
      PROVE  PanelInv'
  BY <1>6, ServesKeepsPanel
<1>7. ASSUME NEW p \in Phone, NEW w \in Window, PhoneClaims(p, w)
      PROVE  PanelInv'
  <2>1. session' \in SessionRecord /\ UNCHANGED <<window, panel>>
    BY <1>7, SessionStays DEF PhoneClaims, PanelInv
  <2> QED
    BY <2>1, OthersKeepPanel DEF PanelInv
<1>8. CASE UNCHANGED panelVars
  BY <1>1, <1>8 DEF panelVars, pairingVars
<1> QED
  BY <1>2, <1>3, <1>4, <1>5, <1>6, <1>7, <1>8 DEF PanelNext

\* "Starting a new pairing first cancels the previous one": whatever tabs and terminals
\* do, of all the windows that the panel opened the one it holds is open, and no other,
\* and the snapshot that pages are served tells its phase; and a window that it holds
\* after the bridge refused to open it is shown as failed, and decided by nobody.
THEOREM PanelHoldsItsWindow == PanelSpec => []OneOpenWindow
<1>1. PanelInit => PanelInv
  BY PanelInitEstablishes
<1>2. PanelInv /\ [PanelNext]_panelVars => PanelInv'
  BY PanelStepKeepsInv
<1>3. PanelInv => OneOpenWindow
  BY DEF PanelInv
<1> QED
  BY <1>1, <1>2, <1>3, PTL DEF PanelSpec

-----------------------------------------------------------------------------
\* Rendezvous.

\* What the relay, the bridge and the phones hold, beside the records of pairing.
RoutingId == Phone \X Nat
Claimant  == [id : RoutingId, state : {"greeted", "sealed", "proven", "gone"}]
Listener  == [state : {"idle", "dialing", "listening", "closed"}, linger : BOOLEAN,
              left : BOOLEAN, claimants : Seq(Claimant)]
LinkRecord   == [dials : Nat, state : {"down", "hello", "sealing", "sealed"}, waits : BOOLEAN]
Ending       == Outcome \cup {"rendezvous-busy", "internal"}
PhoneRecord  == [state : Ending \cup {"idle", "posting"}, token : Window \cup {None},
                 answer : {None}]
CallRecord   == [id : RoutingId, at : Window,
                 reply : Outcome \cup {"awaiting-confirmation", None}]
RouteMap     == [Phone -> RoutingId \cup {None}]

RendezvousTypes ==
  /\ session \in SessionRecord
  /\ window \in [Window -> WindowRecord]
  /\ registry \in [Phone -> DeviceRecord]
  /\ phone \in [Phone -> PhoneRecord]
  /\ confirmed \subseteq [phone : Phone, token : Window, at : Window]
  /\ rdv \in [Window -> Listener]
  /\ link \in [Phone -> LinkRecord]
  /\ calls \subseteq CallRecord
  /\ route \in RouteMap /\ connector \in RouteMap /\ stored \in RouteMap
  /\ \A p \in Phone : /\ phone[p].state = "posting" => phone[p].token # None
                      /\ link[p].state # "down" => link[p].dials > 0

\* Tokens are those of windows that were opened, and a completed session and the record
\* of its confirmation stand for each other.
TokensAreMinted ==
  /\ session.pending # None => session.token # None
  /\ session.token # None => window[session.token].state # "unused"
  /\ \A p \in Phone : phone[p].token # None => window[phone[p].token].state # "unused"
  /\ \A c \in calls : window[c.at].state # "unused"
  /\ \A c \in confirmed : /\ window[c.token].state # "unused"
                          /\ window[c.at].state \in {"finished", "closed"}
                          /\ c.token = session.token => session.state = "completed"
  /\ session.state = "completed" =>
       \E c \in confirmed : c.phone = session.pending /\ c.token = session.token

\* A routing id is that of a dial that was made, and is kept where its phone is meant.
IsDial(p, id) == \E n \in 1 .. link[p].dials : id = <<p, n>>
IdsAreDialled ==
  /\ \A w \in Window : \A i \in DOMAIN rdv[w].claimants :
       \E q \in Phone : IsDial(q, rdv[w].claimants[i].id)
  /\ \A c \in calls : \E q \in Phone : IsDial(q, c.id)
  /\ \A p \in Phone : /\ route[p] # None => IsDial(p, route[p])
                      /\ connector[p] # None => IsDial(p, connector[p])
                      /\ stored[p] # None => IsDial(p, stored[p])
                      /\ route[p] = None <=> connector[p] = None

\* A dial that has no channel yet has not proved its key.
ProofsFollowSeals ==
  \A p \in Phone : link[p].state \in {"hello", "sealing"} =>
    \A w \in Window : \A i \in DOMAIN rdv[w].claimants :
      rdv[w].claimants[i].id = Id(p) => rdv[w].claimants[i].state # "proven"

\* While a window is open, a claim at its rendezvous, under way or in the session, comes
\* from a claimant that proved its key and is still there.
ClaimsAreProven ==
  \A w \in Window :
    /\ rdv[w].linger => window[w].state \in {"finished", "closed"}
    /\ /\ window[w].state = "open"
       /\ (\E c \in calls : c.at = w) \/ (session.token = w /\ session.pending # None)
       => Proven(w) # {}

\* What a phone that dials once brings about belongs to the token it scanned.
OneDialOneToken ==
  /\ \A p \in Phone :
       /\ session.pending = p => link[p].dials > 0
       /\ link[p].dials = 1 =>
            /\ session.pending = p => session.token = phone[p].token
            /\ \A c \in calls : c.id[1] = p => c.at = phone[p].token
            /\ stored[p] # None =>
                 \E d \in confirmed : d.phone = p /\ d.token = phone[p].token
  /\ \A c \in calls : c.reply = "paired" =>
       \E d \in confirmed : d.phone = c.id[1] /\ d.token = c.at

RendezvousInv ==
  /\ RendezvousTypes /\ TokensAreMinted /\ IdsAreDialled /\ ProofsFollowSeals
  /\ ClaimsAreProven /\ OneDialOneToken
  /\ RouteIsOfActiveDevice /\ ConfirmedHasRoute /\ StoredIsExpected

-----------------------------------------------------------------------------
\* The record of a session is one, as it expires, is completed, declined or claimed.
LEMMA SessionMoves ==
  ASSUME session \in SessionRecord
  PROVE  /\ Current \in SessionRecord
         /\ Current.token = session.token /\ Current.pending = session.pending
         /\ Current.state = "completed" <=> session.state = "completed"
  BY DEF Current, SessionRecord, SessionState

\* A routing id names its phone, and is not None.
LEMMA DialNamesPhone ==
  ASSUME NEW p \in Phone, NEW id, RendezvousTypes, IsDial(p, id)
  PROVE  id \in RoutingId /\ id[1] = p /\ id # None /\ link[p].dials > 0
<1>1. PICK n \in 1 .. link[p].dials : id = <<p, n>>
  BY DEF IsDial
<1>2. link[p].dials \in Nat
  BY DEF RendezvousTypes, LinkRecord
<1> QED
  BY <1>1, <1>2, RendezvousAssumption DEF RoutingId

\* The steps that bring no claim, no route and no stored id: of the relay, of timers, of
\* operators who cancel or decline, and of phones whose flow ends.
QuietPairing ==
  /\ session' \in SessionRecord /\ window' \in [Window -> WindowRecord]
  /\ \/ /\ session'.token = session.token /\ session'.pending = session.pending
        /\ session'.state = "completed" <=> session.state = "completed"
     \/ session' = noSession
  /\ \A v \in Window :
       /\ window'[v].state = "unused" <=> window[v].state = "unused"
       /\ window'[v].state = "open" => window[v].state = "open"
       /\ window[v].state \in {"finished", "closed"} =>
            window'[v].state \in {"finished", "closed"}
QuietPhones ==
  /\ phone' \in [Phone -> PhoneRecord] /\ link' \in [Phone -> LinkRecord]
  /\ \A p \in Phone :
       /\ phone'[p].token = phone[p].token
       /\ phone'[p].state = "posting" => phone[p].state = "posting"
       /\ link'[p].dials = link[p].dials
       /\ link'[p].state # "down" => link[p].state # "down"
       /\ link'[p].state \in {"hello", "sealing"} => link[p].state \in {"hello", "sealing"}
QuietListener(w) ==
  /\ rdv'[w].linger => rdv[w].linger \/ window'[w].state \in {"finished", "closed"}
  /\ \A j \in DOMAIN rdv'[w].claimants :
       /\ \E q \in Phone : IsDial(q, rdv'[w].claimants[j].id)
       /\ rdv'[w].claimants[j].state = "proven" =>
            \E i \in DOMAIN rdv[w].claimants :
              /\ rdv[w].claimants[i].id = rdv'[w].claimants[j].id
              /\ rdv[w].claimants[i].state = "proven"
  /\ window'[w].state = "open" =>
       \A i \in DOMAIN rdv[w].claimants : rdv[w].claimants[i].state = "proven" =>
         i \in DOMAIN rdv'[w].claimants /\ rdv'[w].claimants[i].state = "proven"
QuietListeners ==
  rdv' \in [Window -> Listener] /\ \A w \in Window : QuietListener(w)
QuietStep ==
  /\ QuietPairing /\ QuietPhones /\ QuietListeners
  /\ calls' \subseteq calls
  /\ UNCHANGED <<registry, confirmed, route, connector, stored>>

\* Quiet steps bring no claim.
LEMMA QuietKeepsClaims ==
  ASSUME RendezvousInv, QuietPairing, QuietPhones, QuietListeners,
         calls' \subseteq calls, confirmed' = confirmed
  PROVE  TokensAreMinted' /\ ProofsFollowSeals' /\ ClaimsAreProven'
<1>1. TokensAreMinted'
  <2>1. noSession.token = None /\ noSession.pending = None /\ noSession.state = "none"
    BY DEF noSession
  <2>2. /\ session'.pending # None => session'.token # None
        /\ session'.token # None => session'.token = session.token
        /\ session'.token \in Window \cup {None} /\ session.token \in Window \cup {None}
    BY <2>1 DEF RendezvousInv, TokensAreMinted, RendezvousTypes, QuietPairing, SessionRecord
  <2>3. session'.token # None => window'[session'.token].state # "unused"
    BY <2>2 DEF RendezvousInv, TokensAreMinted, QuietPairing
  <2>4. \A p \in Phone : phone'[p].token # None => window'[phone'[p].token].state # "unused"
    <3>1. \A p \in Phone : phone'[p].token = phone[p].token
                           /\ phone[p].token \in Window \cup {None}
      BY DEF RendezvousInv, RendezvousTypes, PhoneRecord, QuietPhones
    <3> QED
      BY <3>1 DEF RendezvousInv, TokensAreMinted, QuietPairing
  <2>5. \A c \in calls' : window'[c.at].state # "unused"
    <3>1. \A c \in calls' : c \in calls /\ c.at \in Window
      BY DEF RendezvousInv, RendezvousTypes, CallRecord
    <3> QED
      BY <3>1 DEF RendezvousInv, TokensAreMinted, QuietPairing
  <2>6. \A c \in confirmed' : /\ window'[c.token].state # "unused"
                              /\ window'[c.at].state \in {"finished", "closed"}
                              /\ c.token = session'.token => session'.state = "completed"
    <3> SUFFICES ASSUME NEW c \in confirmed
                 PROVE  /\ window'[c.token].state # "unused"
                        /\ window'[c.at].state \in {"finished", "closed"}
                        /\ c.token = session'.token => session'.state = "completed"
      BY DEF QuietPairing
    <3>1. c.token \in Window /\ c.at \in Window
      BY DEF RendezvousInv, RendezvousTypes
    <3>2. c.token # None
      BY <3>1, PairingAssumption
    <3> QED
      BY <2>1, <3>1, <3>2 DEF RendezvousInv, TokensAreMinted, QuietPairing
  <2>7. session'.state = "completed" =>
          \E c \in confirmed' : c.phone = session'.pending /\ c.token = session'.token
    BY <2>1 DEF RendezvousInv, TokensAreMinted, QuietPairing
  <2> QED
    BY <2>2, <2>3, <2>4, <2>5, <2>6, <2>7 DEF TokensAreMinted
<1>2. ProofsFollowSeals'
  <2> SUFFICES ASSUME NEW p \in Phone, link'[p].state \in {"hello", "sealing"},
                      NEW w \in Window, NEW j \in DOMAIN rdv'[w].claimants,
                      rdv'[w].claimants[j].id = <<p, link'[p].dials>>,
                      rdv'[w].claimants[j].state = "proven"
               PROVE  FALSE
    BY DEF ProofsFollowSeals, Id
  <2>1. PICK i \in DOMAIN rdv[w].claimants :
               rdv[w].claimants[i].id = Id(p) /\ rdv[w].claimants[i].state = "proven"
    BY DEF QuietPhones, QuietListeners, QuietListener, Id
  <2>2. link[p].state \in {"hello", "sealing"}
    BY DEF QuietPhones
  <2> QED
    BY <2>1, <2>2 DEF RendezvousInv, ProofsFollowSeals
<1>3. ClaimsAreProven'
  <2> SUFFICES ASSUME NEW w \in Window
               PROVE  /\ rdv'[w].linger => window'[w].state \in {"finished", "closed"}
                      /\ /\ window'[w].state = "open"
                         /\ \/ \E c \in calls' : c.at = w
                            \/ session'.token = w /\ session'.pending # None
                         => Proven(w)' # {}
    BY DEF ClaimsAreProven
  <2>1. rdv'[w].linger => window'[w].state \in {"finished", "closed"}
    BY DEF RendezvousInv, ClaimsAreProven, QuietPairing, QuietListeners, QuietListener
  <2>2. ASSUME window'[w].state = "open",
               \/ \E c \in calls' : c.at = w
               \/ session'.token = w /\ session'.pending # None
        PROVE  Proven(w)' # {}
    <3>1. Proven(w) # {}
      BY <2>2 DEF RendezvousInv, ClaimsAreProven, QuietPairing, noSession
    <3> QED
      BY <2>2, <3>1 DEF Proven, QuietListeners, QuietListener
  <2> QED
    BY <2>1, <2>2
<1> QED
  BY <1>1, <1>2, <1>3

\* Quiet steps keep the invariant.
LEMMA QuietKeeps ==
  ASSUME RendezvousInv, QuietStep
  PROVE  RendezvousInv'
<1>1. RendezvousTypes'
  BY DEF RendezvousInv, RendezvousTypes, QuietStep, QuietPairing, QuietPhones, QuietListeners
<1>2. TokensAreMinted' /\ ProofsFollowSeals' /\ ClaimsAreProven'
  BY QuietKeepsClaims DEF QuietStep
<1>3. IdsAreDialled'
  BY DEF RendezvousInv, IdsAreDialled, QuietStep, QuietPhones, QuietListeners, QuietListener, IsDial
<1>4. OneDialOneToken'
  BY PairingAssumption
  DEF RendezvousInv, OneDialOneToken, QuietStep, QuietPairing, QuietPhones, noSession
<1>5. RouteIsOfActiveDevice' /\ StoredIsExpected'
  BY DEF RendezvousInv, RouteIsOfActiveDevice, StoredIsExpected, QuietStep, QuietPhones
<1>6. ConfirmedHasRoute'
  <2>1. \A c \in confirmed : Alone(c.at)' => Alone(c.at)
    BY DEF Alone, QuietStep, QuietPairing
  <2> QED
    BY <2>1 DEF RendezvousInv, ConfirmedHasRoute, QuietStep, QuietPhones
<1> QED
  BY <1>1, <1>2, <1>3, <1>4, <1>5, <1>6 DEF RendezvousInv

-----------------------------------------------------------------------------
\* What stays, or ends, is quiet.
LEMMA StillPairing ==
  ASSUME RendezvousInv, session' = session, window' = window
  PROVE  QuietPairing
  BY DEF RendezvousInv, RendezvousTypes, QuietPairing

\* Phones that do nothing are quiet.
LEMMA StillPhones ==
  ASSUME RendezvousInv, phone' = phone, link' = link
  PROVE  QuietPhones
  BY DEF RendezvousInv, RendezvousTypes, QuietPhones

\* A listener that changes its state only is quiet.
LEMMA SameClaimants ==
  ASSUME RendezvousInv, rdv' \in [Window -> Listener],
         \A w \in Window :
           /\ rdv'[w].claimants = rdv[w].claimants
           /\ rdv'[w].linger => rdv[w].linger \/ window'[w].state \in {"finished", "closed"}
  PROVE  QuietListeners
  BY DEF RendezvousInv, IdsAreDialled, QuietListeners, QuietListener

\* Listeners that do nothing are quiet.
LEMMA StillListeners ==
  ASSUME RendezvousInv, rdv' = rdv
  PROVE  QuietListeners
  BY SameClaimants DEF RendezvousInv, RendezvousTypes

\* One listener changes, quietly.
LEMMA OneListener ==
  ASSUME RendezvousInv, NEW w \in Window, NEW r \in Listener, rdv' = [rdv EXCEPT ![w] = r],
         QuietListener(w)
  PROVE  QuietListeners
<1>1. rdv \in [Window -> Listener] /\ rdv' \in [Window -> Listener]
  BY DEF RendezvousInv, RendezvousTypes
<1>2. ASSUME NEW v \in Window, v # w
      PROVE  QuietListener(v)
  <2>1. rdv'[v] = rdv[v]
    BY <1>1, <1>2
  <2> QED
    BY <2>1 DEF RendezvousInv, IdsAreDialled, QuietListener
<1> QED
  BY <1>1, <1>2 DEF QuietListeners

\* close: a listener that is closed has no claimants, and its window is over.
LEMMA ClosingIsQuiet ==
  ASSUME RendezvousInv, NEW w \in Window, rdv' = [rdv EXCEPT ![w] = Closed(@)],
         window'[w].state # "open"
  PROVE  QuietListeners
<1>1. rdv[w] \in Listener
  BY DEF RendezvousInv, RendezvousTypes
<1>2. <<>> \in Seq(Claimant) /\ DOMAIN <<>> = {}
  OBVIOUS
<1>3. /\ Closed(rdv[w]) \in Listener /\ Closed(rdv[w]).claimants = <<>>
      /\ ~ Closed(rdv[w]).linger
  BY <1>1, <1>2 DEF Closed, Listener
<1>4. rdv'[w] = Closed(rdv[w])
  BY DEF RendezvousInv, RendezvousTypes
<1>5. QuietListener(w)
  BY <1>2, <1>3, <1>4 DEF QuietListener
<1> QED
  BY <1>3, <1>5, OneListener

\* Ends: the flow of a phone is over, and its carrier down.
LEMMA EndingIsQuiet ==
  ASSUME RendezvousInv, NEW p \in Phone, Posting(p), NEW outcome \in Ending, Ends(p, outcome)
  PROVE  QuietPhones /\ QuietListeners
<1>1. phone \in [Phone -> PhoneRecord] /\ link \in [Phone -> LinkRecord]
  BY DEF RendezvousInv, RendezvousTypes
<1>2. /\ phone' \in [Phone -> PhoneRecord]
      /\ \A q \in Phone : /\ phone'[q].token = phone[q].token
                          /\ q # p => phone'[q] = phone[q]
  <2> DEFINE r == [phone[p] EXCEPT !.state = outcome, !.answer = None]
  <2>1. phone' = [phone EXCEPT ![p] = r]
    BY DEF Ends, Learns, Ending, Outcome
  <2>2. r \in PhoneRecord /\ r.token = phone[p].token
    BY <1>1 DEF PhoneRecord
  <2> HIDE DEF r
  <2> QED
    BY <1>1, <2>1, <2>2
<1>3. /\ link' \in [Phone -> LinkRecord]
      /\ \A q \in Phone : /\ link'[q].dials = link[q].dials
                          /\ link'[q].state \in {link[q].state, "down"}
  BY <1>1 DEF Ends, LinkRecord
<1>4. QuietPhones
  BY <1>2, <1>3 DEF QuietPhones, Posting
<1>5. ASSUME NEW w \in Window
      PROVE  /\ rdv'[w] \in Listener /\ rdv'[w].claimants = rdv[w].claimants
             /\ rdv'[w].linger = rdv[w].linger
  <2>1. rdv[w] \in Listener
    BY DEF RendezvousInv, RendezvousTypes
  <2>2. rdv'[w] = rdv[w] \/ rdv'[w] = [rdv[w] EXCEPT !.left = TRUE]
    BY DEF Ends
  <2> QED
    BY <2>1, <2>2 DEF Listener
<1>6. rdv' \in [Window -> Listener]
  <2>1. rdv' = [w \in Window |-> rdv'[w]]
    BY DEF Ends
  <2> QED
    BY <1>5, <2>1
<1> QED
  BY <1>4, <1>5, <1>6, SameClaimants

\* What the listener's handlers note of a claimant, they note of that claimant only.
LEMMA UpdatedFacts ==
  ASSUME NEW cs \in Seq(Claimant), NEW id, NEW x \in {"sealed", "proven"}
  PROVE  /\ Updated(cs, id, x) \in Seq(Claimant)
         /\ DOMAIN Updated(cs, id, x) = DOMAIN cs
         /\ \A i \in DOMAIN cs :
              /\ Updated(cs, id, x)[i].id = cs[i].id
              /\ cs[i].id # id => Updated(cs, id, x)[i] = cs[i]
              /\ cs[i].id = id /\ cs[i].state # "gone" => Updated(cs, id, x)[i].state = x
              /\ cs[i].state = "gone" => Updated(cs, id, x)[i] = cs[i]
<1>1. DOMAIN cs = 1 .. Len(cs) /\ Len(cs) \in Nat /\ \A i \in DOMAIN cs : cs[i] \in Claimant
  OBVIOUS
<1>2. \A i \in DOMAIN cs : /\ [cs[i] EXCEPT !.state = x] \in Claimant
                           /\ [cs[i] EXCEPT !.state = x].id = cs[i].id
                           /\ [cs[i] EXCEPT !.state = x].state = x
  BY <1>1 DEF Claimant
<1>3. /\ DOMAIN Updated(cs, id, x) = DOMAIN cs
      /\ \A i \in DOMAIN cs : Updated(cs, id, x)[i] =
           IF cs[i].id = id /\ cs[i].state # "gone" THEN [cs[i] EXCEPT !.state = x] ELSE cs[i]
  BY DEF Updated
<1>4. Updated(cs, id, x) \in [1 .. Len(cs) -> Claimant]
  BY <1>1, <1>2 DEF Updated
<1>5. Updated(cs, id, x) \in Seq(Claimant)
  BY <1>1, <1>4, SeqDef
<1> QED
  BY <1>2, <1>3, <1>5

-----------------------------------------------------------------------------
\* The quiet actions of pairing.
LEMMA SessionStaysQuiet ==
  ASSUME RendezvousInv, NEW w \in Window,
         \/ PollWindow(w) \/ Decline(w) \/ Cancel(w) \/ BadProof(w)
         \/ Accept(w) /\ ~ Confirmable
  PROVE  /\ session' \in SessionRecord
         /\ \/ /\ session'.token = session.token /\ session'.pending = session.pending
               /\ session'.state = "completed" <=> session.state = "completed"
            \/ session' = noSession
<1>1. session \in SessionRecord
  BY DEF RendezvousInv, RendezvousTypes
<1>2. CASE BadProof(w)
  <2>1. /\ Current \in SessionRecord
        /\ \/ session' = Current
           \/ /\ Current.state = "awaiting-claim"
              /\ session' = [Current EXCEPT !.state = "failed"]
    BY <1>1, <1>2, SessionMoves DEF BadProof
  <2>2. /\ [Current EXCEPT !.state = "failed"] \in SessionRecord
        /\ [Current EXCEPT !.state = "failed"].token = Current.token
        /\ [Current EXCEPT !.state = "failed"].pending = Current.pending
        /\ [Current EXCEPT !.state = "failed"].state = "failed"
    BY <2>1 DEF SessionRecord, SessionState
  <2> QED
    BY <1>1, <2>1, <2>2, SessionMoves
<1>3. CASE PollWindow(w) \/ (Accept(w) /\ ~ Confirmable)
  <2>1. session' = Current
    BY <1>3 DEF PollWindow, Accept
  <2> QED
    BY <1>1, <2>1, SessionMoves
<1>4. CASE Decline(w)
  BY <1>1, <1>4 DEF Decline, SessionRecord, SessionState
<1>5. CASE Cancel(w)
  BY <1>1, <1>5, PairingAssumption DEF Cancel, SessionRecord, SessionState, noSession
<1> QED
  BY <1>2, <1>3, <1>4, <1>5

\* A window that ends without a registration.
LEMMA WindowEndsQuietly ==
  ASSUME RendezvousInv, NEW w \in Window,
         Decline(w) \/ Cancel(w) \/ (Accept(w) /\ ~ Confirmable)
  PROVE  /\ QuietPairing /\ UNCHANGED <<phone, registry, confirmed>>
         /\ window[w].state \in {"open", "finished"}
         /\ window'[w].state \in {"finished", "closed"}
         /\ \A v \in Window \ {w} : window'[v] = window[v]
<1>1. /\ window' \in [Window -> WindowRecord]
      /\ \A v \in Window \ {w} : window'[v] = window[v]
      /\ window[w].state \in {"open", "finished"}
      /\ window'[w].state \in {"finished", "closed"}
  BY WindowEnds DEF RendezvousInv, RendezvousTypes
<1>2. UNCHANGED <<phone, registry, confirmed>>
  BY DEF Decline, Cancel, Accept
<1>3. ASSUME NEW v \in Window
      PROVE  /\ window'[v].state = "unused" <=> window[v].state = "unused"
             /\ window'[v].state = "open" => window[v].state = "open"
             /\ window[v].state \in {"finished", "closed"} =>
                  window'[v].state \in {"finished", "closed"}
  BY <1>1
<1> QED
  BY <1>1, <1>2, <1>3, SessionStaysQuiet DEF QuietPairing

\* The poll timer, as the session sees it.
LEMMA PollingIsQuiet ==
  ASSUME RendezvousInv, NEW w \in Window, PollWindow(w)
  PROVE  QuietPairing
<1>1. /\ window' \in [Window -> WindowRecord]
      /\ \A v \in Window \ {w} : window'[v] = window[v]
      /\ window[w].state = "open" /\ window'[w].state \in {"open", "finished"}
  BY WindowPolled DEF RendezvousInv, RendezvousTypes
<1>2. ASSUME NEW v \in Window
      PROVE  /\ window'[v].state = "unused" <=> window[v].state = "unused"
             /\ window'[v].state = "open" => window[v].state = "open"
             /\ window[v].state \in {"finished", "closed"} =>
                  window'[v].state \in {"finished", "closed"}
  BY <1>1
<1> QED
  BY <1>1, <1>2, SessionStaysQuiet DEF QuietPairing

\* A bad proof, as the session sees it.
LEMMA BadProofIsQuiet ==
  ASSUME RendezvousInv, NEW w \in Window, BadProof(w)
  PROVE  QuietPairing
<1>1. window' = window /\ window \in [Window -> WindowRecord]
  BY DEF BadProof, RendezvousInv, RendezvousTypes
<1> QED
  BY <1>1, SessionStaysQuiet DEF QuietPairing

\* The windows of the operator, each with what its end does to the rendezvous.
LEMMA OperatorIsQuiet ==
  ASSUME RendezvousInv, NEW w \in Window,
         \/ StartFails(w) \/ Reports(w) \/ Declines(w) \/ Cancels(w)
         \/ Accepts(w) /\ ~ Confirmable
  PROVE  QuietStep
<1>t. /\ session \in SessionRecord /\ window \in [Window -> WindowRecord]
      /\ rdv \in [Window -> Listener]
  BY DEF RendezvousInv, RendezvousTypes
<1>1. CASE StartFails(w)
  <2>1. CASE window[w].state = "open"
    <3>1. /\ window[w] \in WindowRecord /\ "finished" \in WindowState
      BY <1>t DEF WindowState
    <3>2. Finished(w) \in WindowRecord /\ Finished(w).state = "finished"
      BY <3>1, WindowFields DEF Finished, WindowRecord
    <3>3. window' = [window EXCEPT ![w] = Finished(w)] /\ session' = noSession
      BY <1>1, <2>1 DEF StartFails
    <3>4. /\ window' \in [Window -> WindowRecord] /\ window'[w].state = "finished"
          /\ \A v \in Window \ {w} : window'[v] = window[v]
      BY <1>t, <3>2, <3>3
    <3>5. session' \in SessionRecord
      BY <3>3 DEF noSession, SessionRecord, SessionState
    <3>6. ASSUME NEW v \in Window
          PROVE  /\ window'[v].state = "unused" <=> window[v].state = "unused"
                 /\ window'[v].state = "open" => window[v].state = "open"
                 /\ window[v].state \in {"finished", "closed"} =>
                      window'[v].state \in {"finished", "closed"}
      BY <2>1, <3>4
    <3>7. QuietPairing
      BY <3>3, <3>4, <3>5, <3>6 DEF QuietPairing
    <3> QED
      BY <1>1, <3>4, <3>7, StillPhones, ClosingIsQuiet DEF StartFails, QuietStep
  <2>2. CASE window[w].state # "open"
    BY <1>1, <2>2, StillPairing, StillPhones, ClosingIsQuiet DEF StartFails, QuietStep
  <2> QED
    BY <2>1, <2>2
<1>2. CASE Reports(w)
  BY <1>2, PollingIsQuiet, StillPhones, StillListeners DEF Reports, PollWindow, rdvVars, QuietStep
<1>3. CASE Declines(w)
  <2>1. /\ rdv' \in [Window -> Listener]
        /\ \A v \in Window : /\ rdv'[v].claimants = rdv[v].claimants
                             /\ v # w => rdv'[v] = rdv[v]
    BY <1>3, <1>t DEF Declines, Listener
  <2>2. QuietPairing /\ window'[w].state \in {"finished", "closed"}
    BY <1>3, WindowEndsQuietly DEF Declines
  <2>3. QuietListeners
    BY <2>1, <2>2, SameClaimants
  <2> QED
    BY <1>3, <2>2, <2>3, StillPhones DEF Declines, Decline, QuietStep
<1>4. CASE Cancels(w)
  <2>1. QuietPairing /\ window'[w].state \in {"finished", "closed"}
    BY <1>4, WindowEndsQuietly DEF Cancels
  <2>2. QuietListeners
    BY <1>4, <2>1, ClosingIsQuiet, StillListeners DEF Cancels
  <2> QED
    BY <1>4, <2>1, <2>2, StillPhones DEF Cancels, Cancel, QuietStep
<1>5. CASE Accepts(w) /\ ~ Confirmable
  <2>1. Accept(w) /\ rdv' = [rdv EXCEPT ![w] = Closed(@)]
    BY <1>5 DEF Accepts
  <2>2. /\ QuietPairing /\ window'[w].state \in {"finished", "closed"}
        /\ UNCHANGED <<phone, registry, confirmed>>
    BY <1>5, <2>1, WindowEndsQuietly
  <2>3. QuietListeners
    BY <2>1, <2>2, ClosingIsQuiet
  <2> QED
    BY <1>5, <2>2, <2>3, StillPhones DEF Accepts, QuietStep
<1> QED
  BY <1>1, <1>2, <1>3, <1>4, <1>5

\* What the relay does to a listener.
LEMMA RelayIsQuiet ==
  ASSUME RendezvousInv, NEW w \in Window,
         Registers(w) \/ LingerEnds(w) \/ SocketLost(w) \/ PeerOffline(w)
  PROVE  QuietStep
<1>t. rdv \in [Window -> Listener] /\ rdv[w] \in Listener
  BY DEF RendezvousInv, RendezvousTypes
<1>1. CASE Registers(w) \/ SocketLost(w)
  <2>1. PICK x \in {"listening", "closed"} :
               rdv' = [rdv EXCEPT ![w] = [rdv[w] EXCEPT !.state = x]]
    BY <1>1, <1>t DEF Registers, SocketLost
  <2> DEFINE r == [rdv[w] EXCEPT !.state = x]
  <2>3. r \in Listener /\ r.claimants = rdv[w].claimants /\ r.linger = rdv[w].linger
    BY <1>t DEF Listener
  <2> HIDE DEF r
  <2>4. /\ rdv' \in [Window -> Listener]
        /\ \A v \in Window : /\ rdv'[v].claimants = rdv[v].claimants
                             /\ rdv'[v].linger = rdv[v].linger
    BY <1>t, <2>1, <2>3 DEF r
  <2>2. QuietListeners
    BY <2>4, SameClaimants
  <2> QED
    BY <1>1, <2>2, StillPairing, StillPhones DEF Registers, SocketLost, pairingVars, QuietStep
<1>2. CASE LingerEnds(w)
  <2>1. window[w].state \in {"finished", "closed"}
    BY <1>2 DEF LingerEnds, RendezvousInv, ClaimsAreProven
  <2>2. QuietListeners
    BY <1>2, <2>1, ClosingIsQuiet DEF LingerEnds, pairingVars
  <2> QED
    BY <1>2, <2>2, StillPairing, StillPhones DEF LingerEnds, pairingVars, QuietStep
<1>3. CASE PeerOffline(w)
  <2> DEFINE cs == rdv[w].claimants
             kept == [i \in DOMAIN cs |-> IF cs[i].state = "proven" THEN cs[i]
                                          ELSE [cs[i] EXCEPT !.state = "gone"]]
             r == [[rdv[w] EXCEPT !.left = FALSE] EXCEPT !.claimants = kept]
  <2>1. /\ cs \in Seq(Claimant) /\ DOMAIN cs = 1 .. Len(cs) /\ Len(cs) \in Nat
        /\ \A i \in DOMAIN cs : cs[i] \in Claimant
    BY <1>t DEF Listener
  <2>2. /\ DOMAIN kept = DOMAIN cs
        /\ \A i \in DOMAIN cs : /\ kept[i] \in Claimant /\ kept[i].id = cs[i].id
                                /\ kept[i].state = "proven" <=> cs[i].state = "proven"
    <3> HIDE DEF cs
    <3>1. \A i \in DOMAIN cs : /\ [cs[i] EXCEPT !.state = "gone"] \in Claimant
                               /\ [cs[i] EXCEPT !.state = "gone"].id = cs[i].id
                               /\ [cs[i] EXCEPT !.state = "gone"].state = "gone"
      BY <2>1 DEF Claimant
    <3> QED
      BY <2>1, <3>1
  <2>3. kept \in Seq(Claimant)
    <3>1. kept \in [1 .. Len(cs) -> Claimant]
      BY <2>1, <2>2
    <3> QED
      BY <2>1, <3>1, SeqDef
  <2>4. rdv' = [rdv EXCEPT ![w] = r]
    BY <1>3, <1>t DEF PeerOffline
  <2> HIDE DEF kept
  <2>5. r \in Listener /\ r.claimants = kept /\ r.linger = rdv[w].linger
    BY <1>t, <2>3 DEF Listener
  <2> HIDE DEF r
  <2>6. rdv'[w] = r
    BY <1>t, <2>4
  <2>7. \A i \in DOMAIN cs : \E q \in Phone : IsDial(q, cs[i].id)
    BY DEF RendezvousInv, IdsAreDialled
  <2>8. QuietListener(w)
    BY <2>2, <2>5, <2>6, <2>7 DEF QuietListener
  <2>9. QuietListeners
    BY <2>4, <2>5, <2>8, OneListener
  <2> QED
    BY <1>3, <2>9, StillPairing, StillPhones DEF PeerOffline, pairingVars, QuietStep
<1> QED
  BY <1>1, <1>2, <1>3

\* The items of a sequence that one was added to.
LEMMA Appended ==
  ASSUME NEW S, NEW s \in Seq(S), NEW e \in S
  PROVE  /\ Len(s) \in Nat /\ DOMAIN s = 1 .. Len(s)
         /\ DOMAIN Append(s, e) = 1 .. Len(s) + 1
         /\ \A i \in 1 .. Len(s) : Append(s, e)[i] = s[i]
         /\ Append(s, e)[Len(s) + 1] = e
  OBVIOUS

\* The id of a phone that has dialled is that of a dial.
LEMMA IdIsDial ==
  ASSUME RendezvousInv, NEW p \in Phone, link[p].state # "down"
  PROVE  IsDial(p, Id(p)) /\ Id(p) \in RoutingId
<1>1. link[p].dials \in Nat /\ link[p].dials > 0
  BY DEF RendezvousInv, RendezvousTypes, LinkRecord
<1>2. link[p].dials \in 1 .. link[p].dials
  BY <1>1
<1> QED
  BY <1>1, <1>2 DEF IsDial, Id, RoutingId

\* What phones and the listener's handlers do without a claim that is proved.
LEMMA HelloIsQuiet ==
  ASSUME RendezvousInv, NEW p \in Phone, HelloArrives(p)
  PROVE  QuietStep
<1> DEFINE w == phone[p].token
<1>w. /\ w \in Window /\ Posting(p) /\ link[p].state = "hello"
  BY DEF HelloArrives, Posting, RendezvousInv, RendezvousTypes, PhoneRecord
<1>u. UNCHANGED <<session, window, registry, confirmed, calls, route, connector, stored>>
  BY DEF HelloArrives
<1>1. CASE \E outcome \in {"unreachable", "rendezvous-busy"} : Ends(p, outcome)
  <2>1. QuietPhones /\ QuietListeners
    BY <1>1, <1>w, EndingIsQuiet DEF Ending, Outcome
  <2> QED
    BY <1>u, <2>1, StillPairing DEF QuietStep
<1>2. CASE /\ rdv' = [rdv EXCEPT ![w].claimants = Append(@, [id |-> Id(p), state |-> "greeted"])]
           /\ link' = [link EXCEPT ![p].state = "sealing"]
           /\ phone' = phone
  <2> DEFINE cs == rdv[w].claimants
             c  == [id |-> Id(p), state |-> "greeted"]
             r  == [rdv[w] EXCEPT !.claimants = Append(cs, c)]
  <2>1. rdv[w] \in Listener /\ rdv \in [Window -> Listener] /\ cs \in Seq(Claimant)
    BY <1>w DEF RendezvousInv, RendezvousTypes, Listener
  <2>2. c \in Claimant /\ IsDial(p, c.id) /\ c.state # "proven"
    BY <1>w, IdIsDial DEF Claimant
  <2>3. rdv' = [rdv EXCEPT ![w] = r]
    BY <1>2
  <2>4. r \in Listener /\ r.claimants = Append(cs, c) /\ r.linger = rdv[w].linger
    <3>1. Append(cs, c) \in Seq(Claimant)
      BY <2>1, <2>2
    <3> HIDE DEF c
    <3> QED
      BY <2>1, <3>1 DEF Listener
  <2> HIDE DEF r, c
  <2>5. rdv'[w] = r
    BY <1>w, <2>1, <2>3
  <2>6. /\ Len(cs) \in Nat /\ DOMAIN cs = 1 .. Len(cs)
        /\ DOMAIN Append(cs, c) = 1 .. Len(cs) + 1
        /\ \A i \in 1 .. Len(cs) : Append(cs, c)[i] = cs[i]
        /\ Append(cs, c)[Len(cs) + 1] = c
    BY SMTT(40), <2>1, <2>2, Appended
  <2>7. \A i \in DOMAIN cs : \E q \in Phone : IsDial(q, cs[i].id)
    BY <1>w DEF RendezvousInv, IdsAreDialled
  <2> HIDE DEF w
  <2>8. QuietListener(w)
    <3>1. \A j \in DOMAIN Append(cs, c) :
            /\ \E q \in Phone : IsDial(q, Append(cs, c)[j].id)
            /\ Append(cs, c)[j].state = "proven" =>
                 j \in DOMAIN cs /\ Append(cs, c)[j] = cs[j]
      <4> SUFFICES ASSUME NEW j \in DOMAIN Append(cs, c)
                   PROVE  /\ \E q \in Phone : IsDial(q, Append(cs, c)[j].id)
                          /\ Append(cs, c)[j].state = "proven" =>
                               j \in DOMAIN cs /\ Append(cs, c)[j] = cs[j]
        OBVIOUS
      <4>1. j \in 1 .. Len(cs) \/ j = Len(cs) + 1
        BY <2>6
      <4> QED
        BY <4>1, <2>2, <2>6, <2>7
    <3>2. \A i \in DOMAIN cs : i \in DOMAIN Append(cs, c) /\ Append(cs, c)[i] = cs[i]
      BY <2>6
    <3> QED
      BY <2>4, <2>5, <3>1, <3>2 DEF QuietListener
  <2>9. QuietListeners
    BY <1>w, <2>3, <2>4, <2>8, OneListener
  <2>10. QuietPhones
    BY <1>w, <1>2 DEF QuietPhones, RendezvousInv, RendezvousTypes, LinkRecord
  <2> QED
    BY <1>u, <2>9, <2>10, StillPairing DEF QuietStep
<1> QED
  BY <1>1, <1>2 DEF HelloArrives

\* A listener that notes a claimant as sealed or proven.
LEMMA NotingClaimant ==
  ASSUME RendezvousInv, NEW w \in Window, NEW p \in Phone, link[p].state # "down",
         NEW x \in {"sealed", "proven"},
         rdv' = [rdv EXCEPT ![w].claimants = Updated(@, Id(p), x)]
  PROVE  /\ rdv' \in [Window -> Listener]
         /\ rdv'[w].claimants = Updated(rdv[w].claimants, Id(p), x)
         /\ rdv'[w].linger = rdv[w].linger
         /\ \A v \in Window \ {w} : rdv'[v] = rdv[v]
         /\ rdv[w].claimants \in Seq(Claimant)
         /\ DOMAIN rdv'[w].claimants = DOMAIN rdv[w].claimants
         /\ \A i \in DOMAIN rdv[w].claimants :
              \E q \in Phone : IsDial(q, rdv'[w].claimants[i].id)
<1>1. rdv[w] \in Listener /\ rdv \in [Window -> Listener] /\ rdv[w].claimants \in Seq(Claimant)
  BY DEF RendezvousInv, RendezvousTypes, Listener
<1> DEFINE cs == rdv[w].claimants
           us == Updated(cs, Id(p), x)
           r  == [rdv[w] EXCEPT !.claimants = us]
<1>2. us \in Seq(Claimant) /\ DOMAIN us = DOMAIN cs /\ \A i \in DOMAIN cs : us[i].id = cs[i].id
  BY <1>1, UpdatedFacts
<1>3. rdv' = [rdv EXCEPT ![w] = r]
  OBVIOUS
<1> HIDE DEF us
<1>4. r \in Listener /\ r.claimants = us /\ r.linger = rdv[w].linger
  BY <1>1, <1>2 DEF Listener
<1> HIDE DEF r
<1>5. rdv'[w] = r /\ rdv' \in [Window -> Listener] /\ \A v \in Window \ {w} : rdv'[v] = rdv[v]
  BY <1>1, <1>3, <1>4
<1>6. \A i \in DOMAIN cs : \E q \in Phone : IsDial(q, us[i].id)
  BY <1>2 DEF RendezvousInv, IdsAreDialled
<1> QED
  BY <1>1, <1>2, <1>4, <1>5, <1>6 DEF us

\* The seal of a phone reaches its claimant.
LEMMA SealIsQuiet ==
  ASSUME RendezvousInv, NEW p \in Phone, SealArrives(p)
  PROVE  QuietStep
<1> DEFINE w  == phone[p].token
           cs == rdv[w].claimants
<1>w. /\ w \in Window /\ Posting(p) /\ link[p].state = "sealing"
      /\ rdv' = [rdv EXCEPT ![w].claimants = Updated(@, Id(p), "sealed")]
      /\ link' = [link EXCEPT ![p].state = "sealed"]
      /\ UNCHANGED <<pairingVars, calls, route, connector, stored>>
  BY DEF SealArrives, Posting, RendezvousInv, RendezvousTypes, PhoneRecord
<1>1. /\ rdv' \in [Window -> Listener] /\ cs \in Seq(Claimant)
      /\ rdv'[w].claimants = Updated(cs, Id(p), "sealed") /\ rdv'[w].linger = rdv[w].linger
      /\ \A v \in Window \ {w} : rdv'[v] = rdv[v]
      /\ DOMAIN rdv'[w].claimants = DOMAIN cs
      /\ \A i \in DOMAIN cs : \E q \in Phone : IsDial(q, rdv'[w].claimants[i].id)
  BY <1>w, NotingClaimant
<1>2. \A i \in DOMAIN cs : cs[i].id = Id(p) => cs[i].state # "proven"
  BY <1>w DEF RendezvousInv, ProofsFollowSeals
<1>3. ASSUME NEW i \in DOMAIN cs
      PROVE  /\ rdv'[w].claimants[i].id = cs[i].id
             /\ rdv'[w].claimants[i].state = "proven" <=> cs[i].state = "proven"
  <2>1. /\ Updated(cs, Id(p), "sealed")[i].id = cs[i].id
        /\ cs[i].id # Id(p) => Updated(cs, Id(p), "sealed")[i] = cs[i]
        /\ cs[i].id = Id(p) /\ cs[i].state # "gone"
             => Updated(cs, Id(p), "sealed")[i].state = "sealed"
        /\ cs[i].state = "gone" => Updated(cs, Id(p), "sealed")[i] = cs[i]
    <3>1. cs \in Seq(Claimant) /\ "sealed" \in {"sealed", "proven"}
      BY <1>1
    <3> HIDE DEF cs, w
    <3> QED
      BY SMTT(40), <3>1, UpdatedFacts
  <2> QED
    BY <1>1, <1>2, <2>1
<1>4. QuietListener(w)
  BY <1>1, <1>3 DEF QuietListener
<1>5. QuietListeners
  <2> SUFFICES ASSUME NEW v \in Window \ {w}
               PROVE  QuietListener(v)
    BY <1>1, <1>4 DEF QuietListeners
  <2> QED
    BY <1>1 DEF RendezvousInv, IdsAreDialled, QuietListener
<1>6. QuietPhones
  BY <1>w DEF QuietPhones, RendezvousInv, RendezvousTypes, LinkRecord, pairingVars
<1> QED
  BY <1>w, <1>5, <1>6, StillPairing DEF QuietStep, pairingVars

\* A phone stops.
LEMMA StopsIsQuiet ==
  ASSUME RendezvousInv, NEW p \in Phone, Stops(p)
  PROVE  QuietStep
<1>1. PICK outcome \in {"unreachable", "cancelled", "timeout"} : Ends(p, outcome)
  BY DEF Stops
<1>2. QuietPhones /\ QuietListeners
  BY <1>1, EndingIsQuiet DEF Stops, Ending, Outcome
<1> QED
  BY <1>2, StillPairing DEF Stops, QuietStep

\* A reply that assigns no route tells the phone at most that its flow is over.
LEMMA ReplyIsQuiet ==
  ASSUME RendezvousInv, NEW c \in calls, Replies(c), ~ Assigns(c)
  PROVE  QuietStep
<1> DEFINE p == c.id[1]
<1>1. /\ c \in CallRecord /\ p \in Phone
  BY DEF RendezvousInv, RendezvousTypes, CallRecord, RoutingId
<1>2. /\ UNCHANGED <<session, window, registry, confirmed, route, connector>>
      /\ calls' \subseteq calls
  BY DEF Replies
<1>3. Reply(c) \in Ending \cup {"awaiting-confirmation"} /\ Reply(c) # "paired"
  BY <1>1 DEF Reply, Replies, CallRecord, Ending, Outcome
<1>4. stored' = stored
  BY <1>3 DEF Replies
<1>5. CASE UNCHANGED <<phone, link, rdv>>
  BY <1>2, <1>4, <1>5, StillPairing, StillPhones, StillListeners DEF QuietStep
<1>6. CASE link' = [link EXCEPT ![p].waits = FALSE] /\ UNCHANGED <<phone, rdv>>
  <2>1. QuietPhones
    BY ZenonT(40), <1>1, <1>6 DEF QuietPhones, RendezvousInv, RendezvousTypes, LinkRecord
  <2> QED
    BY <1>2, <1>4, <1>6, <2>1, StillPairing, StillListeners DEF QuietStep
<1>7. CASE Posting(p) /\ Reply(c) # "awaiting-confirmation" /\ Ends(p, Reply(c))
  <2>1. QuietPhones /\ QuietListeners
    BY <1>1, <1>3, <1>7, EndingIsQuiet
  <2> QED
    BY <1>2, <1>4, <2>1, StillPairing DEF QuietStep
<1> QED
  BY <1>5, <1>6, <1>7 DEF Replies

-----------------------------------------------------------------------------
\* The steps that claim, confirm, route and store: one lemma for each.

LEMMA OpensWindowKeeps ==
  ASSUME RendezvousInv, NEW w \in Window, NEW tier \in Tier, OpensWindow(w, tier)
  PROVE  RendezvousInv'
<1>t. /\ window \in [Window -> WindowRecord] /\ window[w] \in WindowRecord
      /\ rdv \in [Window -> Listener] /\ rdv[w] \in Listener
  BY DEF RendezvousInv, RendezvousTypes
<1>w. /\ window[w].state = "unused" /\ window'[w].state = "open"
      /\ window' \in [Window -> WindowRecord]
      /\ \A v \in Window \ {w} : window'[v] = window[v]
  <2> DEFINE r == [[window[w] EXCEPT !.state = "open"] EXCEPT !.tier = tier]
  <2>1. window[w].state = "unused" /\ window' = [window EXCEPT ![w] = r]
    BY <1>t DEF OpensWindow, BeginPair
  <2>2. r \in WindowRecord /\ r.state = "open"
    BY <1>t DEF WindowRecord, WindowState
  <2> HIDE DEF r
  <2> QED
    BY <1>t, <2>1, <2>2
<1>s. /\ session' \in SessionRecord
      /\ session'.token = w /\ session'.pending = None /\ session'.state = "awaiting-claim"
  BY DEF OpensWindow, BeginPair, SessionRecord, SessionState
<1>r. /\ rdv' \in [Window -> Listener]
      /\ \A v \in Window : /\ rdv'[v].claimants = rdv[v].claimants
                           /\ rdv'[v].linger = rdv[v].linger
  <2> DEFINE r == [rdv[w] EXCEPT !.state = "dialing"]
  <2>1. rdv' = [rdv EXCEPT ![w] = r]
    BY <1>t DEF OpensWindow
  <2>2. r \in Listener /\ r.claimants = rdv[w].claimants /\ r.linger = rdv[w].linger
    BY <1>t DEF Listener
  <2> HIDE DEF r
  <2> QED
    BY <1>t, <2>1, <2>2
<1>u. UNCHANGED <<phone, registry, confirmed, link, calls, route, connector, stored>>
  BY DEF OpensWindow, BeginPair
<1>1. RendezvousTypes'
  BY <1>w, <1>s, <1>r, <1>u DEF RendezvousInv, RendezvousTypes
<1>2. TokensAreMinted'
  <2>1. \A v \in Window : window[v].state # "unused" => v # w /\ window'[v] = window[v]
    BY <1>w
  <2>2. /\ \A p \in Phone : phone[p].token \in Window \cup {None}
        /\ \A c \in calls : c.at \in Window
        /\ \A c \in confirmed : c.token \in Window /\ c.at \in Window
    BY DEF RendezvousInv, RendezvousTypes, PhoneRecord, CallRecord
  <2>3. \A c \in confirmed : /\ window'[c.token].state # "unused"
                             /\ window'[c.at].state \in {"finished", "closed"}
                             /\ c.token # w
    BY <2>1, <2>2 DEF RendezvousInv, TokensAreMinted
  <2>4. \A c \in calls : window'[c.at].state # "unused"
    BY <2>1, <2>2 DEF RendezvousInv, TokensAreMinted
  <2>5. \A p \in Phone : phone[p].token # None => window'[phone[p].token].state # "unused"
    BY <2>1, <2>2 DEF RendezvousInv, TokensAreMinted
  <2> QED
    BY <1>w, <1>s, <1>u, <2>3, <2>4, <2>5 DEF TokensAreMinted
<1>3. IdsAreDialled'
  BY <1>r, <1>u DEF RendezvousInv, IdsAreDialled, IsDial
<1>4. ProofsFollowSeals'
  BY <1>r, <1>u DEF RendezvousInv, ProofsFollowSeals, Id
<1>5. ClaimsAreProven'
  <2>1. ~ rdv[w].linger
    BY <1>w DEF RendezvousInv, ClaimsAreProven
  <2>2. \A c \in calls : c.at # w
    BY <1>w DEF RendezvousInv, TokensAreMinted
  <2> QED
    BY <1>w, <1>s, <1>r, <1>u, <2>1, <2>2 DEF RendezvousInv, ClaimsAreProven, Proven
<1>6. OneDialOneToken'
  BY <1>s, <1>u, PairingAssumption DEF RendezvousInv, OneDialOneToken
<1>7. RouteIsOfActiveDevice' /\ StoredIsExpected'
  BY <1>u DEF RendezvousInv, RouteIsOfActiveDevice, StoredIsExpected
<1>8. ConfirmedHasRoute'
  <2>1. \A c \in confirmed : Alone(c.at)' => Alone(c.at)
    BY <1>w DEF Alone
  <2> QED
    BY <1>u, <2>1 DEF RendezvousInv, ConfirmedHasRoute
<1> QED
  BY <1>1, <1>2, <1>3, <1>4, <1>5, <1>6, <1>7, <1>8 DEF RendezvousInv

\* A phone scans and dials: its id is new.
LEMMA ScansKeeps ==
  ASSUME RendezvousInv, NEW p \in Phone, NEW w \in Window, Scans(p, w)
  PROVE  RendezvousInv'
<1>t. phone \in [Phone -> PhoneRecord] /\ link \in [Phone -> LinkRecord] /\ link[p] \in LinkRecord
  BY DEF RendezvousInv, RendezvousTypes
<1> DEFINE n == link[p].dials
<1>n. n \in Nat
  BY <1>t DEF LinkRecord
<1>p. /\ phone' \in [Phone -> PhoneRecord] /\ phone'[p].token = w /\ window[w].state = "open"
      /\ \A q \in Phone \ {p} : phone'[q] = phone[q]
  BY <1>t DEF Scans, Scan, PhoneRecord
<1>l. /\ link' \in [Phone -> LinkRecord] /\ link'[p].dials = n + 1
      /\ \A q \in Phone \ {p} : link'[q] = link[q]
  <2> DEFINE r == [dials |-> n + 1, state |-> "hello", waits |-> FALSE]
  <2>1. link' = [link EXCEPT ![p] = r]
    BY DEF Scans
  <2>2. r \in LinkRecord /\ r.dials = n + 1
    BY <1>n DEF LinkRecord
  <2> HIDE DEF r
  <2> QED
    BY <1>t, <2>1, <2>2
<1>u. /\ UNCHANGED <<session, window, registry, confirmed, rdv, calls, route, connector>>
      /\ stored' = [stored EXCEPT ![p] = None]
  BY DEF Scans, Scan
<1>d. ASSUME NEW q \in Phone, NEW id, IsDial(q, id)
      PROVE  /\ \E m \in 1 .. link'[q].dials : id = <<q, m>>
             /\ id # <<p, n + 1>> /\ (q = p => n > 0)
  <2>1. PICK m \in 1 .. link[q].dials : id = <<q, m>>
    BY <1>d DEF IsDial
  <2>2. q = p => m \in 1 .. n /\ m \in 1 .. n + 1 /\ m # n + 1 /\ n > 0
    BY <1>n, <2>1
  <2>3. m \in 1 .. link'[q].dials
    BY <1>l, <2>1, <2>2
  <2> HIDE DEF n
  <2> QED
    BY <2>1, <2>2, <2>3 DEF IsDial
<1> HIDE DEF n
<1>1. RendezvousTypes'
  <2>1. \A q \in Phone : /\ phone'[q].state = "posting" => phone'[q].token # None
                         /\ link'[q].state # "down" => link'[q].dials > 0
    BY <1>n, <1>p, <1>l, PairingAssumption DEF RendezvousInv, RendezvousTypes
  <2>2. stored' \in RouteMap
    BY <1>u DEF RendezvousInv, RendezvousTypes, RouteMap
  <2> QED
    BY <1>p, <1>l, <1>u, <2>1, <2>2 DEF RendezvousInv, RendezvousTypes
<1>2. TokensAreMinted'
  BY <1>p, <1>u DEF RendezvousInv, TokensAreMinted
<1>3. IdsAreDialled'
  <2>1. ASSUME NEW q \in Phone
        PROVE  /\ route'[q] # None => \E m \in 1 .. link'[q].dials : route'[q] = <<q, m>>
               /\ connector'[q] # None => \E m \in 1 .. link'[q].dials : connector'[q] = <<q, m>>
               /\ stored'[q] # None => \E m \in 1 .. link'[q].dials : stored'[q] = <<q, m>>
               /\ route'[q] = None <=> connector'[q] = None
    <3>1. stored'[q] # None => stored'[q] = stored[q]
      BY <1>u DEF RendezvousInv, RendezvousTypes, RouteMap
    <3> QED
      BY <1>d, <1>u, <3>1 DEF RendezvousInv, IdsAreDialled
  <2>2. \A v \in Window : \A i \in DOMAIN rdv[v].claimants :
          \E q \in Phone : \E m \in 1 .. link'[q].dials : rdv[v].claimants[i].id = <<q, m>>
    BY <1>d, <1>u DEF RendezvousInv, IdsAreDialled
  <2>3. \A c \in calls : \E q \in Phone : \E m \in 1 .. link'[q].dials : c.id = <<q, m>>
    BY <1>d DEF RendezvousInv, IdsAreDialled
  <2> QED
    BY <1>u, <2>1, <2>2, <2>3 DEF IdsAreDialled, IsDial
<1>4. ProofsFollowSeals'
  <2> SUFFICES ASSUME NEW q \in Phone, link'[q].state \in {"hello", "sealing"},
                      NEW v \in Window, NEW i \in DOMAIN rdv[v].claimants,
                      rdv[v].claimants[i].id = <<q, link'[q].dials>>
               PROVE  rdv[v].claimants[i].state # "proven"
    BY <1>u DEF ProofsFollowSeals, Id
  <2>1. CASE q = p
    <3>1. PICK o \in Phone : IsDial(o, rdv[v].claimants[i].id)
      BY DEF RendezvousInv, IdsAreDialled
    <3> QED
      BY <1>d, <1>l, <2>1, <3>1
  <2>2. CASE q # p
    BY <1>l, <2>2 DEF RendezvousInv, ProofsFollowSeals, Id
  <2> QED
    BY <2>1, <2>2
<1>5. ClaimsAreProven'
  BY <1>u DEF RendezvousInv, ClaimsAreProven, Proven
<1>6. OneDialOneToken'
  <2>1. ASSUME n = 0
        PROVE  /\ session.pending # p
               /\ \A c \in calls : c.id[1] # p
    <3>1. \A c \in calls : \E q \in Phone : IsDial(q, c.id) /\ c.id[1] = q
      BY DialNamesPhone DEF RendezvousInv, IdsAreDialled
    <3>2. \A c \in calls : c.id[1] # p
      BY <1>d, <1>n, <2>1, <3>1
    <3> QED
      BY <1>n, <2>1, <3>2 DEF RendezvousInv, OneDialOneToken, n
  <2>2. stored'[p] = None /\ \A q \in Phone \ {p} : stored'[q] = stored[q]
    BY <1>u DEF RendezvousInv, RendezvousTypes, RouteMap
  <2>3. link'[p].dials = 1 => n = 0
    BY <1>n, <1>l
  <2>4. link'[p].dials > 0
    BY <1>n, <1>l
  <2>5. ASSUME NEW q \in Phone
        PROVE  /\ session.pending = q => link'[q].dials > 0
               /\ link'[q].dials = 1 =>
                    /\ session.pending = q => session.token = phone'[q].token
                    /\ \A c \in calls : c.id[1] = q => c.at = phone'[q].token
                    /\ stored'[q] # None =>
                         \E d \in confirmed : d.phone = q /\ d.token = phone'[q].token
    BY <1>p, <1>l, <2>1, <2>2, <2>3, <2>4 DEF RendezvousInv, OneDialOneToken
  <2> QED
    BY <1>u, <2>5 DEF RendezvousInv, OneDialOneToken
<1>7. RouteIsOfActiveDevice'
  BY <1>u DEF RendezvousInv, RouteIsOfActiveDevice
<1>8. ConfirmedHasRoute'
  <2>1. \A q \in Phone : link'[q].dials = 0 => link[q].dials = 0
    BY <1>n, <1>l
  <2> QED
    BY <1>u, <2>1 DEF RendezvousInv, ConfirmedHasRoute, Alone
<1>9. StoredIsExpected'
  <2>1. stored'[p] = None /\ \A q \in Phone \ {p} : stored'[q] = stored[q]
    BY <1>u DEF RendezvousInv, RendezvousTypes, RouteMap
  <2> QED
    BY <1>l, <1>u, <2>1 DEF RendezvousInv, StoredIsExpected
<1> QED
  BY <1>1, <1>2, <1>3, <1>4, <1>5, <1>6, <1>7, <1>8, <1>9 DEF RendezvousInv

\* A claim reaches the session from a claimant that proved its key.
LEMMA ClaimArrivesKeeps ==
  ASSUME RendezvousInv, NEW p \in Phone, ClaimArrives(p)
  PROVE  RendezvousInv'
<1> DEFINE w  == phone[p].token
           cs == rdv[w].claimants
           c  == [id |-> Id(p), at |-> w, reply |-> None]
<1>w. /\ w \in Window /\ link[p].state = "sealed"
      /\ link' = [link EXCEPT ![p].waits = TRUE]
      /\ UNCHANGED <<session, window, registry, phone, confirmed, route, connector, stored>>
  BY DEF ClaimArrives, Posting, pairingVars, RendezvousInv, RendezvousTypes, PhoneRecord
<1>l. /\ link' \in [Phone -> LinkRecord]
      /\ \A q \in Phone : link'[q].dials = link[q].dials /\ link'[q].state = link[q].state
  BY <1>w DEF RendezvousInv, RendezvousTypes, LinkRecord
<1>1. CASE ~ HasChannel(w, Id(p))
  <2>1. UNCHANGED <<rdv, calls>>
    BY <1>1 DEF ClaimArrives
  <2>2. QuietPhones
    BY <1>w, <1>l DEF QuietPhones, RendezvousInv, RendezvousTypes
  <2> QED
    BY <1>w, <2>1, <2>2, StillPairing, StillListeners, QuietKeeps DEF QuietStep
<1>2. CASE HasChannel(w, Id(p))
  <2>1. /\ rdv' = [rdv EXCEPT ![w].claimants = Updated(@, Id(p), "proven")]
        /\ calls' = calls \cup {c}
    BY <1>2 DEF ClaimArrives
  <2>2. /\ rdv' \in [Window -> Listener] /\ cs \in Seq(Claimant)
        /\ rdv'[w].claimants = Updated(cs, Id(p), "proven")
        /\ rdv'[w].linger = rdv[w].linger
        /\ \A v \in Window \ {w} : rdv'[v] = rdv[v]
        /\ DOMAIN rdv'[w].claimants = DOMAIN cs
        /\ \A i \in DOMAIN cs : \E q \in Phone : IsDial(q, rdv'[w].claimants[i].id)
    BY <1>w, <2>1, NotingClaimant
  <2>3. ASSUME NEW i \in DOMAIN cs
        PROVE  /\ rdv'[w].claimants[i].id = cs[i].id
               /\ cs[i].id # Id(p) => rdv'[w].claimants[i] = cs[i]
               /\ cs[i].id = Id(p) /\ cs[i].state # "gone"
                    => rdv'[w].claimants[i].state = "proven"
    <3>1. cs \in Seq(Claimant) /\ "proven" \in {"sealed", "proven"}
      BY <2>2
    <3>2. rdv'[w].claimants = Updated(cs, Id(p), "proven")
      BY <2>2
    <3> HIDE DEF cs, w
    <3>3. /\ Updated(cs, Id(p), "proven")[i].id = cs[i].id
          /\ cs[i].id # Id(p) => Updated(cs, Id(p), "proven")[i] = cs[i]
          /\ cs[i].id = Id(p) /\ cs[i].state # "gone"
               => Updated(cs, Id(p), "proven")[i].state = "proven"
      BY SMTT(40), <3>1, UpdatedFacts
    <3> QED
      BY <3>2, <3>3
  <2>4. IsDial(p, Id(p)) /\ Id(p) \in RoutingId /\ Id(p)[1] = p
    BY <1>w, IdIsDial DEF Id
  <2>c. c.id = Id(p) /\ c.at = w /\ c.reply = None /\ c \in CallRecord
    BY <1>w, <2>4 DEF CallRecord
  <2> HIDE DEF c
  <2>5. RendezvousTypes'
    BY <1>w, <1>l, <2>1, <2>2, <2>c DEF RendezvousInv, RendezvousTypes
  <2>6. TokensAreMinted'
    <3>1. window[w].state # "unused"
      BY <1>w, PairingAssumption DEF RendezvousInv, TokensAreMinted
    <3> QED
      BY <1>w, <2>1, <2>c, <3>1 DEF RendezvousInv, TokensAreMinted
  <2>7. IdsAreDialled'
    <3>1. \A v \in Window : \A i \in DOMAIN rdv'[v].claimants :
            \E q \in Phone : IsDial(q, rdv'[v].claimants[i].id)
      BY <2>2 DEF RendezvousInv, IdsAreDialled
    <3>2. \A d \in calls' : \E q \in Phone : IsDial(q, d.id)
      BY <2>1, <2>4, <2>c DEF RendezvousInv, IdsAreDialled
    <3> QED
      BY <1>w, <1>l, <3>1, <3>2 DEF RendezvousInv, IdsAreDialled, IsDial
  <2>8. ProofsFollowSeals'
    <3> SUFFICES ASSUME NEW q \in Phone, link[q].state \in {"hello", "sealing"},
                        NEW v \in Window, NEW i \in DOMAIN rdv'[v].claimants,
                        rdv'[v].claimants[i].id = Id(q)
                 PROVE  rdv'[v].claimants[i].state # "proven"
      BY <1>l DEF ProofsFollowSeals, Id
    <3>1. q # p /\ Id(q) # Id(p)
      BY <1>w DEF Id
    <3>2. CASE v = w
      <4>1. i \in DOMAIN cs
        BY <2>2, <3>2
      <4>2. cs[i].id = Id(q) /\ rdv'[w].claimants[i] = cs[i]
        BY <2>3, <3>1, <3>2, <4>1
      <4>3. cs[i].state # "proven"
        BY <1>w, <4>1, <4>2 DEF RendezvousInv, ProofsFollowSeals
      <4> QED
        BY <3>2, <4>2, <4>3
    <3>3. CASE v # w
      BY <2>2, <3>3 DEF RendezvousInv, ProofsFollowSeals
    <3> QED
      BY <3>2, <3>3
  <2>9. ClaimsAreProven'
    <3>1. \E i \in DOMAIN cs : cs[i].id = Id(p) /\ cs[i].state \in {"sealed", "proven"}
      BY <1>2 DEF HasChannel, Claimants
    <3>2. \E i \in DOMAIN rdv'[w].claimants : rdv'[w].claimants[i].state = "proven"
      BY <2>2, <2>3, <3>1
    <3>3. \A v \in Window \ {w} : \A d \in calls' : d.at = v => d \in calls
      BY <2>1, <2>c
    <3> HIDE DEF w
    <3> QED
      BY <1>w, <2>2, <3>2, <3>3 DEF RendezvousInv, ClaimsAreProven, Proven
  <2>10. OneDialOneToken'
    <3>1. c.reply # "paired"
      BY <2>c, RendezvousAssumption DEF Outcome
    <3>2. \A q \in Phone : c.id[1] = q => q = p
      BY <2>4, <2>c
    <3> QED
      BY <1>w, <1>l, <2>1, <2>c, <3>1, <3>2 DEF RendezvousInv, OneDialOneToken
  <2>11. RouteIsOfActiveDevice' /\ ConfirmedHasRoute' /\ StoredIsExpected'
    BY <1>w, <1>l
    DEF RendezvousInv, RouteIsOfActiveDevice, ConfirmedHasRoute, StoredIsExpected, Alone
  <2> QED
    BY <2>5, <2>6, <2>7, <2>8, <2>9, <2>10, <2>11 DEF RendezvousInv
<1> QED
  BY <1>1, <1>2

\* What the backend's answer to a claim, or to a poll, does to the session, and what
\* "paired" means.
LEMMA AnswerMoves ==
  ASSUME session \in SessionRecord, NEW p \in Phone, NEW w \in Window
  PROVE  LET answer == Answer(p, w) IN
         /\ answer.session \in SessionRecord
         /\ answer.reply \in Outcome \cup {"awaiting-confirmation"}
         /\ answer.reply = "paired" =>
              session.state = "completed" /\ session.pending = p /\ session.token = w
         /\ answer.session.token = session.token
         /\ \/ /\ answer.session.pending = session.pending
               /\ answer.session.state = "completed" <=> session.state = "completed"
            \/ /\ answer.session.pending = p /\ session.token = w
               /\ session.state # "completed" /\ answer.session.state # "completed"
<1>1. /\ Current \in SessionRecord
      /\ Current.token = session.token /\ Current.pending = session.pending
      /\ Current.state = "completed" <=> session.state = "completed"
  BY SessionMoves
<1>2. CASE OwnClaim(p, w)
  <2>1. Answer(p, w) = [reply |-> Decision(p), session |-> session]
    BY <1>2 DEF Answer
  <2>2. /\ Decision(p) \in Outcome \cup {"awaiting-confirmation"}
        /\ Decision(p) = "paired" => session.state = "completed"
    BY DEF Decision, Outcome
  <2> QED
    BY <1>2, <2>1, <2>2 DEF OwnClaim
<1>3. CASE ~ OwnClaim(p, w)
  <2> DEFINE failed  == [Current EXCEPT !.state = "failed"]
             claimed == [Current EXCEPT !.state = "awaiting-confirmation", !.pending = p]
  <2>1. Answer(p, w) = Claim(p, w)
    BY <1>3 DEF Answer
  <2>2. /\ failed \in SessionRecord /\ failed.token = Current.token
        /\ failed.pending = Current.pending /\ failed.state = "failed"
        /\ claimed \in SessionRecord /\ claimed.token = Current.token
        /\ claimed.pending = p /\ claimed.state = "awaiting-confirmation"
    BY <1>1 DEF SessionRecord, SessionState
  <2>3. /\ Claim(p, w).reply \in {"dsh-unavailable", "pairing-invalid", "awaiting-confirmation"}
        /\ \/ Claim(p, w).session = session
           \/ Claim(p, w).session = Current
           \/ Claim(p, w).session = failed /\ Current.state = "awaiting-claim"
           \/ /\ Claim(p, w).session = claimed /\ Current.state = "awaiting-claim"
              /\ Current.token = w
    BY DEF Claim
  <2> HIDE DEF failed, claimed
  <2> QED
    BY <1>1, <2>1, <2>2, <2>3 DEF Outcome
<1> QED
  BY <1>2, <1>3

\* The session's answer to a claim is what it was confirmed as, or not.
LEMMA BackendAnswersKeeps ==
  ASSUME RendezvousInv, NEW c \in calls, BackendAnswers(c)
  PROVE  RendezvousInv'
<1> DEFINE p == c.id[1]
           w == c.at
           answer == Answer(p, w)
           d == [c EXCEPT !.reply = answer.reply]
<1>c. c \in CallRecord /\ p \in Phone /\ w \in Window /\ session \in SessionRecord
  BY DEF RendezvousInv, RendezvousTypes, CallRecord, RoutingId
<1>a. /\ session' \in SessionRecord
      /\ answer.reply \in Outcome \cup {"awaiting-confirmation"}
      /\ answer.reply = "paired" =>
           session.state = "completed" /\ session.pending = p /\ session.token = w
      /\ session'.token = session.token
      /\ \/ /\ session'.pending = session.pending
            /\ session'.state = "completed" <=> session.state = "completed"
         \/ /\ session'.pending = p /\ session.token = w
            /\ session.state # "completed" /\ session'.state # "completed"
  <2>1. session' = answer.session
    BY DEF BackendAnswers
  <2> QED
    BY <1>c, <2>1, AnswerMoves
<1>u. /\ calls' = (calls \ {c}) \cup {d}
      /\ UNCHANGED <<window, registry, phone, confirmed, rdv, link, route, connector, stored>>
  BY DEF BackendAnswers
<1> HIDE DEF answer
<1>d. d \in CallRecord /\ d.id = c.id /\ d.at = w /\ d.reply = answer.reply
  BY <1>c, <1>a DEF CallRecord
<1>q. \E q \in Phone : IsDial(q, c.id)
  BY DEF RendezvousInv, IdsAreDialled
<1>p. IsDial(p, c.id) /\ link[p].dials > 0
  <2>1. PICK q \in Phone : IsDial(q, c.id)
    BY <1>q
  <2>2. q = p /\ link[q].dials > 0
    BY <2>1, DialNamesPhone DEF RendezvousInv
  <2> QED
    BY <2>1, <2>2
<1> HIDE DEF d
<1>e. \A e \in calls' : e \in calls \/ e = d
  BY <1>u
<1>1. RendezvousTypes'
  BY <1>a, <1>u, <1>d DEF RendezvousInv, RendezvousTypes
<1>2. TokensAreMinted'
  <2>1. /\ session'.pending # None => session'.token # None
        /\ session'.token # None => window[session'.token].state # "unused"
    BY <1>c, <1>a, PairingAssumption DEF RendezvousInv, TokensAreMinted
  <2>2. \A e \in calls' : window[e.at].state # "unused"
    BY <1>d, <1>e DEF RendezvousInv, TokensAreMinted
  <2>3. \A e \in confirmed : e.token = session'.token => session'.state = "completed"
    BY <1>a DEF RendezvousInv, TokensAreMinted
  <2>4. session'.state = "completed" =>
          \E e \in confirmed : e.phone = session'.pending /\ e.token = session'.token
    BY <1>a DEF RendezvousInv, TokensAreMinted
  <2> QED
    BY <1>u, <2>1, <2>2, <2>3, <2>4 DEF RendezvousInv, TokensAreMinted
<1>3. IdsAreDialled'
  <2>1. \A e \in calls' : \E q \in Phone : IsDial(q, e.id)
    BY <1>d, <1>e, <1>q DEF RendezvousInv, IdsAreDialled
  <2> QED
    BY <1>u, <2>1 DEF RendezvousInv, IdsAreDialled, IsDial
<1>4. ProofsFollowSeals'
  BY <1>u DEF RendezvousInv, ProofsFollowSeals, Id
<1>5. ClaimsAreProven'
  <2> SUFFICES ASSUME NEW v \in Window, window[v].state = "open",
                      \/ \E e \in calls' : e.at = v
                      \/ session'.token = v /\ session'.pending # None
               PROVE  Proven(v) # {}
    BY <1>u DEF RendezvousInv, ClaimsAreProven, Proven
  <2>1. \/ \E e \in calls : e.at = v
        \/ session.token = v /\ session.pending # None
    BY <1>a, <1>d, <1>e
  <2> QED
    BY <2>1 DEF RendezvousInv, ClaimsAreProven
<1>6. OneDialOneToken'
  <2>1. ASSUME NEW q \in Phone
        PROVE  /\ session'.pending = q => link[q].dials > 0
               /\ link[q].dials = 1 =>
                    /\ session'.pending = q => session'.token = phone[q].token
                    /\ \A e \in calls' : e.id[1] = q => e.at = phone[q].token
    <3>1. session'.pending = q => link[q].dials > 0
      BY <1>a, <1>p DEF RendezvousInv, OneDialOneToken
    <3>2. link[q].dials = 1 => \A e \in calls' : e.id[1] = q => e.at = phone[q].token
      BY <1>d, <1>e DEF RendezvousInv, OneDialOneToken
    <3>3. link[q].dials = 1 /\ session'.pending = q => session'.token = phone[q].token
      BY <1>a DEF RendezvousInv, OneDialOneToken
    <3> QED
      BY <3>1, <3>2, <3>3
  <2>2. \A e \in calls' : e.reply = "paired" =>
          \E f \in confirmed : f.phone = e.id[1] /\ f.token = e.at
    BY <1>a, <1>d, <1>e DEF RendezvousInv, OneDialOneToken, TokensAreMinted
  <2> QED
    BY <1>u, <2>1, <2>2 DEF RendezvousInv, OneDialOneToken
<1>7. RouteIsOfActiveDevice' /\ ConfirmedHasRoute' /\ StoredIsExpected'
  BY <1>u DEF RendezvousInv, RouteIsOfActiveDevice, ConfirmedHasRoute, StoredIsExpected, Alone
<1> QED
  BY <1>1, <1>2, <1>3, <1>4, <1>5, <1>6, <1>7 DEF RendezvousInv

\* A revocation takes the route and the connector with it.
LEMMA RevokesKeeps ==
  ASSUME RendezvousInv, NEW p \in Phone, Revokes(p)
  PROVE  RendezvousInv'
<1>1. /\ registry' = [registry EXCEPT ![p].state = "revoked"]
      /\ route' = [route EXCEPT ![p] = None] /\ connector' = [connector EXCEPT ![p] = None]
      /\ UNCHANGED <<session, window, phone, confirmed, rdv, link, calls, stored>>
  BY DEF Revokes, Revoke
<1>2. /\ registry \in [Phone -> DeviceRecord] /\ route \in RouteMap /\ connector \in RouteMap
  BY DEF RendezvousInv, RendezvousTypes
<1>3. /\ registry' \in [Phone -> DeviceRecord] /\ registry'[p].state # "active"
      /\ \A q \in Phone \ {p} : registry'[q] = registry[q]
  BY <1>1, <1>2 DEF DeviceRecord
<1>4. /\ route' \in RouteMap /\ route'[p] = None
      /\ connector' \in RouteMap /\ connector'[p] = None
      /\ \A q \in Phone \ {p} : route'[q] = route[q] /\ connector'[q] = connector[q]
  BY <1>1, <1>2 DEF RouteMap
<1>5. RendezvousTypes'
  BY <1>1, <1>3, <1>4 DEF RendezvousInv, RendezvousTypes
<1>6. TokensAreMinted' /\ ClaimsAreProven' /\ ProofsFollowSeals'
  BY <1>1
  DEF RendezvousInv, TokensAreMinted, ClaimsAreProven, ProofsFollowSeals, Proven, Id
<1>7. IdsAreDialled'
  BY <1>1, <1>4 DEF RendezvousInv, IdsAreDialled, IsDial
<1>8. OneDialOneToken'
  BY <1>1 DEF RendezvousInv, OneDialOneToken
<1>9. RouteIsOfActiveDevice' /\ StoredIsExpected'
  BY <1>1, <1>3, <1>4 DEF RendezvousInv, RouteIsOfActiveDevice, StoredIsExpected
<1>10. ConfirmedHasRoute'
  <2>1. \A c \in confirmed : c.phone \in Phone
    BY DEF RendezvousInv, RendezvousTypes
  <2> QED
    BY <1>1, <1>3, <1>4, <2>1 DEF RendezvousInv, ConfirmedHasRoute, Alone
<1> QED
  BY <1>5, <1>6, <1>7, <1>8, <1>9, <1>10 DEF RendezvousInv

\* A phone that dialled once has one id.
LEMMA OneDialOneId ==
  ASSUME NEW p \in Phone, link[p].dials = 1, NEW a, NEW b, IsDial(p, a), IsDial(p, b)
  PROVE  a = b
  BY DEF IsDial

\* AddRoute: what is recorded for a device that is active, and what its connector, or
\* that of another device, expects then.
LEMMA RouteIsAdded ==
  ASSUME RendezvousInv, NEW p \in Phone, NEW id, IsDial(p, id),
         registry'[p].state = "active", \A q \in Phone \ {p} : registry'[q] = registry[q],
         AddRoute(registry', id)
  PROVE  /\ route' \in RouteMap /\ connector' \in RouteMap
         /\ route'[p] = id /\ connector'[p] # None /\ IsDial(p, connector'[p])
         /\ \A q \in Phone \ {p} : route'[q] = route[q] /\ connector'[q] = connector[q]
         /\ \A q \in Phone : route'[q] # None => registry'[q].state = "active"
                                                 /\ route'[q][1] = q
<1>t. route \in RouteMap /\ connector \in RouteMap
  BY DEF RendezvousInv, RendezvousTypes
<1>1. id \in RoutingId /\ id[1] = p /\ id # None
  BY DialNamesPhone DEF RendezvousInv
<1>2. /\ route' \in RouteMap /\ route'[p] = id
      /\ \A q \in Phone \ {p} : route'[q] = route[q]
  BY <1>t, <1>1 DEF AddRoute, RouteMap
<1>3. \A q \in Phone : connector'[q] =
        IF route'[q] = None \/ registry'[q].state # "active" THEN None
        ELSE IF connector[q] # None THEN connector[q] ELSE route'[q]
  BY DEF AddRoute, Synced
<1>4. \A q \in Phone \ {p} : connector'[q] = connector[q]
  <2> SUFFICES ASSUME NEW q \in Phone \ {p}
               PROVE  connector'[q] = connector[q]
    OBVIOUS
  <2>1. route[q] = None <=> connector[q] = None
    BY DEF RendezvousInv, IdsAreDialled
  <2>2. route[q] # None => registry[q].state = "active"
    BY DEF RendezvousInv, RouteIsOfActiveDevice
  <2> QED
    BY <1>2, <1>3, <2>1, <2>2
<1>5. connector'[p] # None /\ IsDial(p, connector'[p])
  BY <1>1, <1>2, <1>3 DEF RendezvousInv, IdsAreDialled
<1>6. connector' \in RouteMap
  <2>1. \A q \in Phone : connector'[q] \in RoutingId \cup {None}
    BY <1>t, <1>2, <1>3 DEF RouteMap
  <2>2. connector' = [q \in Phone |-> connector'[q]]
    BY DEF AddRoute, Synced
  <2> QED
    BY <2>1, <2>2 DEF RouteMap
<1>7. \A q \in Phone : route'[q] # None => registry'[q].state = "active" /\ route'[q][1] = q
  BY <1>1, <1>2 DEF RendezvousInv, RouteIsOfActiveDevice
<1> QED
  BY <1>2, <1>4, <1>5, <1>6, <1>7

\* provenClaim: the id of a dial that was made.
LEMMA FirstProof ==
  ASSUME RendezvousInv, NEW w \in Window, Proven(w) # {}
  PROVE  \E q \in Phone : IsDial(q, ProvenClaim(w)) /\ ProvenClaim(w)[1] = q
<1>1. Proven(w) \subseteq Nat
  <2>1. rdv[w].claimants \in Seq(Claimant)
    BY DEF RendezvousInv, RendezvousTypes, Listener
  <2> QED
    BY <2>1 DEF Proven
<1>2. \E i \in Proven(w) : \A j \in Proven(w) : i <= j
  <2> DEFINE R == {pair \in Nat \X Nat : pair[1] < pair[2]}
  <2>1. IsWellFoundedOn(R, Nat)
    BY NatLessThanWellFounded DEF OpToRel
  <2> HIDE DEF R
  <2>2. PICK i \in Proven(w) : \A j \in Proven(w) : ~ (<<j, i>> \in R)
    BY <1>1, <2>1, WFMin
  <2>3. \A j \in Proven(w) : ~ (j < i)
    BY <1>1, <2>2 DEF R
  <2> QED
    BY <1>1, <2>3
<1> DEFINE i == CHOOSE i \in Proven(w) : \A j \in Proven(w) : i <= j
<1>3. i \in Proven(w)
  BY <1>2
<1>4. ProvenClaim(w) = rdv[w].claimants[i].id
  BY DEF ProvenClaim
<1> HIDE DEF i
<1>5. \E q \in Phone : IsDial(q, rdv[w].claimants[i].id)
  BY <1>3 DEF RendezvousInv, IdsAreDialled, Proven
<1> QED
  BY <1>4, <1>5, DialNamesPhone DEF RendezvousInv

\* A confirmation registers the device and records the route of the first proven claimant.
LEMMA ConfirmKeeps ==
  ASSUME RendezvousInv, NEW w \in Window, Accepts(w), Confirmable
  PROVE  RendezvousInv'
<1> DEFINE p == session.pending
           d == [phone |-> p, token |-> session.token, at |-> w]
<1>t. /\ session \in SessionRecord /\ window \in [Window -> WindowRecord]
      /\ registry \in [Phone -> DeviceRecord] /\ rdv \in [Window -> Listener]
  BY DEF RendezvousInv, RendezvousTypes
<1>s. /\ p \in Phone /\ session.token \in Window
      /\ session.state = "awaiting-confirmation"
      /\ session' \in SessionRecord /\ session'.state = "completed"
      /\ session'.pending = p /\ session'.token = session.token
  <2>1. session' = [session EXCEPT !.state = "completed"]
    BY DEF Accepts, Accept
  <2> QED
    BY <1>t, <2>1
    DEF Confirmable, RendezvousInv, TokensAreMinted, SessionRecord, SessionState
<1>w. /\ window' \in [Window -> WindowRecord]
      /\ \A v \in Window \ {w} : window'[v] = window[v]
      /\ window[w].state = "open" /\ window'[w].state \in {"finished", "closed"}
  BY <1>t, WindowEnds DEF Accepts, Accept, Deciding
<1>g. /\ registry' \in [Phone -> DeviceRecord] /\ registry'[p].state = "active"
      /\ \A q \in Phone \ {p} : registry'[q] = registry[q]
  <2> DEFINE r == [state |-> "active", tier |-> window[w].tier, by |-> session.token]
  <2>1. registry' = [registry EXCEPT ![p] = r]
    BY DEF Accepts, Accept
  <2>2. r \in DeviceRecord /\ r.state = "active"
    BY <1>t DEF DeviceRecord, WindowRecord, Confirmable, RendezvousInv, TokensAreMinted,
                SessionRecord
  <2> HIDE DEF r
  <2> QED
    BY <1>s, <1>t, <2>1, <2>2
<1>u. /\ confirmed' = confirmed \cup {d} /\ rdv' = [rdv EXCEPT ![w].linger = TRUE]
      /\ UNCHANGED <<phone, link, calls, stored>>
  BY DEF Accepts, Accept
<1>d. d.phone = p /\ d.token = session.token /\ d.at = w
  OBVIOUS
<1>r. /\ rdv' \in [Window -> Listener]
      /\ \A v \in Window : /\ rdv'[v].claimants = rdv[v].claimants
                           /\ v # w => rdv'[v] = rdv[v]
  <2> DEFINE r == [rdv[w] EXCEPT !.linger = TRUE]
  <2>1. rdv' = [rdv EXCEPT ![w] = r]
    BY <1>t, <1>u
  <2>2. r \in Listener /\ r.claimants = rdv[w].claimants
    BY <1>t DEF Listener
  <2> HIDE DEF r
  <2> QED
    BY <1>t, <2>1, <2>2
<1>o. \A c \in confirmed : c.at \in Window \ {w} /\ c.token \in Window
  BY <1>w DEF RendezvousInv, RendezvousTypes, TokensAreMinted
<1>k. /\ route' \in RouteMap /\ connector' \in RouteMap
      /\ \A q \in Phone \ {p} : route'[q] = route[q] /\ connector'[q] = connector[q]
      /\ \/ route' = route /\ connector' = connector
         \/ IsDial(p, route'[p]) /\ connector'[p] # None /\ IsDial(p, connector'[p])
      /\ \A q \in Phone : route'[q] # None => registry'[q].state = "active" /\ route'[q][1] = q
      /\ session.token = w /\ (\A q \in Phone \ {p} : link[q].dials = 0) => route'[p] # None
  <2>1. RecordsRoute(w, p)
    BY DEF Accepts
  <2>2. CASE ProvenClaim(w)[1] = p /\ Proven(w) # {}
    <3>1. IsDial(p, ProvenClaim(w))
      BY <2>2, FirstProof
    <3>2. AddRoute(registry', ProvenClaim(w))
      BY <2>1, <2>2 DEF RecordsRoute
    <3>3. ProvenClaim(w) # None
      BY <1>s, <3>1, DialNamesPhone DEF RendezvousInv
    <3> HIDE DEF p
    <3> QED
      BY <1>s, <1>g, <3>1, <3>2, <3>3, RouteIsAdded
  <2>3. CASE ~ (ProvenClaim(w)[1] = p /\ Proven(w) # {})
    <3>1. ProvenClaim(w)[1] # p
      BY <1>s, <2>3, PairingAssumption DEF ProvenClaim
    <3>2. route' = route /\ connector' = connector
      BY <2>1, <3>1 DEF RecordsRoute
    <3>3. \A q \in Phone : route[q] # None => registry'[q].state = "active" /\ route[q][1] = q
      BY <1>g DEF RendezvousInv, RouteIsOfActiveDevice
    <3>4. ASSUME session.token = w, \A q \in Phone \ {p} : link[q].dials = 0
          PROVE  FALSE
      <4>1. Proven(w) # {}
        BY <1>s, <1>w, <3>4, PairingAssumption DEF RendezvousInv, ClaimsAreProven
      <4>2. PICK q \in Phone : IsDial(q, ProvenClaim(w)) /\ ProvenClaim(w)[1] = q
        BY <4>1, FirstProof
      <4>3. link[q].dials > 0
        BY <4>2, DialNamesPhone DEF RendezvousInv
      <4> QED
        BY <3>1, <3>4, <4>2, <4>3
    <3>5. route \in RouteMap /\ connector \in RouteMap
      BY DEF RendezvousInv, RendezvousTypes
    <3> QED
      BY <3>2, <3>3, <3>4, <3>5
  <2> QED
    BY <2>2, <2>3
<1> HIDE DEF d, p
<1>1. RendezvousTypes'
  <2>1. d \in [phone : Phone, token : Window, at : Window]
    BY <1>s DEF d
  <2> QED
    BY <1>s, <1>w, <1>g, <1>u, <1>r, <1>k, <2>1 DEF RendezvousInv, RendezvousTypes
<1>2. TokensAreMinted'
  <2>1. \A v \in Window : window[v].state # "unused" => window'[v].state # "unused"
    BY <1>w
  <2>2. window[session.token].state # "unused" /\ session.token # None
    BY <1>s, PairingAssumption DEF RendezvousInv, TokensAreMinted
  <2>3. \A c \in confirmed' : /\ window'[c.token].state # "unused"
                              /\ window'[c.at].state \in {"finished", "closed"}
    BY <1>s, <1>w, <1>u, <1>d, <1>o, <2>1, <2>2 DEF RendezvousInv, TokensAreMinted
  <2>4. /\ \A q \in Phone : phone[q].token # None => window'[phone[q].token].state # "unused"
        /\ \A c \in calls : window'[c.at].state # "unused"
    BY <2>1 DEF RendezvousInv, RendezvousTypes, TokensAreMinted, PhoneRecord, CallRecord
  <2>5. \E c \in confirmed' : c.phone = session'.pending /\ c.token = session'.token
    BY <1>s, <1>u, <1>d
  <2> QED
    BY <1>s, <1>u, <2>1, <2>2, <2>3, <2>4, <2>5 DEF TokensAreMinted
<1>3. IdsAreDialled'
  <2>1. \A q \in Phone : /\ route'[q] # None => IsDial(q, route'[q])
                         /\ connector'[q] # None => IsDial(q, connector'[q])
                         /\ route'[q] = None <=> connector'[q] = None
    <3>1. \A id : IsDial(p, id) => id # None
      BY <1>s, DialNamesPhone DEF RendezvousInv
    <3> QED
      BY <1>k, <3>1 DEF RendezvousInv, IdsAreDialled
  <2> QED
    BY <1>u, <1>r, <2>1 DEF RendezvousInv, IdsAreDialled, IsDial
<1>4. ProofsFollowSeals'
  BY <1>u, <1>r DEF RendezvousInv, ProofsFollowSeals, Id
<1>5. ClaimsAreProven'
  BY <1>s, <1>w, <1>u, <1>r DEF RendezvousInv, ClaimsAreProven, Proven, p
<1>6. OneDialOneToken'
  BY <1>s, <1>u DEF RendezvousInv, OneDialOneToken, p
<1>7. RouteIsOfActiveDevice'
  BY <1>k DEF RouteIsOfActiveDevice
<1>8. ConfirmedHasRoute'
  <2> SUFFICES ASSUME NEW c \in confirmed', Alone(c.at)', registry'[c.phone].state = "active",
                      \A q \in Phone \ {c.phone} : link[q].dials = 0
               PROVE  route'[c.phone] # None
    BY <1>u DEF ConfirmedHasRoute
  <2>1. c = d
    BY <1>w, <1>u, <1>o DEF Alone
  <2>2. session.token = w
    <3>1. window'[session.token].state # "unused"
      BY <1>s, <1>2, PairingAssumption DEF TokensAreMinted
    <3> QED
      BY <1>s, <1>d, <2>1, <3>1 DEF Alone
  <2> QED
    BY <1>d, <1>k, <2>1, <2>2
<1>9. StoredIsExpected'
  <2> SUFFICES ASSUME NEW q \in Phone, stored[q] # None, registry'[q].state = "active",
                      link[q].dials = 1
               PROVE  route'[q] = stored[q] /\ connector'[q] = stored[q]
    BY <1>u DEF StoredIsExpected
  <2>1. q # p
    <3>1. ASSUME q = p
          PROVE  FALSE
      <4>1. session.token = phone[q].token
        BY <3>1 DEF RendezvousInv, OneDialOneToken, p
      <4>2. \E e \in confirmed : e.phone = q /\ e.token = phone[q].token
        BY DEF RendezvousInv, OneDialOneToken
      <4> QED
        BY <1>s, <4>1, <4>2 DEF RendezvousInv, TokensAreMinted
    <3> QED
      BY <3>1
  <2> QED
    BY <1>g, <1>k, <2>1 DEF RendezvousInv, StoredIsExpected
<1> QED
  BY <1>1, <1>2, <1>3, <1>4, <1>5, <1>6, <1>7, <1>8, <1>9 DEF RendezvousInv

\* A paired reply assigns the route to the id that asked.
LEMMA AssigningKeeps ==
  ASSUME RendezvousInv, NEW c \in calls, Replies(c), Assigns(c)
  PROVE  RendezvousInv'
<1> DEFINE p == c.id[1]
<1>c. /\ c \in CallRecord /\ p \in Phone /\ c.at \in Window
      /\ c.reply = "paired" /\ registry[p].state = "active" /\ Reply(c) = "paired"
  BY DEF Assigns, Reply, RendezvousInv, RendezvousTypes, CallRecord, RoutingId
<1>u. /\ calls' \subseteq calls /\ AddRoute(registry', c.id)
      /\ UNCHANGED <<session, window, registry, confirmed>>
  BY DEF Replies
<1>i. IsDial(p, c.id)
  <2>1. PICK q \in Phone : IsDial(q, c.id)
    BY DEF RendezvousInv, IdsAreDialled
  <2>2. q = p
    BY <2>1, DialNamesPhone DEF RendezvousInv
  <2> QED
    BY <2>1, <2>2
<1>k. /\ route' \in RouteMap /\ connector' \in RouteMap
      /\ route'[p] = c.id /\ connector'[p] # None /\ IsDial(p, connector'[p])
      /\ \A q \in Phone \ {p} : route'[q] = route[q] /\ connector'[q] = connector[q]
      /\ \A q \in Phone : route'[q] # None => registry'[q].state = "active" /\ route'[q][1] = q
  BY <1>c, <1>u, <1>i, RouteIsAdded
<1>q. /\ QuietPhones /\ QuietListeners
      /\ \/ stored' = stored
         \/ stored' = [stored EXCEPT ![p] = c.id] /\ phone[p].token = c.at
  <2>1. CASE UNCHANGED <<phone, link, rdv, stored>>
    BY <2>1, StillPhones, StillListeners
  <2>2. CASE /\ Posting(p) /\ phone[p].token = c.at /\ Ends(p, "paired")
             /\ stored' = [stored EXCEPT ![p] = c.id]
    BY <1>c, <2>2, EndingIsQuiet DEF Ending, Outcome
  <2> QED
    BY <1>c, <2>1, <2>2 DEF Replies
<1>s. /\ stored' \in RouteMap
      /\ \A q \in Phone \ {p} : stored'[q] = stored[q]
      /\ \/ stored'[p] = stored[p]
         \/ stored'[p] = c.id /\ phone[p].token = c.at
  BY <1>q, <1>c DEF RendezvousInv, RendezvousTypes, RouteMap, CallRecord
<1>l. \A q \in Phone : link'[q].dials = link[q].dials /\ phone'[q].token = phone[q].token
  BY <1>q DEF QuietPhones
<1>n. c.id # None
  BY <1>c, <1>i, DialNamesPhone DEF RendezvousInv
<1> HIDE DEF p
<1>1. RendezvousTypes'
  <2>1. QuietPairing
    BY <1>u, StillPairing
  <2> QED
    BY <1>u, <1>k, <1>q, <1>s, <2>1
    DEF QuietPairing, QuietPhones, QuietListeners, RendezvousInv, RendezvousTypes
<1>2. TokensAreMinted' /\ ProofsFollowSeals' /\ ClaimsAreProven'
  BY <1>u, <1>q, StillPairing, QuietKeepsClaims
<1>3. IdsAreDialled'
  <2>1. \A q \in Phone : /\ route'[q] # None => IsDial(q, route'[q])
                         /\ connector'[q] # None => IsDial(q, connector'[q])
                         /\ stored'[q] # None => IsDial(q, stored'[q])
                         /\ route'[q] = None <=> connector'[q] = None
    BY <1>i, <1>k, <1>n, <1>s DEF RendezvousInv, IdsAreDialled
  <2>2. \A v \in Window : \A i \in DOMAIN rdv'[v].claimants :
          \E q \in Phone : IsDial(q, rdv'[v].claimants[i].id)
    BY <1>q DEF QuietListeners, QuietListener
  <2>3. \A e \in calls' : \E q \in Phone : IsDial(q, e.id)
    BY <1>u DEF RendezvousInv, IdsAreDialled
  <2> QED
    BY <1>l, <2>1, <2>2, <2>3 DEF IdsAreDialled, IsDial
<1>4. OneDialOneToken'
  <2>1. stored'[p] = c.id /\ phone[p].token = c.at =>
          \E d \in confirmed : d.phone = p /\ d.token = phone[p].token
    BY <1>c DEF RendezvousInv, OneDialOneToken, p
  <2> QED
    BY <1>u, <1>l, <1>s, <2>1 DEF RendezvousInv, OneDialOneToken
<1>5. RouteIsOfActiveDevice'
  BY <1>k DEF RouteIsOfActiveDevice
<1>6. ConfirmedHasRoute'
  <2>1. \A d \in confirmed : /\ d.phone \in Phone
                             /\ route[d.phone] # None => route'[d.phone] # None
    BY <1>k, <1>n DEF RendezvousInv, RendezvousTypes
  <2> QED
    BY <1>u, <1>l, <2>1 DEF RendezvousInv, ConfirmedHasRoute, Alone
<1>7. StoredIsExpected'
  <2> SUFFICES ASSUME NEW q \in Phone, stored'[q] # None, registry[q].state = "active",
                      link[q].dials = 1
               PROVE  route'[q] = stored'[q] /\ connector'[q] = stored'[q]
    BY <1>u, <1>l DEF StoredIsExpected
  <2>1. CASE q = p
    <3>1. IsDial(p, stored'[p])
      BY <1>i, <1>s, <2>1 DEF RendezvousInv, IdsAreDialled
    <3> QED
      BY <1>c, <1>i, <1>k, <2>1, <3>1, OneDialOneId DEF p
  <2>2. CASE q # p
    BY <1>k, <1>s, <2>2 DEF RendezvousInv, StoredIsExpected
  <2> QED
    BY <2>1, <2>2
<1> QED
  BY <1>1, <1>2, <1>3, <1>4, <1>5, <1>6, <1>7 DEF RendezvousInv

-----------------------------------------------------------------------------
\* No window, no dial, no route.
LEMMA RendezvousInitEstablishes == RendezvousInit => RendezvousInv
<1> SUFFICES ASSUME RendezvousInit
             PROVE  RendezvousInv
  OBVIOUS
<1>1. /\ session = noSession /\ confirmed = {} /\ calls = {}
      /\ window = [w \in Window |-> unopened] /\ registry = [p \in Phone |-> unknown]
      /\ phone = [p \in Phone |-> unpaired] /\ rdv = [w \in Window |-> idle]
      /\ link = [p \in Phone |-> undialled] /\ route = [p \in Phone |-> None]
      /\ connector = route /\ stored = route
  BY DEF RendezvousInit, PairingInit
<1>2. /\ noSession \in SessionRecord /\ unopened \in WindowRecord /\ unknown \in DeviceRecord
      /\ unpaired \in PhoneRecord /\ undialled \in LinkRecord
  BY DEF noSession, SessionRecord, SessionState, unopened, WindowRecord, WindowState,
         ShownPair, unknown, DeviceRecord, unpaired, PhoneRecord, undialled, LinkRecord
<1>3. idle \in Listener
  <2>1. <<>> \in Seq(Claimant)
    OBVIOUS
  <2> QED
    BY <2>1 DEF idle, Listener
<1>4. RendezvousTypes
  BY <1>1, <1>2, <1>3 DEF RendezvousTypes, RouteMap, unpaired, undialled
<1>5. TokensAreMinted
  BY <1>1 DEF TokensAreMinted, noSession, unpaired
<1>6. IdsAreDialled
  BY <1>1 DEF IdsAreDialled, idle
<1>7. ProofsFollowSeals /\ ClaimsAreProven
  BY <1>1, PairingAssumption DEF ProofsFollowSeals, ClaimsAreProven, idle, undialled, unopened
<1>8. OneDialOneToken
  BY <1>1, PairingAssumption DEF OneDialOneToken, noSession, undialled
<1>9. RouteIsOfActiveDevice /\ ConfirmedHasRoute /\ StoredIsExpected
  BY <1>1 DEF RouteIsOfActiveDevice, ConfirmedHasRoute, StoredIsExpected
<1> QED
  BY <1>4, <1>5, <1>6, <1>7, <1>8, <1>9 DEF RendezvousInv

\* All the steps of pairing over a relay.
LEMMA RendezvousStepKeeps ==
  ASSUME RendezvousInv, [RendezvousNext]_allVars
  PROVE  RendezvousInv'
<1>1. ASSUME NEW w \in Window, NEW tier \in Tier, OpensWindow(w, tier)
      PROVE  RendezvousInv'
  BY <1>1, OpensWindowKeeps
<1>2. ASSUME NEW w \in Window,
             \/ Registers(w) \/ StartFails(w) \/ Reports(w) \/ Accepts(w)
             \/ Declines(w) \/ Cancels(w) \/ LingerEnds(w) \/ SocketLost(w)
             \/ PeerOffline(w)
      PROVE  RendezvousInv'
  <2>1. CASE Accepts(w) /\ Confirmable
    BY <2>1, ConfirmKeeps
  <2>2. CASE \/ StartFails(w) \/ Reports(w) \/ Declines(w) \/ Cancels(w)
             \/ Accepts(w) /\ ~ Confirmable
    BY <2>2, OperatorIsQuiet, QuietKeeps
  <2>3. CASE Registers(w) \/ LingerEnds(w) \/ SocketLost(w) \/ PeerOffline(w)
    BY <2>3, RelayIsQuiet, QuietKeeps
  <2> QED
    BY <1>2, <2>1, <2>2, <2>3
<1>3. ASSUME NEW w \in Window, BadProof(w) \/ TokenElapses(w), UNCHANGED rdvVars
      PROVE  RendezvousInv'
  <2>1. QuietPairing
    BY <1>3, BadProofIsQuiet, StillPairing DEF TokenElapses
  <2>2. UNCHANGED <<phone, registry, confirmed, rdv, link, calls, route, connector, stored>>
    BY <1>3 DEF BadProof, TokenElapses, rdvVars
  <2>3. QuietStep
    BY <2>1, <2>2, StillPhones, StillListeners DEF QuietStep
  <2> QED
    BY <2>3, QuietKeeps
<1>4. ASSUME NEW p \in Phone, NEW w \in Window, Scans(p, w)
      PROVE  RendezvousInv'
  BY <1>4, ScansKeeps
<1>5. ASSUME NEW p \in Phone,
             HelloArrives(p) \/ SealArrives(p) \/ ClaimArrives(p) \/ Stops(p) \/ Revokes(p)
      PROVE  RendezvousInv'
  <2>1. CASE HelloArrives(p) \/ SealArrives(p) \/ Stops(p)
    BY <2>1, HelloIsQuiet, SealIsQuiet, StopsIsQuiet, QuietKeeps
  <2> QED
    BY <1>5, <2>1, ClaimArrivesKeeps, RevokesKeeps
<1>6. ASSUME NEW c \in calls, BackendAnswers(c) \/ Replies(c)
      PROVE  RendezvousInv'
  <2>1. CASE BackendAnswers(c)
    BY <2>1, BackendAnswersKeeps
  <2>2. CASE Replies(c)
    BY <2>2, AssigningKeeps, ReplyIsQuiet, QuietKeeps
  <2> QED
    BY <1>6, <2>1, <2>2
<1>7. CASE (DshReachability /\ UNCHANGED rdvVars) \/ UNCHANGED allVars
  <2>1. UNCHANGED <<session, window, phone, registry, confirmed, rdv, link, calls, route,
                    connector, stored>>
    BY <1>7 DEF DshReachability, allVars, pairingVars, rdvVars
  <2>2. QuietStep
    BY <2>1, StillPairing, StillPhones, StillListeners DEF QuietStep
  <2> QED
    BY <2>2, QuietKeeps
<1> QED
  BY <1>1, <1>2, <1>3, <1>4, <1>5, <1>6, <1>7 DEF RendezvousNext

\* The inductive invariant of the rendezvous holds in every behaviour.
LEMMA RendezvousInvHolds == RendezvousSpec => []RendezvousInv
<1>1. RendezvousInit => RendezvousInv
  BY RendezvousInitEstablishes
<1>2. RendezvousInv /\ [RendezvousNext]_allVars => RendezvousInv'
  BY RendezvousStepKeeps
<1> QED
  BY <1>1, <1>2, PTL DEF RendezvousSpec

\* A device that the operator confirmed through a relay can dial in, whatever races the
\* confirmation, and one that was revoked cannot: a route belongs to the active device
\* it names, and the only phone that dialled has one as soon as it is confirmed.
THEOREM RoutesAreInvited == RendezvousSpec => []RoutesFollowPairings
<1>1. RendezvousInv => RoutesFollowPairings
  BY DEF RendezvousInv, RoutesFollowPairings
<1> QED
  BY <1>1, RendezvousInvHolds, PTL

\* A phone that dialled once stores the very routing id under which the bridge expects
\* it, in its route and in its connector, as long as its device is active.
THEOREM StoredIdIsExpected == RendezvousSpec => []StoredIsExpected
<1>1. RendezvousInv => StoredIsExpected
  BY DEF RendezvousInv
<1> QED
  BY <1>1, RendezvousInvHolds, PTL
=============================================================================
