---------------------------- MODULE Phones_proofs ----------------------------
(***************************************************************************)
(* Theorems about the two things phones do with the hub: they answer what  *)
(* dsh asks (Respond) and they follow the stream (StreamResume), for any   *)
(* number of calls, obligations, sessions and sockets, every retention     *)
(* limit, and any number of lost connections, of restarts of dsh and of    *)
(* restarts of the bridge.  The two specifications share the hub's         *)
(* variables and nothing else.                                             *)
(*                                                                         *)
(* The calls for one obligation queue up behind one another; the queue is  *)
(* nowhere in the program, which only knows the last call of each chain.   *)
(* The invariant therefore says that there is an order of the calls under  *)
(* which every unfinished call stands right behind another one, unless no  *)
(* unfinished call is before it.  What the replies claim is settled by     *)
(* what dsh still waits for: everything it waits for is pending, or on the *)
(* wire, or was asked before its generation was ready.                     *)
(*                                                                         *)
(* What is sent on a socket is aligned with the history: the delta ends    *)
(* where the hello says, and the live frames go on from there.  Hence the  *)
(* number of items read says how far in the history the phone is, which    *)
(* its cursor, that runs ahead while a delta is read, does not.  Up to     *)
(* that place the phone accounts for every frame and every restart, or a   *)
(* resync that will is under way.                                          *)
(***************************************************************************)
EXTENDS Respond, StreamResume, StreamHub_proofs

-----------------------------------------------------------------------------
\* dsh's side: what it asked for, and what is on its way to the hub.

WireFrame == {Requested(r) : r \in Rpc} \cup {Resolved(r) : r \in Rpc}
Asks(w, r) == \E i \in DOMAIN w : w[i] = Requested(r)
Ends(w, r) == \E i \in DOMAIN w : w[i] = Resolved(r)
AsksOnce(w) == \A i, j \in DOMAIN w : \A r \in Rpc :
                 w[i] = Requested(r) /\ w[j] = Requested(r) => i = j

DshInv ==
  /\ wire \in Seq(WireFrame) /\ AsksOnce(wire)
  /\ everAsked \subseteq Rpc /\ asked \subseteq everAsked /\ Shown \subseteq everAsked
  /\ \A r \in Rpc : Asks(wire, r) => r \in everAsked /\ r \notin Shown
  /\ \A r \in Rpc : Ends(wire, r) => r \in everAsked /\ r \notin asked
  /\ ~ dshReady => asked \subseteq early
  /\ \A r \in asked \ early : r \in pending \/ Asks(wire, r)

\* dsh sends a frame.
LEMMA WireGrows ==
  ASSUME NEW w \in Seq(WireFrame), NEW x \in WireFrame
  PROVE  /\ Append(w, x) \in Seq(WireFrame)
         /\ \A r : Asks(Append(w, x), r) <=> Asks(w, r) \/ x = Requested(r)
         /\ \A r : Ends(Append(w, x), r) <=> Ends(w, r) \/ x = Resolved(r)
         /\ AsksOnce(w) /\ (\A r \in Rpc : x = Requested(r) => ~ Asks(w, r))
              => AsksOnce(Append(w, x))
<1> DEFINE v == Append(w, x)
           n == Len(w)
<1>1. /\ n \in Nat /\ DOMAIN w = 1 .. n /\ v \in Seq(WireFrame) /\ DOMAIN v = 1 .. n + 1
      /\ \A i \in 1 .. n : v[i] = w[i]
      /\ v[n + 1] = x
  BY LenProperties, AppendProperties
<1> HIDE DEF v, n
<1>2. /\ \A r : Asks(v, r) <=> Asks(w, r) \/ x = Requested(r)
      /\ \A r : Ends(v, r) <=> Ends(w, r) \/ x = Resolved(r)
  BY <1>1 DEF Asks, Ends
<1>3. ASSUME AsksOnce(w), \A r \in Rpc : x = Requested(r) => ~ Asks(w, r)
      PROVE  AsksOnce(v)
  <2> SUFFICES ASSUME NEW i \in DOMAIN v, NEW j \in DOMAIN v, NEW r \in Rpc,
                      v[i] = Requested(r), v[j] = Requested(r)
               PROVE  i = j
    BY DEF AsksOnce
  <2>1. CASE i \in 1 .. n /\ j \in 1 .. n
    BY <1>1, <1>3, <2>1 DEF AsksOnce
  <2>2. CASE i \in 1 .. n /\ j = n + 1
    BY <1>1, <1>3, <2>2 DEF Asks
  <2>3. CASE i = n + 1 /\ j \in 1 .. n
    BY <1>1, <1>3, <2>3 DEF Asks
  <2> QED
    BY <1>1, <2>1, <2>2, <2>3
<1> QED
  BY <1>1, <1>2, <1>3 DEF v

\* The bridge takes a frame.
LEMMA WireShrinks ==
  ASSUME NEW w \in Seq(WireFrame), w # <<>>
  PROVE  /\ Head(w) \in WireFrame /\ Tail(w) \in Seq(WireFrame)
         /\ \A r : Asks(w, r) <=> Asks(Tail(w), r) \/ Head(w) = Requested(r)
         /\ \A r : Ends(Tail(w), r) \/ Head(w) = Resolved(r) => Ends(w, r)
         /\ AsksOnce(w) => /\ AsksOnce(Tail(w))
                           /\ \A r \in Rpc : Head(w) = Requested(r) => ~ Asks(Tail(w), r)
<1> DEFINE t == Tail(w)
           n == Len(w)
<1>1. /\ n \in Nat /\ n >= 1 /\ DOMAIN w = 1 .. n
      /\ Head(w) = w[1] /\ Head(w) \in WireFrame
      /\ t \in Seq(WireFrame) /\ DOMAIN t = 1 .. n - 1
      /\ \A i \in 1 .. n - 1 : t[i] = w[i + 1]
  BY LenProperties, HeadTailProperties, EmptySeq
<1> HIDE DEF t, n
<1>2. \A i \in 1 .. n - 1 : i + 1 \in 1 .. n
  BY <1>1
<1>3. \A i \in 1 .. n : i = 1 \/ (i - 1 \in 1 .. n - 1 /\ (i - 1) + 1 = i)
  BY <1>1
<1>4. 1 \in 1 .. n
  BY <1>1
<1>5. \A r : Asks(w, r) <=> Asks(t, r) \/ Head(w) = Requested(r)
  <2> TAKE r
  <2>1. ASSUME Asks(w, r)
        PROVE  Asks(t, r) \/ Head(w) = Requested(r)
    <3>1. PICK i \in 1 .. n : w[i] = Requested(r)
      BY <1>1, <2>1 DEF Asks
    <3>2. CASE i = 1
      BY <1>1, <3>1, <3>2
    <3>3. CASE i # 1
      <4>1. i - 1 \in DOMAIN t /\ t[i - 1] = w[i]
        BY <1>1, <1>3, <3>3
      <4> QED
        BY <3>1, <4>1 DEF Asks
    <3> QED
      BY <3>2, <3>3
  <2>2. ASSUME Asks(t, r) \/ Head(w) = Requested(r)
        PROVE  Asks(w, r)
    BY <1>1, <1>2, <1>4, <2>2 DEF Asks
  <2> QED
    BY <2>1, <2>2
<1>6. \A r : Ends(t, r) \/ Head(w) = Resolved(r) => Ends(w, r)
  BY <1>1, <1>2, <1>4 DEF Ends
<1>7. ASSUME AsksOnce(w)
      PROVE  AsksOnce(t) /\ \A r \in Rpc : Head(w) = Requested(r) => ~ Asks(t, r)
  <2>1. ASSUME NEW i \in DOMAIN t, NEW j \in DOMAIN t, NEW r \in Rpc,
               t[i] = Requested(r), t[j] = Requested(r)
        PROVE  i = j
    <3>1. i + 1 \in DOMAIN w /\ j + 1 \in DOMAIN w /\ w[i + 1] = t[i] /\ w[j + 1] = t[j]
      BY <1>1, <1>2
    <3>2. i + 1 = j + 1
      BY <1>7, <2>1, <3>1 DEF AsksOnce
    <3> QED
      BY <1>1, <3>2
  <2>2. ASSUME NEW r \in Rpc, Head(w) = Requested(r), NEW i \in DOMAIN t, t[i] = Requested(r)
        PROVE  FALSE
    <3>1. i + 1 \in DOMAIN w /\ w[i + 1] = Requested(r) /\ 1 \in DOMAIN w
      BY <1>1, <1>2, <1>4, <2>2
    <3>2. i + 1 = 1
      BY <1>1, <1>7, <2>2, <3>1 DEF AsksOnce
    <3> QED
      BY <1>1, <3>2
  <2> QED
    BY <2>1, <2>2 DEF AsksOnce, Asks
<1> QED
  BY <1>1, <1>5, <1>6, <1>7 DEF t

-----------------------------------------------------------------------------
\* What the handler and dsh need to know of a step of the hub.

\* A phone has been shown what the log holds, and the log only grows.
LEMMA ShownGrows ==
  ASSUME HubTypes, NEW fs, Grows(fs)
  PROVE  Shown' = Shown \cup {r \in Rpc : \E i \in 1 .. Len(fs) : fs[i] = Requested(r)}
<1> DEFINE m == Len(log)
           n == Len(fs)
<1>1. /\ m \in Nat /\ n \in Nat /\ Len(log') = m + n
      /\ \A i \in 1 .. m + n : log'[i] = IF i <= m THEN log[i] ELSE fs[i - m]
  BY ConcatProperties, LenProperties DEF HubTypes, Grows
<1> HIDE DEF m, n
<1>2. ASSUME NEW r \in Rpc, NEW i \in 1 .. m + n, log'[i] = Requested(r)
      PROVE  (\E j \in 1 .. m : log[j] = Requested(r)) \/ \E j \in 1 .. n : fs[j] = Requested(r)
  <2>1. CASE i <= m
    BY <1>1, <1>2, <2>1
  <2>2. CASE ~ (i <= m)
    <3>1. i - m \in 1 .. n /\ fs[i - m] = Requested(r)
      BY <1>1, <1>2, <2>2
    <3> QED
      BY <3>1
  <2> QED
    BY <2>1, <2>2
<1>3. ASSUME NEW j \in 1 .. m
      PROVE  j \in 1 .. m + n /\ log'[j] = log[j]
  BY <1>1
<1>4. ASSUME NEW j \in 1 .. n
      PROVE  m + j \in 1 .. m + n /\ log'[m + j] = fs[j]
  <2>1. m + j \in 1 .. m + n /\ ~ (m + j <= m) /\ (m + j) - m = j
    BY <1>1
  <2> QED
    BY <1>1, <2>1
<1>5. Shown = {r \in Rpc : \E j \in 1 .. m : log[j] = Requested(r)}
  BY DEF Shown, Index, m
<1>6. Shown' = {r \in Rpc : \E i \in 1 .. m + n : log'[i] = Requested(r)}
  BY <1>1 DEF Shown, Index, m
<1>7. \A r \in Rpc : (\E i \in 1 .. m + n : log'[i] = Requested(r)) <=>
                       \/ \E j \in 1 .. m : log[j] = Requested(r)
                       \/ \E j \in 1 .. n : fs[j] = Requested(r)
  BY <1>2, <1>3, <1>4
<1> QED
  BY <1>5, <1>6, <1>7 DEF n

\* hub.ts, ingestMux, for the frames of one obligation.
LEMMA PumpedFrame ==
  ASSUME HubInv, NEW f \in WireFrame, IngestMux(f)
  PROVE  /\ HubInv' /\ dshReady' = dshReady
         /\ Shown' = Shown \cup {r \in Rpc : f = Requested(r)}
         /\ \A q \in Rpc : f = Requested(q) => pending' = pending \cup {q}
         /\ \A q \in Rpc : f = Resolved(q) =>
              pending' \subseteq pending /\ pending \ {q} \subseteq pending'
<1>1. f \in MuxFrame
  BY DEF WireFrame, MuxFrame
<1>2. HubInv'
  BY <1>1, CallsKeepInv DEF HubCall
<1>3. Publish(f) /\ dshReady' = dshReady
  BY DEF IngestMux
<1>4. Grows(<<f>>)
  BY <1>1, <1>3, FramesArePublished, PublishGrows DEF HubInv
<1>5. Shown' = Shown \cup {r \in Rpc : f = Requested(r)}
  <2>1. Shown' = Shown \cup {r \in Rpc : \E i \in 1 .. Len(<<f>>) : <<f>>[i] = Requested(r)}
    BY <1>4, ShownGrows DEF HubInv
  <2>2. 1 \in 1 .. Len(<<f>>) /\ \A i \in 1 .. Len(<<f>>) : <<f>>[i] = f
    OBVIOUS
  <2> QED
    BY <2>1, <2>2
<1>6. ASSUME NEW q \in Rpc, f = Requested(q)
      PROVE  pending' = pending \cup {q}
  <2>1. f.rpc = q /\ f.type \in {"approval/requested", "question/requested"}
    BY <1>6 DEF Requested
  <2> QED
    BY <2>1 DEF IngestMux, Answerable, RecordPending
<1>7. ASSUME NEW q \in Rpc, f = Resolved(q)
      PROVE  pending' \subseteq pending /\ pending \ {q} \subseteq pending'
  <2>1. f.rpc = q /\ f.type \in {"approval/resolved", "question/resolved"}
    BY <1>7 DEF Resolved
  <2> QED
    BY <2>1 DEF IngestMux, Answerable, ResolvePending
<1> QED
  BY <1>2, <1>3, <1>5, <1>6, <1>7

\* hub.ts, onDshReady and onDshDisconnected: nothing is asked and nothing is opened.
LEMMA LifecycleFrames ==
  ASSUME HubInv, OnDshReady \/ OnDshDisconnected
  PROVE  /\ HubInv' /\ Shown' = Shown /\ pending' \subseteq pending
         /\ OnDshReady => dshReady' = TRUE
         /\ OnDshDisconnected => pending' = pending /\ dshReady' = FALSE
<1>1. HubInv'
  BY CallsKeepInv DEF HubCall
<1>2. \A g : Plain(DshReadyFrame(g))
  BY OthersArePlain
<1>3. PICK fs : Grows(fs) /\ \A i \in 1 .. Len(fs) : \A r : fs[i] # Requested(r)
  <2>1. CASE OnDshReady /\ generation > 0
    <3> DEFINE fs == <<DshRestarted, DshReadyFrame(generation + 1)>>
    <3>1. Grows(fs)
      BY <2>1, RestartGrows DEF HubInv
    <3>2. \A i \in 1 .. Len(fs) : fs[i] = DshRestarted \/ fs[i] = DshReadyFrame(generation + 1)
      OBVIOUS
    <3> HIDE DEF fs
    <3>3. \A i \in 1 .. Len(fs) : \A r : fs[i] # Requested(r)
      BY <1>2, <3>2, RequestsDiffer DEF Plain
    <3> QED
      BY <3>1, <3>3
  <2>2. ASSUME NEW f \in Published, Plain(f), Publish(f)
        PROVE  \E fs : Grows(fs) /\ \A i \in 1 .. Len(fs) : \A r : fs[i] # Requested(r)
    <3>1. Grows(<<f>>)
      BY <2>2, PublishGrows DEF HubInv
    <3>2. \A i \in 1 .. Len(<<f>>) : <<f>>[i] = f
      OBVIOUS
    <3>3. \A i \in 1 .. Len(<<f>>) : \A r : <<f>>[i] # Requested(r)
      BY <2>2, <3>2 DEF Plain
    <3> QED
      BY <3>1, <3>3
  <2>3. CASE OnDshReady /\ ~ (generation > 0)
    BY <2>2, <2>3, <1>2, FramesArePublished DEF OnDshReady
  <2>4. CASE OnDshDisconnected
    BY <2>2, <2>4, FramesArePublished, OthersArePlain DEF OnDshDisconnected
  <2> QED
    BY <2>1, <2>3, <2>4
<1>4. Shown' = Shown
  BY <1>3, ShownGrows DEF HubInv
<1> QED
  BY <1>1, <1>4 DEF OnDshReady, OnDshDisconnected, ClearPending

\* consumePending takes one obligation from the hub.
LEMMA ConsumedAnswer ==
  ASSUME HubInv, NEW r, ConsumePending(r)
  PROVE  /\ HubInv' /\ Shown' = Shown /\ pending' = pending \ {r} /\ dshReady' = dshReady
<1>1. HubInv'
  BY CallsKeepInv DEF HubCall
<1> QED
  BY <1>1 DEF ConsumePending, DropPending, Shown, Index

\* Steps that leave the hub alone.
LEMMA HubUntouched ==
  ASSUME HubInv, UNCHANGED hubVars
  PROVE  /\ HubInv' /\ Shown' = Shown /\ pending' = pending /\ dshReady' = dshReady
<1>1. HubInv'
  BY StutterKeepsInv
<1> QED
  BY <1>1 DEF hubVars, Shown, Index
-----------------------------------------------------------------------------
\* The bridge's side: the calls.

CallState == {"new", "chained", "asking", "broken", "accepted", "rejected",
              "already-resolved", "done"}
Reply == {"none", "already-resolved", "bad-request", "dsh-unavailable", "dsh-error",
          "accepted", "rejected"}
CallRecord == [state : CallState, rpc : Rpc \cup {NoCall}, after : Call \cup {NoCall},
               reply : Reply]

CallTypes ==
  /\ call \in [Call -> CallRecord]
  /\ \A r \in DOMAIN respondChains : \E t \in Call : respondChains[r] = Stored(t)

\* A reply is final, was given to a call about something a phone was shown, and is true:
\* S is what phones were shown, A what dsh waits for, L those of A that it asked of a ready
\* bridge, and P what is pending.
Sound(x, S, A, L, P) ==
  /\ x.state # "new" => x.rpc \in S
  /\ x.reply # "none" => x.state = "done"
  /\ x.state = "accepted" => x.rpc \notin A
  /\ "already-resolved" \in {x.state, x.reply} => x.rpc \notin L
  /\ x.reply = "accepted" => x.rpc \notin P
InFlightState == {"asking", "broken"} \cup Receipts
Compatible(x, y) == x.reply = "accepted" /\ y.state \in InFlightState => x.rpc # y.rpc

RepliesInv ==
  /\ \A c \in Call : Sound(call[c], Shown, asked, asked \ early, pending)
  /\ \A c, d \in Call : Compatible(call[c], call[d])

\* The order of the calls, over values: k holds the calls and h the last call of each
\* chain.
OpenState == {"chained", "asking", "broken"} \cup Receipts
Unfinished(k, c) == k[c].state \in OpenState
SameRpc(k, c, d) == k[c].rpc = k[d].rpc

\* The last call of c's chain is known, unfinished as long as c is, and not before it.
KnowsLast(pos, k, h, c) ==
  /\ k[c].rpc \in DOMAIN h
  /\ h[k[c].rpc].call \in Call
  /\ SameRpc(k, c, h[k[c].rpc].call)
  /\ Unfinished(k, h[k[c].rpc].call)
  /\ pos[c] <= pos[h[k[c].rpc].call]
\* c is chained behind an unfinished call that is not before d.
StandsBehind(pos, k, c, d) ==
  /\ k[c].state = "chained"
  /\ k[c].after \in Call
  /\ Unfinished(k, k[c].after) /\ SameRpc(k, c, k[c].after)
  /\ pos[d] <= pos[k[c].after] /\ pos[k[c].after] < pos[c]
\* pos orders the calls for each obligation as they were chained.
Ordered(pos, k, h) ==
  /\ \A c \in Call : Unfinished(k, c) => KnowsLast(pos, k, h, c)
  /\ \A c, d \in Call : Unfinished(k, c) /\ Unfinished(k, d) /\ SameRpc(k, c, d) /\ c # d =>
       pos[c] # pos[d] /\ (pos[d] < pos[c] => StandsBehind(pos, k, c, d))
OrderInv == \E pos \in [Call -> Nat] : Ordered(pos, call, respondChains)

\* No unfinished call for the same obligation was chained before c.
First(pos, k, c) ==
  \A d \in Call : Unfinished(k, d) /\ SameRpc(k, c, d) /\ c # d => pos[c] < pos[d]

\* The call whose turn it is, or that had it, is the first (handleRespond, `await previous`).
LEMMA ItsTurnIsFirst ==
  ASSUME NEW pos \in [Call -> Nat], NEW k, NEW h, Ordered(pos, k, h), NEW c \in Call,
         Unfinished(k, c),
         k[c].state # "chained" \/ (k[c].after # NoCall => k[k[c].after].state = "done")
  PROVE  First(pos, k, c)
<1> SUFFICES ASSUME NEW d \in Call, Unfinished(k, d), SameRpc(k, c, d), c # d,
                    ~ (pos[c] < pos[d])
             PROVE  FALSE
  BY DEF First
<1>1. pos[c] # pos[d] /\ (pos[d] < pos[c] => StandsBehind(pos, k, c, d))
  BY DEF Ordered
<1>2. pos[c] \in Nat /\ pos[d] \in Nat
  OBVIOUS
<1>3. StandsBehind(pos, k, c, d)
  BY <1>1, <1>2
<1> QED
  BY <1>3, RespondAssumption DEF StandsBehind, Unfinished, OpenState, Receipts

\* Calls may advance where they stand: from chained to asking if no other is before
\* them, and along the states of a request.
LEMMA AdvanceKeepsOrder ==
  ASSUME NEW pos \in [Call -> Nat], NEW k, NEW h, Ordered(pos, k, h), NEW l,
         \A c \in Call : /\ l[c].rpc = k[c].rpc /\ l[c].after = k[c].after
                         /\ Unfinished(l, c) <=> Unfinished(k, c)
                         /\ k[c].state = "chained" /\ l[c].state # "chained" => First(pos, k, c)
  PROVE  Ordered(pos, l, h)
<1>1. \A c, d \in Call : SameRpc(l, c, d) <=> SameRpc(k, c, d)
  BY DEF SameRpc
<1>2. ASSUME NEW c \in Call, Unfinished(l, c)
      PROVE  KnowsLast(pos, l, h, c)
  BY <1>1, <1>2 DEF Ordered, KnowsLast
<1>3. ASSUME NEW c \in Call, NEW d \in Call, Unfinished(l, c), Unfinished(l, d),
             SameRpc(l, c, d), c # d
      PROVE  pos[c] # pos[d] /\ (pos[d] < pos[c] => StandsBehind(pos, l, c, d))
  <2>1. Unfinished(k, c) /\ Unfinished(k, d) /\ SameRpc(k, c, d)
    BY <1>1, <1>3
  <2>2. pos[c] # pos[d] /\ (pos[d] < pos[c] => StandsBehind(pos, k, c, d))
    BY <1>3, <2>1 DEF Ordered
  <2>3. pos[c] \in Nat /\ pos[d] \in Nat
    OBVIOUS
  <2>4. ASSUME pos[d] < pos[c]
        PROVE  StandsBehind(pos, l, c, d)
    <3>1. ~ First(pos, k, c)
      BY <1>3, <2>1, <2>3, <2>4 DEF First
    <3> QED
      BY <1>1, <2>2, <2>4, <3>1 DEF StandsBehind
  <2> QED
    BY <2>2, <2>4
<1> QED
  BY <1>2, <1>3 DEF Ordered

\* The first unfinished call may finish: the one behind it becomes the first.
LEMMA FinishKeepsOrder ==
  ASSUME NEW pos \in [Call -> Nat], NEW k, NEW h, Ordered(pos, k, h), NEW l,
         NEW e \in Call, Unfinished(k, e), First(pos, k, e), ~ Unfinished(l, e),
         \A c \in Call \ {e} : l[c] = k[c],
         l[e].rpc = k[e].rpc
  PROVE  Ordered(pos, l, h)
<1>1. \A c, d \in Call : SameRpc(l, c, d) <=> SameRpc(k, c, d)
  BY DEF SameRpc
<1>2. \A c \in Call : Unfinished(l, c) <=> Unfinished(k, c) /\ c # e
  BY DEF Unfinished
<1>3. \A c \in Call : pos[c] \in Nat
  OBVIOUS
<1>4. ASSUME NEW c \in Call, Unfinished(l, c)
      PROVE  KnowsLast(pos, l, h, c)
  <2>1. Unfinished(k, c) /\ c # e /\ l[c] = k[c]
    BY <1>2, <1>4
  <2>2. KnowsLast(pos, k, h, c)
    BY <2>1 DEF Ordered
  <2>3. SameRpc(k, e, c) => pos[e] < pos[c]
    BY <2>1 DEF First
  <2>4. h[k[c].rpc].call # e
    BY <1>3, <2>2, <2>3 DEF KnowsLast, SameRpc
  <2> QED
    BY <1>1, <1>2, <2>1, <2>2, <2>4 DEF KnowsLast
<1>5. ASSUME NEW c \in Call, NEW d \in Call, Unfinished(l, c), Unfinished(l, d),
             SameRpc(l, c, d), c # d
      PROVE  pos[c] # pos[d] /\ (pos[d] < pos[c] => StandsBehind(pos, l, c, d))
  <2>1. /\ Unfinished(k, c) /\ Unfinished(k, d) /\ SameRpc(k, c, d) /\ c # e /\ d # e
        /\ l[c] = k[c]
    BY <1>1, <1>2, <1>5
  <2>2. pos[c] # pos[d] /\ (pos[d] < pos[c] => StandsBehind(pos, k, c, d))
    BY <1>5, <2>1 DEF Ordered
  <2>3. ASSUME pos[d] < pos[c]
        PROVE  StandsBehind(pos, l, c, d)
    <3>1. SameRpc(k, e, d) => pos[e] < pos[d]
      BY <2>1 DEF First
    <3>2. k[c].after # e
      BY <1>3, <2>1, <2>2, <2>3, <3>1 DEF StandsBehind, SameRpc
    <3> QED
      BY <1>1, <1>2, <2>1, <2>2, <2>3, <3>2 DEF StandsBehind
  <2> QED
    BY <2>2, <2>3
<1> QED
  BY <1>4, <1>5 DEF Ordered

\* A call that is chained stands behind all others for its obligation (handleRespond,
\* where the chain is prolonged).
Prolonged(k, h, l, g, e, r) ==
  /\ ~ Unfinished(k, e)
  /\ \A c \in Call \ {e} : l[c] = k[c]
  /\ l[e].state = "chained" /\ l[e].rpc = r
  /\ l[e].after = IF r \in DOMAIN h THEN h[r].call ELSE NoCall
  /\ r \in DOMAIN h => h[r].call \in Call
  /\ r \in DOMAIN g /\ g[r].call = e
  /\ \A q \in DOMAIN h : q # r => q \in DOMAIN g /\ g[q] = h[q]

\* A call that is chained takes the last place of the order.
LEMMA ChainKeepsOrder ==
  ASSUME NEW pos \in [Call -> Nat], NEW k, NEW h, Ordered(pos, k, h), NEW l, NEW g,
         NEW e \in Call, NEW r, Prolonged(k, h, l, g, e, r)
  PROVE  \E place \in [Call -> Nat] : Ordered(place, l, g)
<1> USE DEF Prolonged
<1> DEFINE t == h[r].call
           place == [pos EXCEPT ![e] = IF r \in DOMAIN h THEN pos[t] + 1 ELSE 0]
<1>1. /\ place \in [Call -> Nat]
      /\ place[e] = IF r \in DOMAIN h THEN pos[t] + 1 ELSE 0
      /\ \A c \in Call \ {e} : place[c] = pos[c]
      /\ \A c \in Call : pos[c] \in Nat
  OBVIOUS
<1> HIDE DEF place
<1>2. \A c \in Call : Unfinished(l, c) <=> Unfinished(k, c) \/ c = e
  BY DEF Unfinished, OpenState
<1>3. \A c, d \in Call \ {e} : SameRpc(l, c, d) <=> SameRpc(k, c, d)
  BY DEF SameRpc
\* Whoever is unfinished for r is before e, and then so is the last of the chain.
<1>4. ASSUME NEW c \in Call \ {e}, Unfinished(k, c), k[c].rpc = r
      PROVE  /\ r \in DOMAIN h /\ t \in Call \ {e} /\ Unfinished(k, t) /\ k[t].rpc = r
             /\ place[c] <= place[t] /\ place[t] < place[e]
  <2>1. KnowsLast(pos, k, h, c)
    BY <1>4 DEF Ordered
  <2>2. /\ r \in DOMAIN h /\ t \in Call \ {e} /\ Unfinished(k, t) /\ k[t].rpc = r
        /\ pos[c] <= pos[t]
    BY <1>4, <2>1 DEF KnowsLast, SameRpc
  <2> HIDE DEF t
  <2> QED
    BY <1>1, <1>4, <2>2
<1>5. ASSUME NEW c \in Call, Unfinished(l, c)
      PROVE  KnowsLast(place, l, g, c)
  <2>1. CASE c = e
    BY <1>1, <1>5, <2>1 DEF KnowsLast, SameRpc
  <2>2. CASE c # e /\ k[c].rpc = r
    <3>1. Unfinished(k, c) /\ l[c].rpc = r
      BY <1>2, <1>5, <2>2
    <3>2. place[c] <= place[e]
      BY <1>1, <1>4, <2>2, <3>1
    <3>3. Unfinished(l, e)
      BY <1>2
    <3> QED
      BY <2>2, <3>1, <3>2, <3>3 DEF KnowsLast, SameRpc
  <2>3. CASE c # e /\ k[c].rpc # r
    <3>1. KnowsLast(pos, k, h, c) /\ l[c] = k[c]
      BY <1>2, <1>5, <2>3 DEF Ordered
    <3>2. h[k[c].rpc].call # e
      BY <3>1 DEF KnowsLast
    <3>3. k[c].rpc \in DOMAIN g /\ g[k[c].rpc] = h[k[c].rpc]
      BY <2>3, <3>1 DEF KnowsLast
    <3> QED
      BY <1>1, <1>2, <1>3, <2>3, <3>1, <3>2, <3>3 DEF KnowsLast
  <2> QED
    BY <2>1, <2>2, <2>3
<1>6. ASSUME NEW c \in Call, NEW d \in Call, Unfinished(l, c), Unfinished(l, d),
             SameRpc(l, c, d), c # d
      PROVE  place[c] # place[d] /\ (place[d] < place[c] => StandsBehind(place, l, c, d))
  <2>1. CASE c # e /\ d # e
    <3>1. Unfinished(k, c) /\ Unfinished(k, d) /\ SameRpc(k, c, d) /\ l[c] = k[c]
      BY <1>2, <1>3, <1>6, <2>1
    <3>2. pos[c] # pos[d] /\ (pos[d] < pos[c] => StandsBehind(pos, k, c, d))
      BY <1>6, <3>1 DEF Ordered
    <3>3. ASSUME pos[d] < pos[c]
          PROVE  StandsBehind(place, l, c, d)
      <4>1. k[c].after # e
        BY <3>2, <3>3 DEF StandsBehind
      <4> QED
        BY <1>1, <1>2, <1>3, <2>1, <3>1, <3>2, <3>3, <4>1 DEF StandsBehind
    <3> QED
      BY <1>1, <2>1, <3>2, <3>3
  <2>2. CASE c = e
    <3>1. d \in Call \ {e} /\ Unfinished(k, d) /\ k[d].rpc = r
      BY <1>2, <1>6, <2>2 DEF SameRpc
    <3>2. /\ r \in DOMAIN h /\ t \in Call \ {e} /\ Unfinished(k, t) /\ k[t].rpc = r
          /\ place[d] <= place[t] /\ place[t] < place[e]
      BY <1>4, <3>1
    <3>3. place[d] < place[e] /\ l[e].after = t /\ l[t] = k[t]
      BY <1>1, <3>1, <3>2
    <3> HIDE DEF t
    <3>4. StandsBehind(place, l, c, d)
      BY <1>2, <2>2, <3>2, <3>3 DEF StandsBehind, SameRpc
    <3>5. place[c] \in Nat /\ place[d] \in Nat
      BY <1>1
    <3> QED
      BY <2>2, <3>3, <3>4, <3>5
  <2>3. CASE d = e
    <3>1. c \in Call \ {e} /\ Unfinished(k, c) /\ k[c].rpc = r
      BY <1>2, <1>6, <2>3 DEF SameRpc
    <3>2. place[c] <= place[t] /\ place[t] < place[e] /\ t \in Call
      BY <1>4, <3>1
    <3> HIDE DEF t
    <3>3. place[c] \in Nat /\ place[e] \in Nat /\ place[t] \in Nat
      BY <1>1, <3>2
    <3> QED
      BY <2>3, <3>2, <3>3
  <2> QED
    BY <1>6, <2>1, <2>2, <2>3
<1> QED
  BY <1>1, <1>5, <1>6 DEF Ordered
-----------------------------------------------------------------------------
\* The steps.

RespondInv == HubInv /\ DshInv /\ CallTypes /\ RepliesInv /\ OrderInv

\* Of what phones were shown, nothing comes back: dsh does not wait for it again, and it
\* does not become pending again.
NothingReturns ==
  /\ Shown \subseteq Shown' /\ asked' \cap Shown \subseteq asked
  /\ (asked' \ early') \cap Shown \subseteq asked \ early
  /\ pending' \cap Shown \subseteq pending

\* What a reply says stays true as long as nothing that was shown comes back.
LEMMA SoundStays ==
  ASSUME RepliesInv, NothingReturns, NEW c \in Call
  PROVE  Sound(call[c], Shown', asked', asked' \ early', pending')
<1>1. Sound(call[c], Shown, asked, asked \ early, pending)
  BY DEF RepliesInv
<1>2. CASE call[c].state = "new"
  BY <1>1, <1>2 DEF Sound
<1>3. CASE call[c].state # "new"
  BY <1>1, <1>3 DEF Sound, NothingReturns
<1> QED
  BY <1>2, <1>3

\* A step of dsh or of the hub that leaves the calls alone.
LEMMA CallsStay ==
  ASSUME CallTypes, RepliesInv, OrderInv, NothingReturns, UNCHANGED <<call, respondChains>>
  PROVE  CallTypes' /\ RepliesInv' /\ OrderInv'
<1>1. CallTypes' /\ OrderInv'
  BY DEF CallTypes, OrderInv, Stored
<1>2. RepliesInv'
  BY SoundStays DEF RepliesInv
<1> QED
  BY <1>1, <1>2

\* A step in the life of one call c, while the rest stays as it is.
LEMMA OneCallMoves ==
  ASSUME RepliesInv, NothingReturns, NEW c \in Call,
         \A d \in Call \ {c} : call'[d] = call[d],
         Sound(call'[c], Shown', asked', asked' \ early', pending'),
         \A d \in Call \ {c} : Compatible(call'[c], call[d]) /\ Compatible(call[d], call'[c]),
         Compatible(call'[c], call'[c])
  PROVE  RepliesInv'
<1>1. ASSUME NEW d \in Call
      PROVE  Sound(call'[d], Shown', asked', asked' \ early', pending')
  BY SoundStays
<1>2. ASSUME NEW d \in Call, NEW e \in Call
      PROVE  Compatible(call'[d], call'[e])
  BY DEF RepliesInv
<1> QED
  BY <1>1, <1>2 DEF RepliesInv

\* dsh asks for something new.
LEMMA DshAsksKeepsInv == RespondInv /\ DshAsks => RespondInv'
<1> SUFFICES ASSUME RespondInv, DshAsks PROVE RespondInv'
  OBVIOUS
<1>1. PICK r \in Rpc \ everAsked :
        /\ asked' = asked \cup {r} /\ everAsked' = everAsked \cup {r}
        /\ wire' = Append(wire, Requested(r))
        /\ early' = IF dshReady THEN early ELSE early \cup {r}
        /\ UNCHANGED <<hubVars, call, respondChains>>
  BY DEF DshAsks
<1>2. HubInv' /\ Shown' = Shown /\ pending' = pending /\ dshReady' = dshReady
  BY <1>1, HubUntouched DEF RespondInv
<1>3. DshInv
  BY DEF RespondInv
<1>4. Requested(r) \in WireFrame
  BY <1>1 DEF WireFrame
<1>5. /\ wire' \in Seq(WireFrame)
      /\ \A q : Asks(wire', q) <=> Asks(wire, q) \/ q = r
      /\ \A q : Ends(wire', q) <=> Ends(wire, q)
      /\ AsksOnce(wire')
  <2>1. wire \in Seq(WireFrame) /\ AsksOnce(wire) /\ ~ Asks(wire, r)
    BY <1>1, <1>3 DEF DshInv
  <2> QED
    BY <1>1, <1>4, <2>1, WireGrows, RequestsDiffer
<1>6. r \notin Shown
  BY <1>1, <1>3 DEF DshInv
<1>7. DshInv'
  BY <1>1, <1>2, <1>3, <1>5, <1>6 DEF DshInv
<1>8. NothingReturns
  BY <1>1, <1>2, <1>6 DEF NothingReturns
<1> QED
  BY <1>1, <1>2, <1>7, <1>8, CallsStay DEF RespondInv

\* dsh stops waiting for r and says so: by itself, for an answer it takes, or for one that
\* nobody waits for.
LEMMA SettlingKeepsDsh ==
  ASSUME HubInv, DshInv, NEW r \in asked, asked' = asked \ {r},
         wire' = Append(wire, Resolved(r)), UNCHANGED <<hubVars, everAsked, early>>
  PROVE  HubInv' /\ DshInv' /\ NothingReturns
<1>1. HubInv' /\ Shown' = Shown /\ pending' = pending /\ dshReady' = dshReady
  BY HubUntouched
<1>2. r \in Rpc /\ r \in everAsked
  BY DEF DshInv
<1>3. /\ wire' \in Seq(WireFrame)
      /\ \A q : Asks(wire', q) <=> Asks(wire, q)
      /\ \A q : Ends(wire', q) <=> Ends(wire, q) \/ q = r
      /\ AsksOnce(wire')
  <2>1. Resolved(r) \in WireFrame
    BY <1>2 DEF WireFrame
  <2> QED
    BY <2>1, WireGrows, RequestsDiffer, ResolutionsDiffer DEF DshInv
<1>4. DshInv'
  BY <1>1, <1>2, <1>3 DEF DshInv
<1> QED
  BY <1>1, <1>4 DEF NothingReturns

\* dsh resolves what it waits for, a phone's answer or not.
LEMMA DshResolvesKeepsInv == RespondInv /\ DshResolves => RespondInv'
<1> SUFFICES ASSUME RespondInv, DshResolves PROVE RespondInv'
  OBVIOUS
<1>1. HubInv' /\ DshInv' /\ NothingReturns
  BY SettlingKeepsDsh DEF DshResolves, RespondInv
<1> QED
  BY <1>1, CallsStay DEF DshResolves, RespondInv

\* A step that changes neither what dsh waits for nor the hub.
LEMMA DshUntouched ==
  ASSUME HubInv, DshInv, UNCHANGED <<hubVars, asked, everAsked, wire, early>>
  PROVE  HubInv' /\ DshInv' /\ NothingReturns
<1>1. HubInv' /\ Shown' = Shown /\ pending' = pending /\ dshReady' = dshReady
  BY HubUntouched
<1> QED
  BY <1>1 DEF DshInv, NothingReturns

\* An answer whose request was given up reaches dsh late.
LEMMA DshHandlesStrayKeepsInv == RespondInv /\ DshHandlesStray => RespondInv'
<1> SUFFICES ASSUME RespondInv, DshHandlesStray PROVE RespondInv'
  OBVIOUS
<1>1. HubInv' /\ DshInv' /\ NothingReturns
  BY SettlingKeepsDsh, DshUntouched DEF DshHandlesStray, RespondInv
<1> QED
  BY <1>1, CallsStay DEF DshHandlesStray, RespondInv

\* The hub ingests what dsh sent: what was asked becomes pending before it is forgotten
\* that it was on its way.
LEMMA PumpKeepsInv == RespondInv /\ Pump => RespondInv'
<1> SUFFICES ASSUME RespondInv, Pump PROVE RespondInv'
  OBVIOUS
<1> DEFINE f == Head(wire)
<1>1. /\ wire # <<>> /\ IngestMux(f) /\ wire' = Tail(wire)
      /\ UNCHANGED <<asked, everAsked, early, call, respondChains>>
  BY DEF Pump
<1>2. DshInv
  BY DEF RespondInv
<1>3. /\ f \in WireFrame /\ wire' \in Seq(WireFrame) /\ AsksOnce(wire')
      /\ \A r : Asks(wire, r) <=> Asks(wire', r) \/ f = Requested(r)
      /\ \A r : Ends(wire', r) \/ f = Resolved(r) => Ends(wire, r)
      /\ \A r \in Rpc : f = Requested(r) => ~ Asks(wire', r)
  BY <1>1, <1>2, WireShrinks DEF DshInv
<1> HIDE DEF f
<1>4. /\ HubInv' /\ dshReady' = dshReady
      /\ Shown' = Shown \cup {r \in Rpc : f = Requested(r)}
      /\ \A q \in Rpc : f = Requested(q) => pending' = pending \cup {q}
      /\ \A q \in Rpc : f = Resolved(q) => /\ pending' \subseteq pending
                                           /\ pending \ {q} \subseteq pending'
  BY <1>1, <1>3, PumpedFrame DEF RespondInv
<1>5. \A r \in asked \ early : r \in pending' \/ Asks(wire', r)
  <2> SUFFICES ASSUME NEW r \in asked \ early
               PROVE  r \in pending' \/ Asks(wire', r)
    OBVIOUS
  <2>1. r \in pending \/ Asks(wire', r) \/ f = Requested(r)
    BY <1>2, <1>3 DEF DshInv
  <2>2. r \in Rpc
    BY <1>2 DEF DshInv
  <2>3. CASE \E q \in Rpc : f = Requested(q)
    BY <1>4, <2>1, <2>2, <2>3
  <2>4. CASE \E q \in Rpc : f = Resolved(q)
    <3>1. PICK q \in Rpc : f = Resolved(q)
      BY <2>4
    <3>2. q \notin asked
      BY <1>2, <1>3, <3>1 DEF DshInv
    <3> QED
      BY <1>4, <2>1, <3>1, <3>2, RequestsDiffer
  <2> QED
    BY <1>3, <2>3, <2>4 DEF WireFrame
<1>6. DshInv'
  BY <1>1, <1>2, <1>3, <1>4, <1>5 DEF DshInv
<1>7. pending' \cap Shown \subseteq pending
  <2>1. CASE \E q \in Rpc : f = Requested(q)
    <3>1. PICK q \in Rpc : f = Requested(q)
      BY <2>1
    <3>2. q \notin Shown
      BY <1>2, <1>3, <3>1 DEF DshInv
    <3> QED
      BY <1>4, <3>1, <3>2
  <2>2. CASE \E q \in Rpc : f = Resolved(q)
    BY <1>4, <2>2
  <2> QED
    BY <1>3, <2>1, <2>2 DEF WireFrame
<1>8. NothingReturns
  BY <1>1, <1>4, <1>7 DEF NothingReturns
<1> QED
  BY <1>1, <1>4, <1>6, <1>8, CallsStay DEF RespondInv

\* dsh starts again; what it asks now may be asked before the bridge is ready.
LEMMA DshBootsKeepsInv == RespondInv /\ DshBoots => RespondInv'
<1> SUFFICES ASSUME RespondInv, DshBoots PROVE RespondInv'
  OBVIOUS
<1>1. HubInv' /\ DshInv' /\ NothingReturns
  BY DshUntouched DEF DshBoots, RespondInv
<1> QED
  BY <1>1, CallsStay DEF DshBoots, RespondInv

\* Readiness drops what is pending; what dsh waits for at that moment was all asked before.
LEMMA GenerationReadyKeepsInv == RespondInv /\ GenerationReady => RespondInv'
<1> SUFFICES ASSUME RespondInv, GenerationReady PROVE RespondInv'
  OBVIOUS
<1>1. /\ ~ dshReady /\ OnDshReady
      /\ UNCHANGED <<asked, everAsked, wire, early, call, respondChains>>
  BY DEF GenerationReady, dshVars
<1>2. HubInv' /\ Shown' = Shown /\ pending' \subseteq pending /\ dshReady' = TRUE
  BY <1>1, LifecycleFrames DEF RespondInv
<1>3. asked \ early = {}
  BY <1>1 DEF RespondInv, DshInv
<1>4. DshInv'
  BY <1>1, <1>2, <1>3 DEF RespondInv, DshInv
<1>5. NothingReturns
  BY <1>1, <1>2 DEF NothingReturns
<1> QED
  BY <1>1, <1>2, <1>4, <1>5, CallsStay DEF RespondInv

\* dsh dies, and with it what it waited for and the requests it had not handled.
LEMMA DshCrashesKeepsInv == RespondInv /\ DshCrashes => RespondInv'
<1> SUFFICES ASSUME RespondInv, DshCrashes PROVE RespondInv'
  OBVIOUS
<1>1. /\ asked' = {} /\ wire' = <<>> /\ UNCHANGED <<everAsked, early, respondChains>>
      /\ call' = [c \in Call |-> IF call[c].state = "asking"
                                 THEN [call[c] EXCEPT !.state = "broken"] ELSE call[c]]
  BY DEF DshCrashes
<1>2. HubInv' /\ Shown' = Shown /\ pending' = pending
  <2>1. CASE dshReady
    BY <2>1, LifecycleFrames DEF DshCrashes, RespondInv
  <2>2. CASE ~ dshReady
    BY <2>2, HubUntouched DEF DshCrashes, RespondInv
  <2> QED
    BY <2>1, <2>2
<1>3. <<>> \in Seq(WireFrame) /\ DOMAIN <<>> = {}
  BY EmptySeq
<1>4. DshInv'
  BY <1>1, <1>2, <1>3 DEF RespondInv, DshInv, AsksOnce, Asks, Ends
<1>5. NothingReturns
  BY <1>1, <1>2 DEF NothingReturns
<1>6. call \in [Call -> CallRecord] /\ RepliesInv
  BY DEF RespondInv, CallTypes
<1>7. \A c \in Call :
        /\ call'[c] \in CallRecord
        /\ call'[c].rpc = call[c].rpc /\ call'[c].after = call[c].after
        /\ call'[c].reply = call[c].reply
        /\ \/ call'[c].state = call[c].state
           \/ call[c].state = "asking" /\ call'[c].state = "broken"
  BY <1>1, <1>6 DEF CallRecord, CallState
<1>8. CallTypes'
  BY <1>1, <1>7 DEF RespondInv, CallTypes, Stored
<1>9. ASSUME NEW c \in Call
      PROVE  Sound(call'[c], Shown', asked', asked' \ early', pending')
  <2>1. Sound(call[c], Shown', asked', asked' \ early', pending')
    BY <1>5, <1>6, SoundStays
  <2> QED
    BY <1>7, <2>1 DEF Sound
<1>10. ASSUME NEW c \in Call, NEW d \in Call
       PROVE  Compatible(call'[c], call'[d])
  BY <1>6, <1>7 DEF RepliesInv, Compatible, InFlightState
<1>11. OrderInv'
  <2>1. PICK pos \in [Call -> Nat] : Ordered(pos, call, respondChains)
    BY DEF RespondInv, OrderInv
  <2>2. \A c \in Call : Unfinished(call', c) <=> Unfinished(call, c)
    BY <1>7 DEF Unfinished, OpenState
  <2>3. Ordered(pos, call', respondChains)
    BY <1>7, <2>1, <2>2, AdvanceKeepsOrder
  <2> QED
    BY <1>1, <2>1, <2>3 DEF OrderInv
<1> QED
  BY <1>2, <1>4, <1>8, <1>9, <1>10, <1>11 DEF RespondInv, RepliesInv

-----------------------------------------------------------------------------
\* The steps of handleRespond.

\* A call that is not in the order does not disturb it.
LEMMA OthersKeepOrder ==
  ASSUME NEW pos, NEW k, NEW h, Ordered(pos, k, h), NEW l, NEW e \in Call,
         ~ Unfinished(k, e), ~ Unfinished(l, e),
         \A c \in Call \ {e} : l[c] = k[c]
  PROVE  Ordered(pos, l, h)
<1>1. \A c \in Call : Unfinished(l, c) => Unfinished(k, c) /\ c # e /\ l[c] = k[c]
  BY DEF Unfinished
<1>2. \A c \in Call : Unfinished(k, c) => Unfinished(l, c) /\ c # e /\ l[c] = k[c]
  BY DEF Unfinished
<1>3. ASSUME NEW c \in Call, Unfinished(l, c)
      PROVE  KnowsLast(pos, l, h, c)
  BY <1>1, <1>2, <1>3 DEF Ordered, KnowsLast, SameRpc
<1>4. ASSUME NEW c \in Call, NEW d \in Call, Unfinished(l, c), Unfinished(l, d),
             SameRpc(l, c, d), c # d
      PROVE  pos[c] # pos[d] /\ (pos[d] < pos[c] => StandsBehind(pos, l, c, d))
  <2>1. /\ Unfinished(k, c) /\ Unfinished(k, d) /\ SameRpc(k, c, d)
        /\ l[c] = k[c] /\ l[d] = k[d]
    BY <1>1, <1>4 DEF SameRpc
  <2>2. pos[c] # pos[d] /\ (pos[d] < pos[c] => StandsBehind(pos, k, c, d))
    BY <1>4, <2>1 DEF Ordered
  <2>3. StandsBehind(pos, k, c, d) => StandsBehind(pos, l, c, d)
    BY <1>2, <2>1 DEF StandsBehind, SameRpc
  <2> QED
    BY <2>2, <2>3
<1> QED
  BY <1>3, <1>4 DEF Ordered

\* The promise in the map of chains is never the one that a call compares with it: an entry
\* is only ever replaced (handleRespond, `respondChains.get(rpcId) === attempt`).
LEMMA NothingForgotten ==
  ASSUME CallTypes, NEW c, ForgetChain(c)
  PROVE  respondChains' = respondChains
<1>1. \A t : Stored(t) # Awaited(c)
  BY DEF Stored, Awaited
<1> QED
  BY <1>1 DEF CallTypes, ForgetChain

\* A call changes only itself, and only what the handler writes of it.
LEMMA CallRewritten ==
  ASSUME CallTypes, NEW c \in Call, NEW x \in CallRecord,
         call' = [call EXCEPT ![c] = x], respondChains' = respondChains
  PROVE  /\ CallTypes' /\ call'[c] = x
         /\ \A d \in Call \ {c} : call'[d] = call[d]
<1> QED
  BY DEF CallTypes, Stored

\* A call that is refused at once.
LEMMA RefuseKeepsInv ==
  ASSUME RespondInv, NEW c \in Call, NEW r \in Shown, Refuse(c, r)
  PROVE  RespondInv'
<1>1. /\ HubInv /\ DshInv /\ CallTypes /\ RepliesInv /\ OrderInv
      /\ UNCHANGED <<hubVars, dshVars, respondChains>>
  BY DEF RespondInv, Refuse
<1>2. HubInv' /\ DshInv' /\ NothingReturns
  BY <1>1, DshUntouched DEF dshVars
<1>3. PICK reply \in {"already-resolved", "bad-request", "dsh-unavailable"} :
        /\ reply = "already-resolved" => r \notin pending
        /\ call' = [call EXCEPT ![c].state = "done", ![c].rpc = r, ![c].reply = reply]
  BY DEF Refuse
<1>4. call[c] \in CallRecord /\ call[c].state = "new" /\ r \in Rpc
  BY <1>1 DEF CallTypes, Refuse, Shown
<1> DEFINE x == [call[c] EXCEPT !.state = "done", !.rpc = r, !.reply = reply]
<1>5. /\ x \in CallRecord /\ x.state = "done" /\ x.rpc = r /\ x.reply = reply
      /\ call' = [call EXCEPT ![c] = x]
  BY <1>1, <1>3, <1>4 DEF CallRecord, CallState, Reply, CallTypes
<1> HIDE DEF x
<1>6. /\ CallTypes' /\ call'[c] = x
      /\ \A d \in Call \ {c} : call'[d] = call[d]
  BY <1>1, <1>5, CallRewritten
<1>7. Sound(x, Shown', asked', asked' \ early', pending')
  <2>1. Shown' = Shown /\ pending' = pending /\ asked' = asked /\ early' = early
    BY <1>1, HubUntouched DEF dshVars
  <2>2. r \notin pending => r \notin asked \ early
    BY <1>1, <1>4 DEF DshInv
  <2> QED
    BY <1>3, <1>5, <2>1, <2>2 DEF Sound
<1>8. RepliesInv'
  <2>1. x.reply # "accepted" /\ x.state \notin InFlightState
    BY <1>3, <1>5 DEF InFlightState, Receipts
  <2> QED
    BY <1>1, <1>2, <1>6, <1>7, <2>1, OneCallMoves DEF Compatible
<1>9. OrderInv'
  <2>1. PICK pos \in [Call -> Nat] : Ordered(pos, call, respondChains)
    BY <1>1 DEF OrderInv
  <2>2. ~ Unfinished(call, c) /\ ~ Unfinished(call', c)
    BY <1>4, <1>5, <1>6 DEF Unfinished, OpenState, Receipts
  <2>3. Ordered(pos, call', respondChains)
    BY <1>6, <2>1, <2>2, OthersKeepOrder
  <2> QED
    BY <1>1, <2>1, <2>3 DEF OrderInv
<1> QED
  BY <1>2, <1>6, <1>8, <1>9 DEF RespondInv

\* A call joins the chain of its obligation.
LEMMA ChainKeepsInv ==
  ASSUME RespondInv, NEW c \in Call, NEW r \in Shown, Chain(c, r)
  PROVE  RespondInv'
<1>1. /\ HubInv /\ DshInv /\ CallTypes /\ RepliesInv /\ OrderInv
      /\ UNCHANGED <<hubVars, dshVars>>
  BY DEF RespondInv, Chain
<1>2. HubInv' /\ DshInv' /\ NothingReturns
  BY <1>1, DshUntouched DEF dshVars
<1> DEFINE before == IF r \in DOMAIN respondChains THEN respondChains[r].call ELSE NoCall
           x == [call[c] EXCEPT !.state = "chained", !.rpc = r, !.after = before]
<1>3. /\ call[c] \in CallRecord /\ call[c].state = "new" /\ call[c].reply = "none"
      /\ r \in Rpc
  BY <1>1 DEF CallTypes, Chain, Shown, RepliesInv, Sound
<1>4. r \in DOMAIN respondChains => respondChains[r].call \in Call
  BY <1>1 DEF CallTypes, Stored
<1>5. before \in Call \cup {NoCall}
  BY <1>4
<1>6. call' = [call EXCEPT ![c] = x] /\ respondChains' = Put(respondChains, r, Stored(c))
  BY <1>1, <1>3 DEF CallTypes, Chain
<1> HIDE DEF before
<1>7. /\ x \in CallRecord /\ x.state = "chained" /\ x.rpc = r /\ x.after = before
      /\ x.reply = "none"
  BY <1>3, <1>5 DEF CallRecord, CallState
<1> HIDE DEF x
<1>8. /\ DOMAIN respondChains' = DOMAIN respondChains \cup {r}
      /\ respondChains'[r] = Stored(c)
      /\ \A q \in DOMAIN respondChains : q # r => respondChains'[q] = respondChains[q]
  BY SMTT(40), <1>6, PutFacts
<1>9. call'[c] = x /\ \A d \in Call \ {c} : call'[d] = call[d]
  BY <1>1, <1>6 DEF CallTypes
<1>10. CallTypes'
  <2>1. call' \in [Call -> CallRecord]
    BY <1>1, <1>6, <1>7 DEF CallTypes
  <2>2. ASSUME NEW q \in DOMAIN respondChains'
        PROVE  \E t \in Call : respondChains'[q] = Stored(t)
    <3>1. CASE q = r
      BY <1>8, <3>1
    <3>2. CASE q # r
      BY <1>1, <1>8, <3>2 DEF CallTypes
    <3> QED
      BY <3>1, <3>2
  <2> QED
    BY <2>1, <2>2 DEF CallTypes, Stored
<1>11. RepliesInv'
  <2>1. Sound(x, Shown', asked', asked' \ early', pending')
    BY <1>2, <1>7 DEF Sound, NothingReturns
  <2>2. x.reply # "accepted" /\ x.state \notin InFlightState
    BY <1>7 DEF InFlightState, Receipts
  <2> QED
    BY <1>1, <1>2, <1>9, <2>1, <2>2, OneCallMoves DEF Compatible
<1>12. OrderInv'
  <2>1. PICK pos \in [Call -> Nat] : Ordered(pos, call, respondChains)
    BY <1>1 DEF OrderInv
  <2>2. ~ Unfinished(call, c)
    BY <1>3 DEF Unfinished, OpenState, Receipts
  <2>3. respondChains'[r].call = c
    BY <1>8 DEF Stored
  <2> DEFINE l == call'
             g == respondChains'
  <2>4. /\ \A d \in Call \ {c} : l[d] = call[d]
        /\ l[c].state = "chained" /\ l[c].rpc = r /\ l[c].after = before
        /\ r \in DOMAIN g /\ g[r].call = c
        /\ \A q \in DOMAIN respondChains : q # r => q \in DOMAIN g /\ g[q] = respondChains[q]
    BY <1>7, <1>8, <1>9, <2>3
  <2>5. l[c].after = IF r \in DOMAIN respondChains THEN respondChains[r].call ELSE NoCall
    BY <2>4 DEF before
  <2> HIDE DEF l, g
  <2>6. Prolonged(call, respondChains, l, g, c, r)
    BY <1>4, <2>2, <2>4, <2>5 DEF Prolonged
  <2>7. \E place \in [Call -> Nat] : Ordered(place, l, g)
    BY <2>1, <2>6, ChainKeepsOrder
  <2> QED
    BY <2>7 DEF OrderInv, l, g
<1> QED
  BY <1>2, <1>10, <1>11, <1>12 DEF RespondInv

\* What the first call of a chain knows: no other answer to its obligation is under way.
LEMMA FirstIsAlone ==
  ASSUME NEW pos \in [Call -> Nat], NEW k, NEW h, Ordered(pos, k, h),
         NEW c \in Call, NEW d \in Call, c # d, SameRpc(k, c, d),
         Unfinished(k, c), First(pos, k, c)
  PROVE  k[d].state \notin InFlightState
<1> SUFFICES ASSUME k[d].state \in InFlightState PROVE FALSE
  OBVIOUS
<1>1. Unfinished(k, d) /\ k[d].state # "chained"
  BY DEF Unfinished, OpenState, InFlightState, Receipts
<1>2. First(pos, k, d)
  BY <1>1, ItsTurnIsFirst
<1>3. pos[c] < pos[d] /\ pos[d] < pos[c]
  BY <1>1, <1>2 DEF First, SameRpc
<1>4. pos[c] \in Nat /\ pos[d] \in Nat
  OBVIOUS
<1> QED
  BY <1>3, <1>4

\* A call that goes on or ends where it stands, for what it was called for.
LEMMA FirstMoves ==
  ASSUME CallTypes, NEW pos \in [Call -> Nat], Ordered(pos, call, respondChains),
         NEW c \in Call, Unfinished(call, c), First(pos, call, c),
         \A d \in Call \ {c} : call'[d] = call[d],
         call'[c].rpc = call[c].rpc, call'[c].after = call[c].after,
         respondChains' = respondChains
  PROVE  OrderInv'
<1> DEFINE l == call'
           h == respondChains
<1>1. /\ \A d \in Call \ {c} : l[d] = call[d]
      /\ l[c].rpc = call[c].rpc /\ l[c].after = call[c].after
      /\ Ordered(pos, call, h)
  OBVIOUS
<1> HIDE DEF l, h
<1>2. Ordered(pos, l, h)
  <2>1. CASE Unfinished(l, c)
    <3>1. \A d \in Call :
            /\ l[d].rpc = call[d].rpc /\ l[d].after = call[d].after
            /\ Unfinished(l, d) <=> Unfinished(call, d)
            /\ call[d].state = "chained" /\ l[d].state # "chained" => First(pos, call, d)
      BY <1>1, <2>1 DEF Unfinished
    <3> QED
      BY <1>1, <3>1, AdvanceKeepsOrder
  <2>2. CASE ~ Unfinished(l, c)
    BY <1>1, <2>2, FinishKeepsOrder
  <2> QED
    BY <2>1, <2>2
<1> QED
  BY <1>2 DEF OrderInv, l, h

\* Where a call advances, what is left to show is that what it tells is true.
LEMMA FirstMovesTruly ==
  ASSUME CallTypes, RepliesInv, NothingReturns,
         NEW pos \in [Call -> Nat], Ordered(pos, call, respondChains),
         NEW c \in Call, Unfinished(call, c), First(pos, call, c),
         NEW x \in CallRecord, call' = [call EXCEPT ![c] = x],
         x.rpc = call[c].rpc, x.after = call[c].after,
         respondChains' = respondChains,
         Sound(x, Shown', asked', asked' \ early', pending'),
         x.state \in InFlightState =>
           x.reply # "accepted" /\ \A d \in Call \ {c} : Compatible(call[d], x)
  PROVE  CallTypes' /\ RepliesInv' /\ OrderInv'
<1>1. CallTypes' /\ call'[c] = x /\ \A d \in Call \ {c} : call'[d] = call[d]
  BY CallRewritten
<1>2. OrderInv'
  BY <1>1, FirstMoves
<1>3. \A d \in Call \ {c} : Compatible(x, call[d])
  <2> SUFFICES ASSUME NEW d \in Call \ {c}, x.rpc = call[d].rpc
               PROVE  call[d].state \notin InFlightState
    BY DEF Compatible
  <2>1. SameRpc(call, c, d)
    BY DEF SameRpc
  <2> QED
    BY <2>1, FirstIsAlone
<1>4. \A d \in Call \ {c} : Compatible(call[d], x)
  BY DEF Compatible
<1>5. Compatible(x, x)
  BY DEF Compatible
<1>6. RepliesInv'
  BY <1>1, <1>3, <1>4, <1>5, OneCallMoves
<1> QED
  BY <1>1, <1>2, <1>6

\* The call before is over; nothing is asked twice, since the obligation is consumed
\* before the next one looks.
LEMMA TakeTurnKeepsInv ==
  ASSUME RespondInv, NEW c \in Call, TakeTurn(c)
  PROVE  RespondInv'
<1>1. HubInv /\ DshInv /\ CallTypes /\ RepliesInv /\ OrderInv /\ UNCHANGED <<hubVars, dshVars>>
  BY DEF RespondInv, TakeTurn
<1>2. HubInv' /\ DshInv' /\ NothingReturns
  BY <1>1, DshUntouched DEF dshVars
<1>3. /\ call[c] \in CallRecord /\ call[c].state = "chained" /\ call[c].reply = "none"
      /\ call[c].rpc \in Shown /\ call[c].rpc \in Rpc
  BY <1>1 DEF CallTypes, TakeTurn, RepliesInv, Sound, Shown
<1>4. Unfinished(call, c)
  BY <1>3 DEF Unfinished, OpenState
<1>5. PICK pos \in [Call -> Nat] : Ordered(pos, call, respondChains)
  BY <1>1 DEF OrderInv
<1>6. First(pos, call, c)
  <2>1. call[c].after # NoCall => call[call[c].after].state = "done"
    BY DEF TakeTurn, TurnCame, Before
  <2> QED
    BY <1>4, <1>5, <2>1, ItsTurnIsFirst
<1>7. CASE call[c].rpc \in pending
  <2> DEFINE x == [call[c] EXCEPT !.state = "asking"]
  <2>1. call' = [call EXCEPT ![c] = x] /\ respondChains' = respondChains
    BY <1>1, <1>7 DEF CallTypes, TakeTurn
  <2>2. /\ x \in CallRecord /\ x.state = "asking" /\ x.reply = "none"
        /\ x.rpc = call[c].rpc /\ x.after = call[c].after
    BY <1>3 DEF CallRecord, CallState
  <2> HIDE DEF x
  <2>3. Sound(x, Shown', asked', asked' \ early', pending')
    BY <1>2, <1>3, <2>2 DEF Sound, NothingReturns
  <2>4. \A d \in Call \ {c} : Compatible(call[d], x)
    BY <1>1, <1>7, <2>2 DEF RepliesInv, Sound, Compatible
  <2>5. CallTypes' /\ RepliesInv' /\ OrderInv'
    BY <1>1, <1>2, <1>4, <1>5, <1>6, <2>1, <2>2, <2>3, <2>4, FirstMovesTruly
  <2> QED
    BY <1>2, <2>5 DEF RespondInv
<1>8. CASE call[c].rpc \notin pending
  <2> DEFINE x == [call[c] EXCEPT !.state = "done", !.reply = "already-resolved"]
  <2>1. call' = [call EXCEPT ![c] = x] /\ respondChains' = respondChains
    BY <1>1, <1>8, NothingForgotten DEF CallTypes, TakeTurn, Done
  <2>2. /\ x \in CallRecord /\ x.state = "done" /\ x.reply = "already-resolved"
        /\ x.rpc = call[c].rpc /\ x.after = call[c].after
    BY <1>3 DEF CallRecord, CallState, Reply
  <2> HIDE DEF x
  <2>3. Sound(x, Shown', asked', asked' \ early', pending')
    <3>1. call[c].rpc \notin asked \ early
      BY <1>1, <1>3, <1>8 DEF DshInv
    <3> QED
      BY <1>2, <1>3, <2>2, <3>1 DEF Sound, NothingReturns
  <2>4. x.state \notin InFlightState
    BY <2>2 DEF InFlightState, Receipts
  <2>5. CallTypes' /\ RepliesInv' /\ OrderInv'
    BY <1>1, <1>2, <1>4, <1>5, <1>6, <2>1, <2>2, <2>3, <2>4, FirstMovesTruly
  <2> QED
    BY <1>2, <2>5 DEF RespondInv
<1> QED
  BY <1>7, <1>8

\* dsh accepts or rejects.
LEMMA DshHandlesKeepsInv ==
  ASSUME RespondInv, NEW c \in Call, DshHandles(c)
  PROVE  RespondInv'
<1>1. /\ HubInv /\ DshInv /\ CallTypes /\ RepliesInv /\ OrderInv
      /\ UNCHANGED <<hubVars, everAsked, early, respondChains>>
  BY DEF RespondInv, DshHandles
<1>2. /\ call[c] \in CallRecord /\ call[c].state = "asking" /\ call[c].reply = "none"
      /\ call[c].rpc \in Shown
  BY <1>1 DEF CallTypes, DshHandles, RepliesInv, Sound
<1>3. Unfinished(call, c)
  BY <1>2 DEF Unfinished, OpenState
<1>4. PICK pos \in [Call -> Nat] : Ordered(pos, call, respondChains)
  BY <1>1 DEF OrderInv
<1>5. First(pos, call, c)
  BY <1>2, <1>3, <1>4, ItsTurnIsFirst
<1>6. HubInv' /\ DshInv' /\ NothingReturns
  BY <1>1, SettlingKeepsDsh, DshUntouched DEF DshHandles
<1>7. PICK s \in Receipts :
        /\ call' = [call EXCEPT ![c].state = s]
        /\ s \in {"accepted", "already-resolved"} => call[c].rpc \notin asked'
  BY DEF DshHandles, Receipts
<1> DEFINE x == [call[c] EXCEPT !.state = s]
<1>8. call' = [call EXCEPT ![c] = x]
  BY <1>1, <1>7 DEF CallTypes
<1>9. /\ x \in CallRecord /\ x.state = s /\ x.reply = "none"
      /\ x.rpc = call[c].rpc /\ x.after = call[c].after
  BY <1>2 DEF CallRecord, CallState, Receipts
<1> HIDE DEF x
<1>10. Sound(x, Shown', asked', asked' \ early', pending')
  BY <1>2, <1>6, <1>7, <1>9 DEF Sound, NothingReturns
<1>11. \A d \in Call \ {c} : Compatible(call[d], x)
  BY <1>1, <1>2, <1>9 DEF RepliesInv, Compatible, InFlightState
<1>12. CallTypes' /\ RepliesInv' /\ OrderInv'
  BY <1>1, <1>3, <1>4, <1>5, <1>6, <1>8, <1>9, <1>10, <1>11, FirstMovesTruly
<1> QED
  BY <1>6, <1>12 DEF RespondInv

\* The receipt arrives; an accepted answer consumes the obligation.
LEMMA ReceiptArrivesKeepsInv ==
  ASSUME RespondInv, NEW c \in Call, ReceiptArrives(c)
  PROVE  RespondInv'
<1>1. /\ HubInv /\ DshInv /\ CallTypes /\ RepliesInv /\ OrderInv
      /\ UNCHANGED dshVars /\ respondChains' = respondChains
  BY NothingForgotten DEF RespondInv, ReceiptArrives
<1>2. /\ call[c] \in CallRecord /\ call[c].state \in Receipts /\ call[c].reply = "none"
      /\ call[c].rpc \in Shown
      /\ call[c].state = "accepted" => call[c].rpc \notin asked
      /\ call[c].state = "already-resolved" => call[c].rpc \notin asked \ early
  BY <1>1 DEF CallTypes, ReceiptArrives, RepliesInv, Sound, Receipts
<1>3. Unfinished(call, c) /\ call[c].state # "chained"
  BY <1>2 DEF Unfinished, OpenState, Receipts
<1>4. PICK pos \in [Call -> Nat] : Ordered(pos, call, respondChains)
  BY <1>1 DEF OrderInv
<1>5. First(pos, call, c)
  BY <1>3, <1>4, ItsTurnIsFirst
<1>6. /\ HubInv' /\ DshInv' /\ NothingReturns
      /\ call[c].state = "accepted" => call[c].rpc \notin pending'
  <2>1. CASE Consumes(c) /\ call[c].rpc \in pending
    <3>1. /\ HubInv' /\ Shown' = Shown /\ pending' = pending \ {call[c].rpc}
          /\ dshReady' = dshReady
      BY <1>1, <2>1, ConsumedAnswer DEF ReceiptArrives
    <3>2. call[c].rpc \notin asked
      BY <1>2, <2>1 DEF Consumes
    <3>3. DshInv'
      BY <1>1, <3>1, <3>2 DEF DshInv, dshVars
    <3> QED
      BY <1>1, <3>1, <3>3 DEF NothingReturns, dshVars
  <2>2. CASE ~ (Consumes(c) /\ call[c].rpc \in pending)
    <3>1. UNCHANGED hubVars
      BY <2>2 DEF ReceiptArrives
    <3> QED
      BY <1>1, <2>2, <3>1, DshUntouched, HubUntouched DEF dshVars, Consumes
  <2> QED
    BY <2>1, <2>2
<1> DEFINE x == [call[c] EXCEPT !.state = "done", !.reply = call[c].state]
<1>7. call' = [call EXCEPT ![c] = x]
  BY <1>1 DEF CallTypes, ReceiptArrives, Done
<1>8. /\ x \in CallRecord /\ x.state = "done" /\ x.reply = call[c].state
      /\ x.rpc = call[c].rpc /\ x.after = call[c].after
  BY <1>2 DEF CallRecord, CallState, Reply, Receipts
<1> HIDE DEF x
<1>9. Sound(x, Shown', asked', asked' \ early', pending')
  BY <1>2, <1>6, <1>8 DEF Sound, NothingReturns
<1>10. x.state \notin InFlightState
  BY <1>8 DEF InFlightState, Receipts
<1>11. CallTypes' /\ RepliesInv' /\ OrderInv'
  BY <1>1, <1>3, <1>4, <1>5, <1>6, <1>7, <1>8, <1>9, <1>10, FirstMovesTruly
<1> QED
  BY <1>6, <1>11 DEF RespondInv

\* The request fails, whether dsh handled it or not.
LEMMA RequestFailsKeepsInv ==
  ASSUME RespondInv, NEW c \in Call, RequestFails(c)
  PROVE  RespondInv'
<1>1. /\ HubInv /\ DshInv /\ CallTypes /\ RepliesInv /\ OrderInv
      /\ UNCHANGED <<hubVars, asked, everAsked, wire, early>>
      /\ respondChains' = respondChains
  BY NothingForgotten DEF RespondInv, RequestFails
<1>2. HubInv' /\ DshInv' /\ NothingReturns
  BY <1>1, DshUntouched
<1>3. /\ call[c] \in CallRecord /\ call[c].state \in InFlightState /\ call[c].reply = "none"
      /\ call[c].rpc \in Shown
  BY <1>1 DEF CallTypes, RequestFails, RepliesInv, Sound, Receipts, InFlightState
<1>4. Unfinished(call, c) /\ call[c].state # "chained"
  BY <1>3 DEF Unfinished, OpenState, Receipts, InFlightState
<1>5. PICK pos \in [Call -> Nat] : Ordered(pos, call, respondChains)
  BY <1>1 DEF OrderInv
<1>6. First(pos, call, c)
  BY <1>4, <1>5, ItsTurnIsFirst
<1> DEFINE x == [call[c] EXCEPT !.state = "done", !.reply = "dsh-error"]
<1>7. call' = [call EXCEPT ![c] = x]
  BY <1>1 DEF CallTypes, RequestFails, Done
<1>8. /\ x \in CallRecord /\ x.state = "done" /\ x.reply = "dsh-error"
      /\ x.rpc = call[c].rpc /\ x.after = call[c].after
  BY <1>3 DEF CallRecord, CallState, Reply
<1> HIDE DEF x
<1>9. Sound(x, Shown', asked', asked' \ early', pending')
  BY <1>2, <1>3, <1>8 DEF Sound, NothingReturns
<1>10. x.state \notin InFlightState
  BY <1>8 DEF InFlightState, Receipts
<1>11. CallTypes' /\ RepliesInv' /\ OrderInv'
  BY <1>1, <1>2, <1>4, <1>5, <1>6, <1>7, <1>8, <1>9, <1>10, FirstMovesTruly
<1> QED
  BY <1>2, <1>11 DEF RespondInv

-----------------------------------------------------------------------------
\* The theorems.

LEMMA RespondInitEstablishesInv == RespondInit => RespondInv
<1> SUFFICES ASSUME RespondInit PROVE RespondInv
  OBVIOUS
<1>1. HubInv /\ log = <<>> /\ ~ dshReady /\ pending = {}
  BY HubInitEstablishesInv DEF RespondInit, HubInit
<1>2. Shown = {}
  <2>1. Len(log) = 0
    BY <1>1, EmptySeq
  <2> QED
    BY <2>1 DEF Shown, Index
<1>3. DshInv
  <2>1. wire \in Seq(WireFrame) /\ DOMAIN wire = {}
    BY EmptySeq DEF RespondInit
  <2> QED
    BY <1>2, <2>1 DEF RespondInit, DshInv, AsksOnce, Asks, Ends
<1>4. \A c \in Call : call[c] = fresh
  BY DEF RespondInit
<1>5. fresh \in CallRecord /\ fresh.state = "new" /\ fresh.reply = "none"
  BY DEF fresh, CallRecord, CallState, Reply
<1>6. CallTypes
  BY <1>5, EmptySeq DEF RespondInit, CallTypes
<1>7. RepliesInv
  BY <1>4, <1>5 DEF RepliesInv, Sound, Compatible
<1>8. OrderInv
  <2>1. [c \in Call |-> 0] \in [Call -> Nat]
    OBVIOUS
  <2>2. \A c \in Call : ~ Unfinished(call, c)
    BY <1>4, <1>5 DEF Unfinished, OpenState, Receipts
  <2> QED
    BY <2>1, <2>2 DEF OrderInv, Ordered
<1> QED
  BY <1>1, <1>3, <1>6, <1>7, <1>8 DEF RespondInv

\* All the steps of phones, bridge and dsh.
LEMMA RespondStepPreservesInv == RespondInv /\ [RespondNext]_respondVars => RespondInv'
<1> SUFFICES ASSUME RespondInv, [RespondNext]_respondVars PROVE RespondInv'
  OBVIOUS
<1>1. CASE \/ DshAsks \/ DshResolves \/ Pump \/ DshCrashes \/ DshBoots \/ GenerationReady
           \/ DshHandlesStray
  BY <1>1, DshAsksKeepsInv, DshResolvesKeepsInv, PumpKeepsInv, DshCrashesKeepsInv,
     DshBootsKeepsInv, GenerationReadyKeepsInv, DshHandlesStrayKeepsInv
<1>2. CASE \E c \in Call, r \in Shown : Refuse(c, r) \/ Chain(c, r)
  BY <1>2, RefuseKeepsInv, ChainKeepsInv
<1>3. CASE \E c \in Call : \/ TakeTurn(c) \/ DshHandles(c)
                           \/ ReceiptArrives(c) \/ RequestFails(c)
  BY <1>3, TakeTurnKeepsInv, DshHandlesKeepsInv, ReceiptArrivesKeepsInv,
     RequestFailsKeepsInv
<1>4. CASE UNCHANGED respondVars
  <2>1. HubInv' /\ DshInv' /\ NothingReturns
    BY <1>4, DshUntouched DEF RespondInv, respondVars, dshVars
  <2> QED
    BY <1>4, <2>1, CallsStay DEF RespondInv, respondVars
<1> QED
  BY <1>1, <1>2, <1>3, <1>4 DEF RespondNext

\* The inductive invariant of the respond handler.
THEOREM RespondInvHolds == RespondSpec => []RespondInv
  BY RespondInitEstablishesInv, RespondStepPreservesInv, PTL DEF RespondSpec

\* Two calls with an answer under way would each be the first of their chain.
LEMMA InvKeepsAnswersApart == RespondInv => OneAnswerAtATime
<1> SUFFICES ASSUME RespondInv, NEW c \in Call, NEW d \in Call, c # d,
                    call[c].rpc = call[d].rpc, InFlight(c)
             PROVE  ~ InFlight(d) /\ call[d].reply # "accepted"
  BY DEF OneAnswerAtATime
<1>1. PICK pos \in [Call -> Nat] : Ordered(pos, call, respondChains)
  BY DEF RespondInv, OrderInv
<1>2. Unfinished(call, c) /\ call[c].state # "chained" /\ SameRpc(call, c, d)
  BY DEF InFlight, Unfinished, OpenState, Receipts, SameRpc
<1>3. First(pos, call, c)
  BY <1>1, <1>2, ItsTurnIsFirst
<1>4. ~ InFlight(d)
  BY <1>1, <1>2, <1>3, FirstIsAlone DEF InFlight, InFlightState
<1>5. call[d].reply # "accepted"
  BY DEF RespondInv, RepliesInv, Compatible, InFlight, InFlightState
<1> QED
  BY <1>4, <1>5

\* The bridge never awaits dsh's receipts of two answers to one obligation, and forwards
\* none after it learned that one was accepted (server.ts, handleRespond, "Serialize per
\* rpcId"): for any number of phones that answer at once, whatever becomes of the calls
\* before them and however often dsh dies.
THEOREM OneAnswerUnderWay == RespondSpec => []OneAnswerAtATime
  BY RespondInvHolds, InvKeepsAnswersApart, PTL

\* Told "already-resolved", a phone can believe that dsh waits no more, whether the bridge
\* found it in its own set or dsh said it; told "accepted", that no other phone is offered
\* the obligation any more (server.ts, handleRespond; hub.ts, consumePending).
THEOREM RepliesCanBeBelieved == RespondSpec => []RepliesAreTrue
<1>1. RespondInv => RepliesAreTrue
  BY DEF RespondInv, RepliesInv, Sound, RepliesAreTrue, AlreadyResolvedIsTrue,
         AcceptedIsClosed
<1> QED
  BY <1>1, RespondInvHolds, PTL

-----------------------------------------------------------------------------
\* The items of a concatenation.
LEMMA Joined ==
  ASSUME NEW S, NEW a \in Seq(S), NEW b \in Seq(S)
  PROVE  /\ a \o b \in Seq(S) /\ Len(a \o b) = Len(a) + Len(b)
         /\ \A i \in 1 .. Len(a) : (a \o b)[i] = a[i]
         /\ \A i \in 1 .. Len(b) : (a \o b)[Len(a) + i] = b[i]
<1> DEFINE m == Len(a)
           n == Len(b)
           c == a \o b
<1>1. /\ m \in Nat /\ n \in Nat /\ c \in Seq(S) /\ Len(c) = m + n
      /\ \A i \in 1 .. m + n : c[i] = IF i <= m THEN a[i] ELSE b[i - m]
  BY ConcatProperties, LenProperties
<1> HIDE DEF m, n, c
<1>2. \A i \in 1 .. m : i \in 1 .. m + n /\ i <= m
  BY <1>1
<1>3. \A i \in 1 .. n : m + i \in 1 .. m + n /\ ~ (m + i <= m) /\ (m + i) - m = i
  BY <1>1
<1> QED
  BY <1>1, <1>2, <1>3 DEF m, n, c

-----------------------------------------------------------------------------
\* A socket is aligned with the history h.

Aligned(x, h) ==
  /\ x.lastBseq \in 0 .. Len(h) /\ Len(x.live) = Len(h) - x.lastBseq
  /\ \A i \in 1 .. Len(x.live) : /\ x.live[i].bseq = x.lastBseq + i
                                 /\ x.live[i].frame = h[x.lastBseq + i]
  /\ ~ x.resynced =>
       /\ x.after \in 0 .. x.lastBseq /\ Len(x.backlog) = x.lastBseq - x.after
       /\ \A i \in 1 .. Len(x.backlog) : /\ x.backlog[i].bseq = x.after + i
                                         /\ x.backlog[i].frame = h[x.after + i]

\* The items before the first frame of the log, the number before that frame, and the
\* place in the history of a phone that has read n items.
Lead(x)     == IF x.resynced THEN 2 ELSE 1
Begin(x)    == IF x.resynced THEN x.lastBseq ELSE x.after
Place(x, n) == Begin(x) + (IF n <= Lead(x) THEN 0 ELSE n - Lead(x))

\* The hub's socket record y is x with the frames fs delivered (hub.ts, publish).
SameStart(y, x) == /\ y.lastBseq = x.lastBseq /\ y.after = x.after
                   /\ y.resynced = x.resynced /\ y.state = x.state

\* A stream that is handed the frames the history grew by stays aligned.
LEMMA AlignedGrows ==
  ASSUME NEW h \in Seq(Published), NEW fs \in Seq(Published), NEW x, NEW y,
         IsStream(x), Aligned(x, h), SameStart(y, x), y.backlog = x.backlog,
         y.live = x.live \o Numbered(Len(h), fs)
  PROVE  Aligned(y, h \o fs)
<1> DEFINE m == Len(h)
           n == Len(fs)
           l == Len(x.live)
           E == Numbered(m, fs)
           g == h \o fs
<1>1. /\ m \in Nat /\ n \in Nat /\ l \in Nat
      /\ Len(g) = m + n
      /\ \A i \in 1 .. m + n : g[i] = IF i <= m THEN h[i] ELSE fs[i - m]
  BY ConcatProperties, LenProperties DEF IsStream
<1>2. E \in Seq(Envelope) /\ Len(E) = n
      /\ \A i \in 1 .. n : E[i].bseq = m + i /\ E[i].frame = fs[i]
  <2>1. <<>> \in Seq(Envelope) /\ Faithful(<<>>, m, h) /\ m \in 0 .. m
    BY <1>1, NothingIsFaithful, EmptySeq
  <2>2. E \in Seq(Envelope)
    BY <2>1, DeliveryIsFaithful
  <2>3. DOMAIN E = 1 .. n /\ \A i \in 1 .. n : E[i].bseq = m + i /\ E[i].frame = fs[i]
    BY DEF Numbered
  <2> HIDE DEF E
  <2>4. Len(E) \in Nat /\ DOMAIN E = 1 .. Len(E)
    BY <2>2, LenProperties
  <2> QED
    BY <1>1, <2>2, <2>3, <2>4
<1> HIDE DEF E
<1> DEFINE live == x.live
           a == x.lastBseq
<1>3. /\ live \in Seq(Envelope) /\ l = Len(live) /\ y.live = live \o E
      /\ a \in 0 .. m /\ l = m - a
      /\ \A i \in 1 .. l : live[i].bseq = a + i /\ live[i].frame = h[a + i]
  BY DEF IsStream, Aligned, E
<1> HIDE DEF live, a, l, m, n, g
<1>4. /\ Len(y.live) = l + n
      /\ \A i \in 1 .. l : y.live[i] = live[i]
      /\ \A i \in 1 .. n : y.live[l + i] = E[i]
  <2>1. /\ Len(live \o E) = Len(live) + Len(E)
        /\ \A i \in 1 .. Len(live) : (live \o E)[i] = live[i]
        /\ \A i \in 1 .. Len(E) : (live \o E)[Len(live) + i] = E[i]
    <3>1. live \in Seq(Envelope) /\ E \in Seq(Envelope)
      BY <1>2, <1>3
    <3>2. Len(live \o E) = Len(live) + Len(E)
      BY <3>1, Joined
    <3>3. \A i \in 1 .. Len(live) : (live \o E)[i] = live[i]
      BY <3>1, Joined
    <3>4. \A i \in 1 .. Len(E) : (live \o E)[Len(live) + i] = E[i]
      BY <3>1, Joined
    <3> QED
      BY <3>2, <3>3, <3>4
  <2> QED
    BY <1>2, <1>3, <2>1
<1>5. ASSUME NEW i \in 1 .. l + n
      PROVE  y.live[i].bseq = a + i /\ y.live[i].frame = g[a + i]
  <2>1. CASE i <= l
    <3>1. i \in 1 .. l /\ a + i \in 1 .. m + n /\ a + i <= m
      BY <1>1, <1>3, <2>1
    <3> QED
      BY <1>1, <1>3, <1>4, <3>1
  <2>2. CASE ~ (i <= l)
    <3>1. PICK j \in 1 .. n : i = l + j
      <4>1. i - l \in 1 .. n /\ i = l + (i - l)
        BY <1>1, <2>2
      <4> QED
        BY <4>1
    <3>2. a + i = m + j /\ m + j \in 1 .. m + n /\ ~ (m + j <= m) /\ (m + j) - m = j
      BY <1>1, <1>3, <3>1
    <3>3. y.live[i] = E[j] /\ g[m + j] = fs[j]
      BY <1>1, <1>4, <3>1, <3>2
    <3> QED
      BY <1>2, <3>2, <3>3
  <2> QED
    BY <2>1, <2>2
<1>6. ASSUME ~ x.resynced
      PROVE  /\ x.after \in 0 .. x.lastBseq /\ Len(x.backlog) = x.lastBseq - x.after
             /\ \A i \in 1 .. Len(x.backlog) : /\ x.backlog[i].bseq = x.after + i
                                               /\ x.backlog[i].frame = g[x.after + i]
  <2>1. /\ x.after \in 0 .. x.lastBseq /\ Len(x.backlog) = x.lastBseq - x.after
        /\ \A i \in 1 .. Len(x.backlog) : /\ x.backlog[i].bseq = x.after + i
                                          /\ x.backlog[i].frame = h[x.after + i]
    BY <1>6 DEF Aligned
  <2>2. \A i \in 1 .. Len(x.backlog) : x.after + i \in 1 .. m + n /\ x.after + i <= m
    <3> DEFINE c == x.after
               k == Len(x.backlog)
    <3>1. c \in 0 .. a /\ k = a - c
      BY <2>1 DEF a
    <3> HIDE DEF c, k
    <3>2. \A i \in 1 .. k : c + i \in 1 .. m + n /\ c + i <= m
      BY <1>1, <1>3, <3>1
    <3> QED
      BY <3>2 DEF c, k
  <2> QED
    BY <1>1, <2>1, <2>2
<1>7. a \in 0 .. m + n /\ l + n = (m + n) - a
  BY <1>1, <1>3
<1>8. /\ y.lastBseq \in 0 .. Len(g) /\ Len(y.live) = Len(g) - y.lastBseq
      /\ \A i \in 1 .. Len(y.live) : /\ y.live[i].bseq = y.lastBseq + i
                                     /\ y.live[i].frame = g[y.lastBseq + i]
  BY <1>1, <1>4, <1>5, <1>7 DEF SameStart, a
<1> QED
  BY <1>6, <1>8 DEF Aligned, SameStart, g

\* What is sent on a socket, item by item (server.ts, handleUpgrade; hub.ts, publish).
LEMMA SentIsAligned ==
  ASSUME NEW s, IsStream(stream[s]), log \in Seq(Published), Aligned(stream[s], log)
  PROVE  LET x == stream[s]
             n == Len(log) - Begin(x)
         IN  /\ n \in Nat /\ Begin(x) \in Nat
             /\ Len(Sent(s)) = Lead(x) + n
             /\ Sent(s)[1] = Hello(s)
             /\ x.resynced => Sent(s)[2] = Overflow(s)
             /\ \A i \in 1 .. n :
                  Sent(s)[Lead(x) + i] = [kind |-> "log", bseq |-> Begin(x) + i,
                                          frame |-> log[Begin(x) + i]]
<1> DEFINE x == stream[s]
           m == Len(log)
           n == m - Begin(x)
           hello == Hello(s)
           order == Overflow(s)
           It(i) == [kind |-> "log", bseq |-> i, frame |-> log[i]]
           Item == {hello, order}
                   \cup {[kind |-> "log", bseq |-> b, frame |-> f] : b \in Nat, f \in Published}
           live == FromLog(x.live)
           back == FromLog(x.backlog)
<1>1. /\ m \in Nat /\ x.lastBseq \in 0 .. m /\ x.live \in Seq(Envelope)
      /\ x.backlog \in Seq(Envelope) /\ x.after \in Nat /\ x.resynced \in BOOLEAN
      /\ DOMAIN x.live = 1 .. m - x.lastBseq
      /\ \A i \in 1 .. m - x.lastBseq : /\ x.live[i].bseq = x.lastBseq + i
                                        /\ x.live[i].frame = log[x.lastBseq + i]
  BY LenProperties DEF Aligned, IsStream
<1>2. /\ ~ x.resynced =>
           /\ x.after \in 0 .. x.lastBseq /\ DOMAIN x.backlog = 1 .. x.lastBseq - x.after
           /\ \A i \in 1 .. x.lastBseq - x.after : /\ x.backlog[i].bseq = x.after + i
                                                   /\ x.backlog[i].frame = log[x.after + i]
  BY <1>1, LenProperties DEF Aligned
<1>3. n \in Nat /\ Begin(x) \in Nat
  BY <1>1, <1>2 DEF Begin
<1>4. \A i \in 1 .. m : log[i] \in Published /\ It(i) \in Item
  BY <1>1, ElementOfSeq
<1>5. /\ live \in Seq(Item) /\ Len(live) = m - x.lastBseq
      /\ \A i \in 1 .. m - x.lastBseq : live[i] = It(x.lastBseq + i)
  <2>1. /\ DOMAIN live = 1 .. m - x.lastBseq
        /\ \A i \in 1 .. m - x.lastBseq : live[i] = It(x.lastBseq + i)
    BY <1>1 DEF FromLog
  <2>2. \A i \in 1 .. m - x.lastBseq : x.lastBseq + i \in 1 .. m
    BY <1>1
  <2>3. live = [i \in 1 .. m - x.lastBseq |-> live[i]]
    BY <1>1 DEF FromLog
  <2>4. m - x.lastBseq \in Nat
    BY <1>1
  <2>5. \A i \in 1 .. m - x.lastBseq : live[i] \in Item
    BY <1>4, <2>1, <2>2
  <2> HIDE DEF live, Item, It
  <2>6. live \in [1 .. m - x.lastBseq -> Item]
    BY <2>3, <2>5
  <2>7. live \in Seq(Item)
    BY <2>4, <2>6, IsASeq
  <2> QED
    BY <2>1, <2>4, <2>7, LenProperties
<1>6. ASSUME ~ x.resynced
      PROVE  /\ back \in Seq(Item) /\ Len(back) = x.lastBseq - x.after
             /\ \A i \in 1 .. x.lastBseq - x.after : back[i] = It(x.after + i)
  <2>1. /\ DOMAIN back = 1 .. x.lastBseq - x.after
        /\ \A i \in 1 .. x.lastBseq - x.after : back[i] = It(x.after + i)
    BY <1>2, <1>6 DEF FromLog
  <2>2. \A i \in 1 .. x.lastBseq - x.after : x.after + i \in 1 .. m
    BY <1>1, <1>2, <1>6
  <2>3. back = [i \in 1 .. x.lastBseq - x.after |-> back[i]]
    BY <1>2, <1>6 DEF FromLog
  <2>4. x.lastBseq - x.after \in Nat
    BY <1>1, <1>2, <1>6
  <2>5. \A i \in 1 .. x.lastBseq - x.after : back[i] \in Item
    BY <1>4, <2>1, <2>2
  <2> HIDE DEF back, Item, It
  <2>6. back \in [1 .. x.lastBseq - x.after -> Item]
    BY <2>3, <2>5
  <2>7. back \in Seq(Item)
    BY <2>4, <2>6, IsASeq
  <2> QED
    BY <2>1, <2>4, <2>7, LenProperties
<1>7. hello \in Item /\ order \in Item
  OBVIOUS
<1> DEFINE a == x.lastBseq
           c == x.after
           b == Begin(x)
<1>8. /\ m \in Nat /\ n \in Nat /\ a \in Nat /\ b \in Nat
      /\ live \in Seq(Item) /\ Len(live) = m - a /\ n = m - b
      /\ \A i \in 1 .. m - a : live[i] = It(a + i)
  BY <1>1, <1>3, <1>5
<1>9. CASE x.resynced
  <2>1. Sent(s) = (<<hello>> \o <<order>>) \o live
    BY <1>9 DEF Sent
  <2>2. b = a /\ Lead(x) = 2
    BY <1>9 DEF Begin, Lead
  <2> DEFINE first == <<hello>> \o <<order>>
  <2>3. /\ first \in Seq(Item) /\ Len(first) = 2 /\ first[1] = hello /\ first[2] = order
    <3> HIDE DEF hello, order, Item
    <3>1. <<hello>> \in Seq(Item) /\ <<order>> \in Seq(Item)
      BY <1>7
    <3>2. Len(<<hello>>) = 1 /\ Len(<<order>>) = 1 /\ 1 \in 1 .. 1
          /\ <<hello>>[1] = hello /\ <<order>>[1] = order
      OBVIOUS
    <3> QED
      BY <3>1, <3>2, Joined
  <2>4. Sent(s) = first \o live
    BY <2>1
  <2> HIDE DEF first, live, It, Item, m, n, a, b
  <2>5. /\ Len(first \o live) = Len(first) + Len(live)
        /\ \A i \in 1 .. Len(first) : (first \o live)[i] = first[i]
        /\ \A i \in 1 .. Len(live) : (first \o live)[Len(first) + i] = live[i]
    <3>1. first \in Seq(Item) /\ live \in Seq(Item)
      BY <1>8, <2>3
    <3>2. Len(first \o live) = Len(first) + Len(live)
      BY <3>1, Joined
    <3>3. \A i \in 1 .. Len(first) : (first \o live)[i] = first[i]
      BY <3>1, Joined
    <3>4. \A i \in 1 .. Len(live) : (first \o live)[Len(first) + i] = live[i]
      BY <3>1, Joined
    <3> QED
      BY <3>2, <3>3, <3>4
  <2>6. /\ Len(Sent(s)) = 2 + n /\ Sent(s)[1] = hello /\ Sent(s)[2] = order
        /\ \A i \in 1 .. n : Sent(s)[2 + i] = It(b + i)
    <3>1. Len(live) = n /\ 1 \in 1 .. 2 /\ 2 \in 1 .. 2
      BY <1>8, <2>2
    <3>2. /\ Len(Sent(s)) = 2 + n
          /\ \A i \in 1 .. 2 : Sent(s)[i] = first[i]
          /\ \A i \in 1 .. n : Sent(s)[2 + i] = live[i]
      BY <2>3, <2>4, <2>5, <3>1
    <3> QED
      BY <1>8, <2>2, <2>3, <3>1, <3>2
  <2> QED
    BY <1>8, <2>2, <2>6 DEF m, n, b, It
<1>10. CASE ~ x.resynced
  <2>1. Sent(s) = (<<hello>> \o back) \o live
    BY <1>10 DEF Sent
  <2>2. b = c /\ Lead(x) = 1
    BY <1>10 DEF Begin, Lead
  <2> DEFINE k == a - c
             first == <<hello>> \o back
  <2>3. /\ back \in Seq(Item) /\ Len(back) = k /\ k \in Nat /\ c \in Nat
        /\ \A i \in 1 .. k : back[i] = It(c + i)
    BY <1>1, <1>2, <1>6, <1>10
  <2>4. /\ first \in Seq(Item) /\ Len(first) = 1 + k /\ first[1] = hello
        /\ \A i \in 1 .. k : first[1 + i] = back[i]
    <3> HIDE DEF hello, Item, back, k
    <3>1. <<hello>> \in Seq(Item)
      BY <1>7
    <3>2. Len(<<hello>>) = 1 /\ 1 \in 1 .. 1 /\ <<hello>>[1] = hello
      OBVIOUS
    <3> QED
      BY <2>3, <3>1, <3>2, Joined
  <2>5. Sent(s) = first \o live
    BY <2>1
  <2>6. k = a - c
    OBVIOUS
  <2> HIDE DEF first, live, back, It, Item, m, n, a, b, c, k
  <2>7. /\ Len(first \o live) = (1 + k) + (m - a)
        /\ \A i \in 1 .. 1 + k : (first \o live)[i] = first[i]
        /\ \A i \in 1 .. m - a : (first \o live)[(1 + k) + i] = live[i]
    <3>1. /\ Len(first \o live) = Len(first) + Len(live)
          /\ \A i \in 1 .. Len(first) : (first \o live)[i] = first[i]
          /\ \A i \in 1 .. Len(live) : (first \o live)[Len(first) + i] = live[i]
      <4>1. first \in Seq(Item) /\ live \in Seq(Item)
        BY <1>8, <2>4
      <4>2. Len(first \o live) = Len(first) + Len(live)
        BY <4>1, Joined
      <4>3. \A i \in 1 .. Len(first) : (first \o live)[i] = first[i]
        BY <4>1, Joined
      <4>4. \A i \in 1 .. Len(live) : (first \o live)[Len(first) + i] = live[i]
        BY <4>1, Joined
      <4> QED
        BY <4>2, <4>3, <4>4
    <3> QED
      BY <1>8, <2>4, <3>1
  <2>8. (1 + k) + (m - a) = 1 + n
    <3>1. a \in Nat /\ m \in Nat /\ n = m - c
      BY <1>8, <2>2
    <3>2. k = a - c /\ c \in Nat
      BY <2>3, <2>6
    <3> QED
      BY <3>1, <3>2
  <2>9. ASSUME NEW i \in 1 .. n
        PROVE  Sent(s)[1 + i] = It(b + i)
    <3>1. CASE i <= k
      <4>1. i \in 1 .. k /\ 1 + i \in 1 .. 1 + k
        <5>1. k \in Nat /\ n \in Nat
          BY <1>8, <2>3
        <5> QED
          BY <3>1, <5>1
      <4> QED
        BY <2>2, <2>3, <2>4, <2>5, <2>7, <4>1
    <3>2. CASE ~ (i <= k)
      <4>1. PICK j \in 1 .. m - a : j = i - k
        BY <1>8, <2>2, <2>3, <2>6, <3>2
      <4>2. 1 + i = (1 + k) + j /\ b + i = a + j
        BY <1>8, <2>2, <2>3, <2>6, <4>1
      <4>3. Sent(s)[(1 + k) + j] = It(a + j)
        BY <1>8, <2>5, <2>7
      <4> QED
        BY <4>2, <4>3
    <3> QED
      BY <3>1, <3>2
  <2>10. Len(Sent(s)) = 1 + n /\ Sent(s)[1] = hello
    <3>1. 1 \in 1 .. 1 + k
      BY <2>3
    <3> QED
      BY <2>4, <2>5, <2>7, <2>8, <3>1
  <2> QED
    BY <1>8, <1>10, <2>2, <2>9, <2>10 DEF m, n, b, It
<1> QED
  BY <1>9, <1>10

-----------------------------------------------------------------------------
\* The invariant.

HistoryRead == [step : {"none", "asked", "answered", "done"}, of : Nat, base : Nat]
View(e) == [of : Nat, base : Nat, folded : SUBSET ((1 .. e) \X Nat),
            kept : SUBSET ((1 .. e) \X Nat)]
ResumeTypes ==
  /\ epoch \in Nat \ {0} /\ cursor \in Nat /\ got \in Nat
  /\ socket \in Stream \cup {NoStream}
  /\ resync \in HistoryRead
  /\ view \in View(epoch)
  /\ socket = NoStream <=> phoneState = "reconnecting"

SocketsAreAligned == \A s \in Subscribers : Aligned(stream[s], log)

\* The phone reads on a socket that the bridge keeps, and no further than was sent.
Reading == socket # NoStream /\ stream[socket].state = "live"
ReadsOn ==
  Reading => /\ got <= Lead(stream[socket]) + (Len(log) - Begin(stream[socket]))
             /\ got = 0 => cursor = stream[socket].after

\* What was folded of this bridge process lies behind the phone's place.
NothingFoldedAhead ==
  \A i \in Nat : <<epoch, i>> \in view.folded =>
    /\ i <= cursor /\ i <= Len(log)
    /\ Reading => i <= Place(stream[socket], got)

\* Up to `upto`, a phone with this baseline and these kept frames accounts for every
\* frame of the history h of the first bridge process, and was fetched anew after every
\* restart of dsh.
Accounts(base, upto, h, kept) ==
  \A i \in 1 .. upto : /\ h[i] = DshRestarted => i <= base
                       /\ h[i] \in Offered /\ base < i => <<1, i>> \in kept

\* So does what is shown, unless it waits for a read of the history; and so will an answer
\* that has been given, unless something newer has come to be shown since.
Accounted(read, shown, upto, h) ==
  /\ read.step \in {"none", "done"} => Accounts(shown.base, upto, h, shown.kept)
  /\ read.step = "answered" =>
       /\ read.of = 1
       /\ shown.base <= read.base => Accounts(read.base, upto, h, shown.kept)

\* How far the phone is; between two connections its cursor says so.
Reached == IF Reading /\ got > 0 THEN Place(stream[socket], got) ELSE cursor
Unharmed ==
  /\ epoch = 1 /\ view.of = 1
  /\ socket # NoStream => stream[socket].state = "live"
  /\ cursor <= Len(log) /\ Reached <= Len(log)
  /\ Reading => stream[socket].after <= stream[socket].lastBseq
  /\ Reading /\ got > 0 => cursor = Larger(stream[socket].lastBseq, Reached)
  /\ Accounted(resync, view, Reached, log)

NoLoss == mishaps \subseteq Harmless
PhoneInv == ResumeTypes /\ ReadsOn /\ NothingFoldedAhead /\ (NoLoss => Unharmed)
ResumeInv == HubInv /\ SocketsAreAligned /\ PhoneInv

\* A longer history accounts for as much as before.
LEMMA AccountsLasts ==
  ASSUME NEW read, NEW shown, NEW upto \in Nat, NEW h, NEW g, NEW n \in Nat, upto <= n,
         \A i \in 1 .. n : g[i] = h[i],
         Accounted(read, shown, upto, h)
  PROVE  Accounted(read, shown, upto, g)
<1>1. \A i \in 1 .. upto : i \in 1 .. n
  OBVIOUS
<1>2. ASSUME NEW base, NEW kept, Accounts(base, upto, h, kept)
      PROVE  Accounts(base, upto, g, kept)
  BY <1>1, <1>2 DEF Accounts
<1> QED
  BY <1>2 DEF Accounted

\* The facts of an aligned socket that the phone's place depends on.
LEMMA PlaceFacts ==
  ASSUME HubInv, SocketsAreAligned, NEW s \in Subscribers
  PROVE  /\ s \in Stream /\ IsStream(stream[s]) /\ Aligned(stream[s], log)
         /\ Len(log) \in Nat /\ Begin(stream[s]) \in 0 .. Len(log)
         /\ stream[s].lastBseq \in 0 .. Len(log) /\ stream[s].after \in Nat
         /\ Lead(stream[s]) \in {1, 2}
         /\ \A n \in Nat : Place(stream[s], n) \in Nat
<1> DEFINE x == stream[s]
           b == Begin(x)
           l == Lead(x)
<1>1. s \in Stream /\ IsStream(x) /\ Aligned(x, log) /\ Len(log) \in Nat
  BY LenProperties DEF Subscribers, HubInv, HubTypes, SocketsAreAligned
<1>2. b \in 0 .. Len(log) /\ x.lastBseq \in 0 .. Len(log) /\ x.after \in Nat
  BY <1>1 DEF Begin, Aligned, IsStream
<1>3. l \in {1, 2}
  BY DEF Lead
<1>4. \A n : Place(x, n) = b + (IF n <= l THEN 0 ELSE n - l)
  BY DEF Place
<1> HIDE DEF b, l, x
<1>5. \A n \in Nat : Place(x, n) \in Nat
  BY <1>1, <1>2, <1>3, <1>4
<1> QED
  BY <1>1, <1>2, <1>3, <1>5 DEF b, l, x

\* A step of the hub that leaves the phone alone: the history grows, and what the hub keeps
\* of a socket's start stays.
LEMMA PhoneStays ==
  ASSUME ResumeInv, UNCHANGED <<epoch, phoneVars, mishaps>>,
         Len(log') \in Nat, Len(log) <= Len(log'),
         \A i \in 1 .. Len(log) : log'[i] = log[i],
         \A s \in Stream : SameStart(stream'[s], stream[s])
  PROVE  PhoneInv'
<1>1. /\ HubInv /\ SocketsAreAligned /\ ResumeTypes /\ ReadsOn /\ NothingFoldedAhead
      /\ UNCHANGED <<epoch, phoneState, cursor, socket, got, resync, view, mishaps>>
  BY DEF ResumeInv, PhoneInv, phoneVars, streamVars
<1>2. Len(log) \in Nat
  BY LenProperties DEF ResumeInv, HubInv, HubTypes
<1>3. ResumeTypes'
  BY <1>1 DEF ResumeTypes
<1> DEFINE x == stream[socket]
           y == stream'[socket]
<1>4. /\ Reading' <=> Reading
      /\ Reading => /\ Lead(y) = Lead(x) /\ Begin(y) = Begin(x) /\ y.after = x.after
                    /\ y.lastBseq = x.lastBseq
                    /\ \A n : Place(y, n) = Place(x, n)
                    /\ Lead(x) \in {1, 2} /\ Begin(x) \in 0 .. Len(log)
                    /\ Place(x, got) \in Nat
  <2>1. socket # NoStream => SameStart(y, x)
    BY <1>1 DEF ResumeTypes
  <2>2. Reading' <=> Reading
    BY <1>1, <2>1 DEF Reading, SameStart
  <2>3. ASSUME Reading
        PROVE  /\ Lead(y) = Lead(x) /\ Begin(y) = Begin(x) /\ y.after = x.after
               /\ y.lastBseq = x.lastBseq
               /\ \A n : Place(y, n) = Place(x, n)
    <3>1. SameStart(y, x)
      BY <2>1, <2>3 DEF Reading
    <3> QED
      BY <3>1 DEF SameStart, Lead, Begin, Place
  <2>4. ASSUME Reading
        PROVE  Lead(x) \in {1, 2} /\ Begin(x) \in 0 .. Len(log) /\ Place(x, got) \in Nat
    <3>1. socket \in Subscribers /\ got \in Nat
      BY <1>1, <2>4 DEF Reading, Subscribers, ResumeTypes
    <3> QED
      BY <1>1, <3>1, PlaceFacts
  <2> QED
    BY <2>2, <2>3, <2>4
<1>5. stream'[socket'] = y
  BY <1>1
<1> HIDE DEF x, y
<1>6. ReadsOn'
  <2>1. CASE ~ Reading
    BY <1>4, <2>1 DEF ReadsOn
  <2>2. CASE Reading
    <3>1. got <= Lead(x) + (Len(log) - Begin(x)) /\ (got = 0 => cursor = x.after)
      BY <1>1, <2>2 DEF ReadsOn, x
    <3>2. got \in Nat
      BY <1>1 DEF ResumeTypes
    <3>3. got <= Lead(x) + (Len(log') - Begin(x))
      BY <1>2, <1>4, <2>2, <3>1, <3>2
    <3>4. got' <= Lead(y) + (Len(log') - Begin(y)) /\ (got' = 0 => cursor' = y.after)
      BY <1>1, <1>4, <2>2, <3>1, <3>3
    <3> QED
      BY <1>5, <3>4 DEF ReadsOn
  <2> QED
    BY <2>1, <2>2
<1>7. NothingFoldedAhead'
  <2> SUFFICES ASSUME NEW i \in Nat, <<epoch, i>> \in view.folded
               PROVE  /\ i <= cursor /\ i <= Len(log')
                      /\ Reading => i <= Place(y, got)
    BY <1>1, <1>4, <1>5 DEF NothingFoldedAhead
  <2>1. i <= cursor /\ i <= Len(log) /\ (Reading => i <= Place(x, got))
    BY <1>1 DEF NothingFoldedAhead, x
  <2> QED
    BY <1>2, <1>4, <2>1
<1>8. ASSUME Unharmed
      PROVE  Unharmed'
  <2>1. Reached' = Reached
    BY <1>1, <1>4, <1>5 DEF Reached, x
  <2>2. Reached \in Nat
    BY <1>1, <1>4 DEF Reached, ResumeTypes, x
  <2>3. Reached <= Len(log) /\ cursor <= Len(log) /\ cursor \in Nat
    BY <1>1, <1>8 DEF Unharmed, ResumeTypes
  <2>4. Reached' <= Len(log') /\ cursor' <= Len(log')
    BY <1>1, <1>2, <2>1, <2>2, <2>3
  <2>5. Accounted(resync, view, Reached, log')
    <3>1. Accounted(resync, view, Reached, log)
      BY <1>8 DEF Unharmed
    <3> QED
      BY <1>2, <2>2, <2>3, <3>1, AccountsLasts
  <2>6. socket' # NoStream => stream'[socket'].state = "live"
    BY <1>1, <1>4, <1>8 DEF Unharmed, Reading
  <2>7. /\ Reading' => stream'[socket'].after <= stream'[socket'].lastBseq
        /\ Reading' /\ got' > 0 => cursor' = Larger(stream'[socket'].lastBseq, Reached')
    BY <1>1, <1>4, <1>5, <1>8, <2>1 DEF Unharmed, x
  <2>8. epoch' = 1 /\ view'.of = 1 /\ Accounted(resync', view', Reached', log')
    BY <1>1, <1>8, <2>1, <2>5 DEF Unharmed
  <2> QED
    BY <2>4, <2>6, <2>7, <2>8 DEF Unharmed
<1> QED
  BY <1>1, <1>3, <1>6, <1>7, <1>8 DEF PhoneInv, ResumeInv, NoLoss

-----------------------------------------------------------------------------
\* The steps of the bridge.

\* Whatever dsh does reaches the sockets as a growth of the history (hub.ts, ingestMux,
\* onDshReady and onDshDisconnected).
LEMMA DshGrows ==
  ASSUME HubInv,
         (\E f \in MuxFrame : IngestMux(f)) \/ OnDshReady \/ OnDshDisconnected
  PROVE  HubInv' /\ \E fs : Grows(fs)
<1>1. HubInv'
  BY CallsKeepInv DEF HubCall
<1>2. HubTypes /\ generation \in Nat
  BY DEF HubInv, HubTypes
<1>3. ASSUME NEW f \in Published, Publish(f)
      PROVE  \E fs : Grows(fs)
  BY <1>2, <1>3, PublishGrows
<1>4. ASSUME NEW f \in MuxFrame, IngestMux(f)
      PROVE  \E fs : Grows(fs)
  BY <1>3, <1>4, FramesArePublished DEF IngestMux
<1>5. ASSUME OnDshReady
      PROVE  \E fs : Grows(fs)
  <2>1. CASE generation > 0
    BY <1>2, <1>5, <2>1, RestartGrows
  <2>2. CASE ~ (generation > 0)
    BY <1>3, <1>5, <2>2, FramesArePublished DEF OnDshReady
  <2> QED
    BY <2>1, <2>2
<1>6. ASSUME OnDshDisconnected
      PROVE  \E fs : Grows(fs)
  BY <1>3, <1>6, FramesArePublished DEF OnDshDisconnected
<1> QED
  BY <1>1, <1>4, <1>5, <1>6

\* The hub publishes; the phone's place does not move.
LEMMA GrowthKeepsResume ==
  ASSUME ResumeInv, HubInv', NEW fs, Grows(fs), UNCHANGED <<epoch, phoneVars, mishaps>>
  PROVE  ResumeInv'
<1>1. HubTypes /\ SocketsAreAligned
  BY DEF ResumeInv, HubInv
<1>2. /\ log \in Seq(Published) /\ fs \in Seq(Published) /\ log' = log \o fs
      /\ \A s \in Stream : stream'[s] = IF s \in Subscribers
           THEN [stream[s] EXCEPT !.live = @ \o Numbered(Len(log), fs)] ELSE stream[s]
  BY <1>1 DEF HubTypes, Grows, Deliver
<1>3. ASSUME NEW s \in Stream
      PROVE  /\ SameStart(stream'[s], stream[s])
             /\ stream'[s].state = "live" => Aligned(stream'[s], log')
  <2>1. CASE s \in Subscribers
    <3>1. IsStream(stream[s]) /\ Aligned(stream[s], log)
      BY <1>1, <2>1 DEF HubTypes, SocketsAreAligned
    <3>2. stream'[s] = [stream[s] EXCEPT !.live = @ \o Numbered(Len(log), fs)]
      BY <1>2, <2>1
    <3> DEFINE x == stream[s]
               y == stream'[s]
               E == Numbered(Len(log), fs)
    <3>3. /\ SameStart(y, x) /\ y.backlog = x.backlog /\ y.live = x.live \o E
      BY <3>1, <3>2 DEF IsStream, SameStart
    <3>4. IsStream(x) /\ Aligned(x, log)
      BY <3>1
    <3> HIDE DEF x, y
    <3>5. Aligned(y, log \o fs)
      BY <1>2, <3>3, <3>4, AlignedGrows
    <3> QED
      BY <1>2, <3>3, <3>5 DEF x, y
  <2>2. CASE s \notin Subscribers
    BY <1>2, <2>2 DEF Subscribers, SameStart
  <2> QED
    BY <2>1, <2>2
<1>4. SocketsAreAligned'
  BY <1>3 DEF SocketsAreAligned, Subscribers
<1>5. /\ Len(log') \in Nat /\ Len(log) <= Len(log')
      /\ \A i \in 1 .. Len(log) : log'[i] = log[i]
  <2>1. Len(log) \in Nat /\ Len(fs) \in Nat /\ Len(log') = Len(log) + Len(fs)
    BY <1>2, ConcatProperties, LenProperties
  <2>2. \A i \in 1 .. Len(log) : (log \o fs)[i] = log[i]
    BY <1>2, Joined
  <2> QED
    BY <1>2, <2>1, <2>2
<1>6. PhoneInv'
  BY <1>3, <1>5, PhoneStays
<1> QED
  BY <1>4, <1>6 DEF ResumeInv

\* What dsh does.
LEMMA DshKeepsResume ==
  ASSUME ResumeInv, DshEvent \/ DshLost \/ DshBack
  PROVE  ResumeInv'
<1>1. /\ (\E f \in MuxFrame : IngestMux(f)) \/ OnDshReady \/ OnDshDisconnected
      /\ UNCHANGED <<epoch, phoneVars, mishaps>>
  BY DEF DshEvent, DshLost, DshBack
<1>2. HubInv' /\ \E fs : Grows(fs)
  BY <1>1, DshGrows DEF ResumeInv
<1> QED
  BY <1>1, <1>2, GrowthKeepsResume

\* A step that neither the hub nor the bridge process takes part in.
LEMMA BridgeIdle ==
  ASSUME ResumeInv, UNCHANGED hubVars
  PROVE  HubInv' /\ SocketsAreAligned' /\ log' = log /\ stream' = stream
<1>1. HubInv'
  BY StutterKeepsInv DEF ResumeInv
<1>2. log' = log /\ stream' = stream
  BY DEF hubVars
<1> QED
  BY <1>1, <1>2 DEF ResumeInv, SocketsAreAligned, Subscribers

\* A hub that has just been created: the invariant holds of it, whatever became of the
\* sockets of the process before.
FreshHub ==
  /\ ring = FreshRing /\ log = <<>>
  /\ snapshots = <<>> /\ projectionSeq = <<>>
  /\ pending = {} /\ byApprovalId = {} /\ consumed = {}
  /\ generation = 0
  /\ DOMAIN stream = Stream /\ Subscribers = {} /\ \A s \in Stream : IsStream(stream[s])

\* A new process of the bridge, with the sockets of the one before closed.
LEMMA FreshHubHasInv == FreshHub => HubInv
<1> SUFFICES ASSUME FreshHub PROVE HubInv
  OBVIOUS
<1>1. /\ ring.entries = <<>> /\ log = <<>> /\ Len(log) = 0
      /\ ring.nextBseq = 1 /\ ring.lastAssigned = 0 /\ ring.evictedThrough = 0
      /\ DOMAIN ring = {"entries", "bytes", "nextBseq", "lastAssigned", "evictedThrough"}
      /\ generation = 0 /\ pending = {} /\ byApprovalId = {}
      /\ snapshots = <<>> /\ projectionSeq = <<>>
  BY EmptySeq DEF FreshHub, FreshRing
<1>2. log \in Seq(Published) /\ IsRing(ring, Published) /\ Retains(ring, log)
  BY <1>1, EmptySeq DEF IsRing, Retains
<1>3. HubTypes /\ StreamsAreFaithful /\ EveryPhoneWasAsked
  BY <1>1, <1>2 DEF FreshHub, HubTypes, StreamsAreFaithful, EveryPhoneWasAsked
<1>4. IsStart(log, 1) /\ StartIn(log) = 1
  <2>1. IsStart(log, 1)
    BY <1>1 DEF IsStart
  <2> QED
    BY <1>2, <2>1, StartIsUnique
<1>5. /\ \A r : ~ Asked(log, 1, r)
      /\ \A s : Projected(log, 1, s) = {}
  BY <1>1 DEF Asked, Projected
<1>6. Ledger
  BY <1>1, <1>4, <1>5 DEF Ledger, StartIsKnown, ObligationsAreOpen, ProjectionOf
<1> QED
  BY <1>3, <1>6 DEF HubInv

\* The same of the next state.
LEMMA FreshHubHasInvNext == FreshHub' => HubInv'
  BY FreshHubHasInv, PTL

\* A restart of the bridge leaves no socket to read on and no frame of the new process
\* folded; it is a mishap, so nothing else is claimed.
LEMMA BridgeRestartsKeepsInv ==
  ASSUME ResumeInv, BridgeRestarts
  PROVE  ResumeInv'
<1>1. /\ HubInv /\ HubTypes /\ ResumeTypes
      /\ epoch' = epoch + 1 /\ ~ NoLoss'
      /\ UNCHANGED <<phoneState, cursor, socket, got, resync, view>>
  BY DEF ResumeInv, PhoneInv, HubInv, BridgeRestarts, phoneVars, streamVars, NoLoss, Note, Harmless
<1>2. ASSUME NEW s \in Stream
      PROVE  IsStream(stream'[s]) /\ stream'[s].state # "live"
  <2>1. CASE stream[s].state = "live"
    BY <2>1, UnattachedIsStream DEF BridgeRestarts, IsStream
  <2>2. CASE stream[s].state # "live"
    BY <1>1, <2>2 DEF BridgeRestarts, HubTypes
  <2> QED
    BY <2>1, <2>2
<1>3. FreshHub'
  BY <1>2 DEF FreshHub, BridgeRestarts, Subscribers
<1>4. HubInv'
  BY <1>3, FreshHubHasInvNext
<1>5. SocketsAreAligned'
  BY <1>2 DEF SocketsAreAligned, Subscribers
<1>6. epoch \in Nat \ {0} /\ epoch + 1 \in Nat \ {0}
  BY <1>1 DEF ResumeTypes
<1>7. /\ view.folded \subseteq (1 .. epoch) \X Nat /\ view.kept \subseteq (1 .. epoch) \X Nat
      /\ (1 .. epoch) \X Nat \subseteq (1 .. epoch + 1) \X Nat
  BY <1>1, <1>6 DEF ResumeTypes, View
<1>8. view \in View(epoch + 1)
  BY <1>1, <1>7 DEF ResumeTypes, View
<1>9. ResumeTypes'
  BY <1>1, <1>6, <1>8 DEF ResumeTypes
<1>10. ~ Reading'
  BY <1>1, <1>2 DEF Reading, ResumeTypes
<1>11. \A i \in Nat : <<epoch + 1, i>> \notin view.folded
  BY <1>6, <1>7
<1>12. ReadsOn' /\ NothingFoldedAhead'
  BY <1>1, <1>10, <1>11 DEF ReadsOn, NothingFoldedAhead
<1> QED
  BY <1>1, <1>4, <1>5, <1>9, <1>12 DEF ResumeInv, PhoneInv

-----------------------------------------------------------------------------
\* The steps of the phone.

\* A new socket is aligned: its delta ends where the hello says (hub.ts, attach; ring.ts,
\* readAfter).
LEMMA AttachAligns ==
  ASSUME HubInv, NEW s \in Stream, NEW after \in Nat, Attach(s, after)
  PROVE  /\ HubInv' /\ log' = log
         /\ \A t \in Stream \ {s} : stream'[t] = stream[t]
         /\ stream'[s].state = "live" /\ Aligned(stream'[s], log)
         /\ stream'[s].after = after /\ stream'[s].lastBseq = Len(log)
<1> DEFINE read == ReadAfter(ring, after)
           x == stream'[s]
<1>1. HubInv' /\ HubTypes
  BY CallsKeepInv DEF HubCall, HubInv
<1>2. \A t \in Stream \ {s} : stream'[t] = stream[t]
  BY <1>1 DEF Attach, AttachWith, HubTypes
<1>3. log' = log /\ ring.lastAssigned = Len(log) /\ Len(log) \in Nat /\ log \in Seq(Published)
  BY <1>1, LenProperties DEF Attach, AttachWith, HubTypes, Retains
<1>4. /\ x.state = "live" /\ x.after = after /\ x.resynced = (~ read.ok)
      /\ x.lastBseq = read.lastBseq /\ x.backlog = read.frames /\ x.live = <<>>
  BY <1>1 DEF Attach, AttachWith, HubTypes, unattached
<1>5. Len(<<>>) = 0 /\ Len(log) \in 0 .. Len(log)
  BY <1>3, EmptySeq
<1> HIDE DEF x
<1>6. CASE Refuses(ring, after)
  <2>1. read = [ok |-> FALSE, frames |-> <<>>, lastBseq |-> Len(log)]
    BY <1>3, <1>6 DEF ReadAfter
  <2>2. read.ok = FALSE /\ read.lastBseq = Len(log)
    BY <2>1
  <2> HIDE DEF read
  <2>3. x.resynced = TRUE /\ x.lastBseq = Len(log)
    BY <1>4, <2>2, Zenon
  <2>4. Aligned(x, log)
    BY <1>3, <1>4, <1>5, <2>3 DEF Aligned
  <2> QED
    BY <1>1, <1>2, <1>3, <1>4, <2>3, <2>4 DEF x
<1>7. CASE ~ Refuses(ring, after)
  <2>1. read = [ok |-> TRUE, frames |-> FramesAfter(ring, after), lastBseq |-> Len(log)]
    BY <1>3, <1>7 DEF ReadAfter
  <2>2. after \in 0 .. Len(log) /\ FramesAfter(ring, after) = SuffixOf(log, after)
    BY <1>1, <1>7, DeltaIsSuffix DEF HubTypes
  <2>3. read.lastBseq = Len(log) /\ read.frames = SuffixOf(log, after)
    BY <2>1, <2>2
  <2> HIDE DEF read
  <2>4. x.lastBseq = Len(log) /\ x.backlog = SuffixOf(log, after)
    BY <1>4, <2>3
  <2> DEFINE d == SuffixOf(log, after)
  <2>5. /\ DOMAIN d = 1 .. Len(log) - after
        /\ \A i \in 1 .. Len(log) - after : d[i].bseq = after + i /\ d[i].frame = log[after + i]
    BY DEF SuffixOf
  <2>6. d \in Seq(Envelope)
    BY <1>3, <2>2, DeltaIsFaithful
  <2> HIDE DEF d
  <2>7. Len(d) = Len(log) - after
    <3>1. Len(d) \in Nat /\ DOMAIN d = 1 .. Len(d)
      BY <2>6, LenProperties
    <3>2. Len(log) - after \in Nat
      BY <1>3, <2>2
    <3> QED
      BY <2>5, <3>1, <3>2
  <2>8. Aligned(x, log)
    <3>1. x.backlog = d
      BY <2>4 DEF d
    <3> QED
      BY <1>3, <1>4, <1>5, <2>2, <2>4, <2>5, <2>7, <3>1 DEF Aligned
  <2> QED
    BY <1>1, <1>2, <1>3, <1>4, <2>4, <2>8 DEF x
<1> QED
  BY <1>6, <1>7

\* The phone asks for what follows its cursor, which is where it is (core.ts, openStream).
LEMMA OpenStreamKeepsInv ==
  ASSUME ResumeInv, NEW s \in Stream, OpenStream(s)
  PROVE  ResumeInv'
<1>1. /\ HubInv /\ SocketsAreAligned /\ ResumeTypes /\ NothingFoldedAhead
      /\ Attach(s, cursor) /\ cursor \in Nat /\ epoch \in Nat \ {0}
      /\ phoneState = "reconnecting" /\ socket = NoStream
      /\ phoneState' = "connecting" /\ socket' = s /\ got' = 0
      /\ view' = IF cursor = 0 THEN EmptyView(epoch) ELSE view
      /\ UNCHANGED <<epoch, cursor, resync, mishaps>>
      /\ s # NoStream
  BY ResumeAssumption DEF ResumeInv, PhoneInv, OpenStream, ResumeTypes
<1>2. /\ HubInv' /\ log' = log
      /\ \A t \in Stream \ {s} : stream'[t] = stream[t]
      /\ stream'[s].state = "live" /\ Aligned(stream'[s], log)
      /\ stream'[s].after = cursor /\ stream'[s].lastBseq = Len(log)
  BY <1>1, AttachAligns
<1>3. SocketsAreAligned'
  BY <1>1, <1>2 DEF SocketsAreAligned, Subscribers
<1>4. ResumeTypes'
  <2>1. view' \in View(epoch)
    BY <1>1 DEF ResumeTypes, EmptyView, View
  <2> QED
    BY <1>1, <2>1 DEF ResumeTypes
<1> DEFINE x == stream'[s]
<1>5. s \in Subscribers'
  BY <1>2 DEF Subscribers
<1>6. /\ Len(log) \in Nat /\ Lead(x) \in {1, 2} /\ Begin(x) \in 0 .. Len(log)
      /\ Begin(x) = IF x.resynced THEN Len(log) ELSE cursor
      /\ Place(x, 0) = Begin(x)
  <2>1. Len(log) \in Nat
    BY <1>1, LenProperties DEF HubInv, HubTypes
  <2>2. Begin(x) = IF x.resynced THEN Len(log) ELSE cursor
    BY <1>2 DEF Begin
  <2>3. Begin(x) \in 0 .. Len(log)
    BY <1>2, <2>1, <2>2 DEF Aligned
  <2>4. Lead(x) \in {1, 2}
    BY DEF Lead
  <2>5. Place(x, 0) = Begin(x) + (IF 0 <= Lead(x) THEN 0 ELSE 0 - Lead(x))
    BY DEF Place
  <2> HIDE DEF x
  <2> QED
    BY <2>1, <2>2, <2>3, <2>4, <2>5
<1>7. Reading' /\ stream'[socket'] = x
  BY <1>1, <1>2 DEF Reading
<1>8. x.after = cursor /\ x.lastBseq = Len(log)
  BY <1>2
<1> HIDE DEF x
<1>9. ReadsOn'
  <2>1. got' <= Lead(x) + (Len(log') - Begin(x))
    BY <1>1, <1>2, <1>6
  <2> QED
    BY <1>1, <1>7, <1>8, <2>1 DEF ReadsOn
<1>10. NothingFoldedAhead'
  <2> SUFFICES ASSUME NEW i \in Nat, <<epoch, i>> \in view'.folded
               PROVE  i <= cursor /\ i <= Len(log) /\ i <= Place(x, 0)
    BY <1>1, <1>2, <1>7 DEF NothingFoldedAhead
  <2>1. <<epoch, i>> \in view.folded
    BY <1>1 DEF EmptyView
  <2>2. i <= cursor /\ i <= Len(log)
    BY <1>1, <2>1 DEF NothingFoldedAhead
  <2> QED
    BY <1>6, <2>2
<1>11. ASSUME NoLoss'
       PROVE  Unharmed'
  <2>1. Unharmed /\ ~ Reading /\ Reached = cursor
    BY <1>1, <1>11 DEF ResumeInv, PhoneInv, Reading, Reached, NoLoss
  <2>2. Reached' = cursor
    BY <1>1 DEF Reached
  <2>3. epoch = 1 /\ cursor <= Len(log) /\ Accounted(resync, view, cursor, log)
    BY <2>1 DEF Unharmed
  <2>4. view'.of = 1
    BY <1>1, <2>1 DEF Unharmed, EmptyView
  <2>5. Accounted(resync, view', cursor, log)
    <3>1. CASE cursor = 0
      <4>1. \A b, f : Accounts(b, cursor, log, f)
        BY <3>1 DEF Accounts
      <4> QED
        BY <2>3, <4>1 DEF Accounted
    <3>2. CASE cursor # 0
      BY <1>1, <2>3, <3>2
    <3> QED
      BY <3>1, <3>2
  <2>6. socket' # NoStream => stream'[socket'].state = "live"
    BY <1>7 DEF Reading
  <2>7. /\ Reading' => stream'[socket'].after <= stream'[socket'].lastBseq
        /\ ~ (got' > 0)
    BY <1>1, <1>7, <1>8, <2>3
  <2> QED
    BY <1>1, <1>2, <2>2, <2>3, <2>4, <2>5, <2>6, <2>7 DEF Unharmed
<1> QED
  BY <1>2, <1>3, <1>4, <1>9, <1>10, <1>11 DEF ResumeInv, PhoneInv

\* Whoever read a delta to its end is where its cursor says.
LEMMA DeltaReadToItsEnd ==
  ASSUME ResumeInv, Unharmed, socket # NoStream, ~ Torn
  PROVE  Reached = cursor
<1>1. /\ HubInv /\ SocketsAreAligned /\ ResumeTypes
      /\ Reading /\ socket \in Subscribers /\ got \in Nat
  BY DEF ResumeInv, PhoneInv, Unharmed, Reading, Subscribers, ResumeTypes
<1>2. CASE got = 0
  BY <1>2 DEF Reached
<1>3. CASE got # 0
  <2> DEFINE x == stream[socket]
             a == x.lastBseq
             b == Begin(x)
             c == x.after
             p == Place(x, got)
  <2>1. /\ got > 0 /\ Reached = p /\ cursor = Larger(a, p)
    BY <1>1, <1>3 DEF Reached, Unharmed
  <2>2. /\ Aligned(x, log) /\ a \in Nat /\ b \in Nat /\ p \in Nat /\ c \in Nat
        /\ Lead(x) \in {1, 2}
    <3>1. Aligned(x, log) /\ Lead(x) \in {1, 2} /\ c \in Nat
      BY <1>1, PlaceFacts
    <3>2. Len(log) \in Nat /\ b \in 0 .. Len(log) /\ a \in 0 .. Len(log)
      BY <1>1, PlaceFacts
    <3>3. p \in Nat
      BY <1>1, PlaceFacts
    <3> HIDE DEF x, a, b, c, p
    <3> QED
      BY <3>1, <3>2, <3>3
  <2>3. p = b + (IF got <= Lead(x) THEN 0 ELSE got - Lead(x))
    BY DEF Place
  <2>4. p >= a
    <3>1. CASE x.resynced
      <4>1. b = a
        BY <3>1 DEF Begin
      <4> HIDE DEF a, b, p
      <4> QED
        BY <1>1, <2>2, <2>3, <4>1
    <3>2. CASE ~ x.resynced
      <4>1. b = c /\ Lead(x) = 1 /\ Len(x.backlog) = a - c /\ c <= a
        BY <2>2, <3>2 DEF Begin, Lead, Aligned
      <4>2. ~ (got < 1 + Len(x.backlog))
        BY <1>1, <2>1, <3>2 DEF Torn, Reading
      <4> HIDE DEF a, b, c, p
      <4> QED
        BY <1>1, <2>2, <2>3, <4>1, <4>2
    <3> QED
      BY <3>1, <3>2
  <2> HIDE DEF a, p
  <2> QED
    BY <2>1, <2>2, <2>4 DEF Larger
<1> QED
  BY <1>2, <1>3

\* A lost connection takes what was not read; unless it tears a delta, the cursor says
\* where to go on (core.ts, onStreamClosed).
LEMMA LoseStreamKeepsInv ==
  ASSUME ResumeInv, LoseStream
  PROVE  ResumeInv'
<1>1. /\ HubInv /\ SocketsAreAligned /\ ResumeTypes /\ NothingFoldedAhead
      /\ socket # NoStream /\ socket \in Stream
      /\ phoneState' = "reconnecting" /\ socket' = NoStream /\ got' = 0
      /\ UNCHANGED <<epoch, cursor, resync, view>>
  BY DEF ResumeInv, PhoneInv, LoseStream, ResumeTypes
<1>2. /\ HubInv' /\ log' = log
      /\ \A t \in Stream : stream'[t] = stream[t] \/ stream'[t].state # "live"
  <2>1. CASE stream[socket].state = "live"
    <3>1. Detach(socket)
      BY <2>1 DEF LoseStream
    <3>2. HubInv'
      BY <1>1, <3>1, CallsKeepInv DEF HubCall
    <3>3. HubTypes
      BY <1>1 DEF HubInv
    <3> QED
      BY <3>1, <3>2, <3>3 DEF Detach, HubTypes, unattached
  <2>2. CASE stream[socket].state # "live"
    <3>1. UNCHANGED hubVars
      BY <2>2 DEF LoseStream
    <3> QED
      BY <3>1, BridgeIdle
  <2> QED
    BY <2>1, <2>2
<1>3. SocketsAreAligned'
  BY <1>1, <1>2 DEF SocketsAreAligned, Subscribers
<1>4. ResumeTypes'
  BY <1>1 DEF ResumeTypes
<1>5. ~ Reading' /\ Reached' = cursor
  BY <1>1 DEF Reading, Reached
<1>6. ReadsOn' /\ NothingFoldedAhead'
  BY <1>1, <1>2, <1>5 DEF ReadsOn, NothingFoldedAhead
<1>7. ASSUME NoLoss'
      PROVE  Unharmed'
  <2>1. NoLoss /\ ~ Torn
    BY <1>7 DEF LoseStream, Tearing, Note, NoLoss, Harmless
  <2>2. Unharmed
    BY <2>1 DEF ResumeInv, PhoneInv
  <2>3. Reached = cursor
    BY <1>1, <2>1, <2>2, DeltaReadToItsEnd
  <2> QED
    BY <1>1, <1>2, <1>5, <2>2, <2>3 DEF Unharmed
<1> QED
  BY <1>2, <1>3, <1>4, <1>6, <1>7 DEF ResumeInv, PhoneInv

\* A step that moves neither the phone's place nor what it has folded: only what is shown
\* and read of the history changes.
LEMMA PlaceKept ==
  ASSUME ResumeInv, UNCHANGED <<hubVars, epoch, cursor, socket, got>>,
         phoneState' = "reconnecting" <=> phoneState = "reconnecting",
         resync' \in HistoryRead, view' \in View(epoch), view'.folded = view.folded,
         NoLoss' /\ Unharmed => view'.of = 1 /\ Accounted(resync', view', Reached, log),
         NoLoss' => NoLoss
  PROVE  ResumeInv'
<1>1. /\ ResumeTypes /\ ReadsOn /\ NothingFoldedAhead
      /\ UNCHANGED <<epoch, cursor, socket, got>>
  BY DEF ResumeInv, PhoneInv
<1>2. HubInv' /\ SocketsAreAligned' /\ log' = log /\ stream' = stream
  BY BridgeIdle
<1>3. ResumeTypes' /\ ReadsOn' /\ NothingFoldedAhead'
  BY <1>1, <1>2 DEF ResumeTypes, ReadsOn, Reading, NothingFoldedAhead
<1>4. ASSUME NoLoss'
      PROVE  Unharmed'
  <2>1. Unharmed
    BY <1>4 DEF ResumeInv, PhoneInv
  <2>2. Reached' = Reached /\ (Reading' <=> Reading)
    BY <1>1, <1>2 DEF Reached, Reading
  <2>3. view'.of = 1 /\ Accounted(resync', view', Reached, log)
    BY <1>4, <2>1
  <2> QED
    BY <1>1, <1>2, <2>1, <2>2, <2>3 DEF Unharmed
<1> QED
  BY <1>2, <1>3, <1>4 DEF ResumeInv, PhoneInv

\* A read of the history is answered with what is current: all that was published so far
\* (core.ts, runResync).
LEMMA ResyncIsAnsweredKeepsInv ==
  ASSUME ResumeInv, ResyncIsAnswered
  PROVE  ResumeInv'
<1>1. /\ HubInv /\ SocketsAreAligned /\ ResumeTypes
      /\ resync' = Answered
      /\ UNCHANGED <<hubVars, epoch, phoneState, cursor, socket, got, view, mishaps>>
  BY DEF ResumeInv, PhoneInv, ResyncIsAnswered, streamVars
<1>2. Len(log) \in Nat
  BY <1>1, LenProperties DEF HubInv, HubTypes
<1>3. /\ resync' \in HistoryRead
      /\ resync'.step = "answered" /\ resync'.of = epoch /\ resync'.base = Len(log)
  BY <1>1, <1>2 DEF ResumeTypes, Answered, HistoryRead
<1>4. ASSUME Unharmed
      PROVE  view'.of = 1 /\ Accounted(resync', view', Reached, log)
  <2>1. Reached \in Nat
    <3>1. CASE Reading
      <4>1. socket \in Subscribers /\ got \in Nat
        BY <1>1, <3>1 DEF Reading, Subscribers, ResumeTypes
      <4>2. Place(stream[socket], got) \in Nat
        BY <1>1, <4>1, PlaceFacts
      <4> QED
        BY <1>1, <4>2 DEF Reached, ResumeTypes
    <3>2. CASE ~ Reading
      BY <1>1, <3>2 DEF Reached, ResumeTypes
    <3> QED
      BY <3>1, <3>2
  <2>2. Accounts(Len(log), Reached, log, view'.kept)
    <3>1. Reached <= Len(log)
      BY <1>4 DEF Unharmed
    <3> DEFINE R == Reached
               n == Len(log)
    <3> HIDE DEF R, n
    <3>2. \A i \in 1 .. R : i <= n /\ ~ (n < i)
      BY <1>2, <2>1, <3>1 DEF R, n
    <3> QED
      BY <3>2 DEF Accounts, R, n
  <2> QED
    BY <1>1, <1>3, <1>4, <2>2 DEF Unharmed, Accounted
<1>5. view' \in View(epoch) /\ view'.folded = view.folded
  BY <1>1 DEF ResumeTypes
<1> QED
  BY <1>1, <1>3, <1>4, <1>5, PlaceKept DEF NoLoss

\* What an answer replaces, it accounts for, unless the model records that it does not.
LEMMA ReplacedWhole ==
  ASSUME ResumeTypes, Unharmed, NEW of \in Nat, NEW base \in Nat,
         NEW read, read.of = of, read.base = base, Replaces(read)
  PROVE  /\ view' \in View(epoch) /\ view'.folded = view.folded
         /\ view'.of = of /\ view'.base = base /\ view'.kept = {}
         /\ NoLoss' => /\ NoLoss
                       /\ of = 1 => view.base <= base
                       /\ of = 1 => \A i \in Nat : base < i => <<1, i>> \notin view.kept
<1>1. /\ view' = [view EXCEPT !.of = of, !.base = base, !.kept = {}]
      /\ Note(IF Overwrites(read) THEN {"frame overwritten"} ELSE {})
  BY DEF Replaces
<1>2. /\ view' \in View(epoch) /\ view'.folded = view.folded
      /\ view'.of = of /\ view'.base = base /\ view'.kept = {}
  BY <1>1 DEF ResumeTypes, View
<1>3. ASSUME NoLoss'
      PROVE  NoLoss /\ ~ Overwrites(read)
  BY <1>1, <1>3 DEF Note, NoLoss, Harmless
<1>4. ASSUME ~ Overwrites(read), of = 1
      PROVE  /\ view.base <= base
             /\ \A i \in Nat : base < i => <<1, i>> \notin view.kept
  <2>1. \A x \in view.kept \cup {<<view.of, view.base>>} : ~ (x[1] = 1 /\ x[2] > base)
    BY <1>4 DEF Overwrites, After
  <2>2. view.of = 1 /\ view.base \in Nat
    BY DEF Unharmed, ResumeTypes, View
  <2>3. ~ (view.base > base)
    <3> DEFINE x == <<view.of, view.base>>
    <3>1. x \in view.kept \cup {<<view.of, view.base>>} /\ x[1] = 1 /\ x[2] = view.base
      BY <2>2
    <3> HIDE DEF x
    <3> QED
      BY <2>1, <3>1
  <2>4. ASSUME NEW i \in Nat, base < i
        PROVE  <<1, i>> \notin view.kept
    BY <2>1, <2>4
  <2> QED
    BY <2>2, <2>3, <2>4
<1> QED
  BY <1>2, <1>3, <1>4

\* So what is shown then accounts for as much as before.
LEMMA NothingNewerKept ==
  ASSUME NEW upto, NEW h, NEW b \in Nat, NEW base \in Nat, NEW kept, b <= base,
         Accounts(b, upto, h, kept),
         \A i \in Nat : base < i => <<1, i>> \notin kept
  PROVE  Accounts(base, upto, h, {})
<1> SUFFICES ASSUME NEW i \in 1 .. upto
             PROVE  /\ h[i] = DshRestarted => i <= base
                    /\ ~ (h[i] \in Offered /\ base < i)
  BY DEF Accounts
<1>1. i \in Nat
  OBVIOUS
<1>2. /\ h[i] = DshRestarted => i <= b
      /\ h[i] \in Offered /\ b < i => <<1, i>> \in kept
  BY DEF Accounts
<1> QED
  BY <1>1, <1>2

\* The answer of a resync arrives and takes the place of what is shown (useDsh.tsx,
\* onResync).
LEMMA ResyncAdoptsKeepsInv ==
  ASSUME ResumeInv, ResyncAdopts
  PROVE  ResumeInv'
<1>1. /\ ResumeTypes
      /\ resync.step = "answered" /\ resync' = Read("done") /\ Replaces(resync)
      /\ UNCHANGED <<hubVars, epoch, phoneState, cursor, socket, got>>
  BY DEF ResumeInv, PhoneInv, ResyncAdopts, streamVars
<1>2. /\ resync.of \in Nat /\ resync.base \in Nat
      /\ resync' \in HistoryRead /\ resync'.step = "done"
  BY <1>1 DEF ResumeTypes, HistoryRead, Read
<1>3. /\ view' \in View(epoch) /\ view'.folded = view.folded
      /\ NoLoss' => NoLoss
  BY <1>1, <1>2 DEF Replaces, Note, NoLoss, ResumeTypes, View
<1>4. ASSUME NoLoss', Unharmed
      PROVE  view'.of = 1 /\ Accounted(resync', view', Reached, log)
  <2>1. /\ resync.of = 1
        /\ view.base <= resync.base => Accounts(resync.base, Reached, log, view.kept)
    BY <1>1, <1>4 DEF Unharmed, Accounted
  <2>2. /\ view'.of = 1 /\ view'.base = resync.base /\ view'.kept = {}
        /\ view.base <= resync.base
        /\ \A i \in Nat : resync.base < i => <<1, i>> \notin view.kept
    BY <1>1, <1>2, <1>4, <2>1, ReplacedWhole
  <2>3. Accounts(resync.base, Reached, log, {})
    BY <1>2, <2>1, <2>2, NothingNewerKept
  <2> QED
    BY <1>2, <2>2, <2>3 DEF Accounted
<1> QED
  BY <1>1, <1>2, <1>3, <1>4, PlaceKept

\* So does the answer of a screen that was opened, which a resync may be under way beside
\* (useDsh.tsx, loadHistory).
LEMMA LoadHistoryKeepsInv ==
  ASSUME ResumeInv, LoadHistory
  PROVE  ResumeInv'
<1>1. /\ ResumeTypes /\ HubInv
      /\ UNCHANGED <<hubVars, epoch, phoneState, cursor, socket, got, resync>>
  BY DEF ResumeInv, PhoneInv, LoadHistory, streamVars
<1>2. PICK lag \in 0 .. MaxLag : /\ lag <= Len(log)
                                 /\ Replaces([of |-> epoch, base |-> Len(log) - lag])
  BY DEF LoadHistory
<1> DEFINE base == Len(log) - lag
           read == [of |-> epoch, base |-> base]
<1>3. /\ base \in Nat /\ epoch \in Nat /\ resync \in HistoryRead
      /\ view.base \in Nat /\ resync.base \in Nat
  <2>1. Len(log) \in Nat /\ lag \in Nat
    BY <1>1, LenProperties, ResumeAssumption DEF HubInv, HubTypes
  <2> QED
    BY <1>1, <1>2, <2>1 DEF ResumeTypes, View, HistoryRead
<1>4. read.of = epoch /\ read.base = base /\ Replaces(read)
  BY <1>2
<1> HIDE DEF base, read
<1>5. /\ view' \in View(epoch) /\ view'.folded = view.folded
      /\ NoLoss' => NoLoss
  BY <1>1, <1>3, <1>4 DEF Replaces, Note, NoLoss, ResumeTypes, View
<1>6. ASSUME NoLoss', Unharmed
      PROVE  view'.of = 1 /\ Accounted(resync', view', Reached, log)
  <2>1. epoch = 1 /\ Accounted(resync, view, Reached, log)
    BY <1>6 DEF Unharmed
  <2>2. /\ view'.of = 1 /\ view'.base = base /\ view'.kept = {}
        /\ view.base <= base
        /\ \A i \in Nat : base < i => <<1, i>> \notin view.kept
    BY <1>1, <1>3, <1>4, <1>6, <2>1, ReplacedWhole
  <2>3. resync.step \in {"none", "done"} => Accounts(base, Reached, log, {})
    BY <1>3, <2>1, <2>2, NothingNewerKept DEF Accounted
  <2>4. ASSUME resync.step = "answered", base <= resync.base
        PROVE  Accounts(resync.base, Reached, log, {})
    <3>1. view.base <= resync.base
      BY <1>3, <2>2, <2>4
    <3>2. Accounts(resync.base, Reached, log, view.kept)
      BY <2>1, <2>4, <3>1 DEF Accounted
    <3>3. \A i \in Nat : resync.base < i => <<1, i>> \notin view.kept
      BY <1>3, <2>2, <2>4
    <3>4. resync.base <= resync.base
      BY <1>3
    <3> QED
      BY <1>3, <3>2, <3>3, <3>4, NothingNewerKept
  <2> QED
    BY <1>1, <2>1, <2>2, <2>3, <2>4 DEF Accounted
<1> QED
  BY <1>1, <1>3, <1>5, <1>6, PlaceKept

\* A resync that returns after it has read the history changes nothing that is shown.
LEMMA ResyncSucceedsKeepsInv ==
  ASSUME ResumeInv, ResyncSucceeds
  PROVE  ResumeInv'
<1>1. /\ ResumeTypes
      /\ resync.step = "done" /\ resync' = Read("none")
      /\ phoneState' = IF phoneState = "resyncing" THEN "ready" ELSE phoneState
      /\ UNCHANGED <<hubVars, epoch, cursor, socket, got, view, mishaps>>
  BY DEF ResumeInv, PhoneInv, ResyncSucceeds, ResyncReturns
<1>2. resync' \in HistoryRead /\ resync'.step = "none"
  BY <1>1 DEF Read, HistoryRead
<1>3. ASSUME Unharmed
      PROVE  view'.of = 1 /\ Accounted(resync', view', Reached, log)
  BY <1>1, <1>2, <1>3 DEF Unharmed, Accounted
<1>4. view' \in View(epoch) /\ view'.folded = view.folded
  BY <1>1 DEF ResumeTypes
<1> QED
  BY <1>1, <1>2, <1>3, <1>4, PlaceKept DEF NoLoss

\* A resync that reads no history is a mishap, whether it is passed over or reported.
LEMMA UnreadHistoryKeepsInv ==
  ASSUME ResumeInv, ResyncPassesOver \/ ResyncFails
  PROVE  ResumeInv'
<1>1. /\ ResumeTypes /\ ~ NoLoss'
      /\ resync' = Read("done") \/ resync' = Read("none")
      /\ phoneState' = phoneState \/ (phoneState = "resyncing" /\ phoneState' = "ready")
      /\ UNCHANGED <<hubVars, epoch, cursor, socket, got, view>>
  <2>1. "history unread" \notin Harmless /\ "resync failed" \notin Harmless
    BY DEF Harmless
  <2>2. Note({"history unread"}) \/ Note({"resync failed"})
    BY DEF ResyncPassesOver, ResyncFails
  <2>3. ~ NoLoss'
    BY <2>1, <2>2 DEF Note, NoLoss
  <2> QED
    BY <2>3 DEF ResumeInv, PhoneInv, ResyncPassesOver, ResyncFails, ResyncReturns, streamVars
<1>2. resync' \in HistoryRead
  BY <1>1 DEF Read, HistoryRead
<1>3. view' \in View(epoch) /\ view'.folded = view.folded
  BY <1>1 DEF ResumeTypes
<1> QED
  BY <1>1, <1>2, <1>3, PlaceKept

\* A phone that is taken offline by a refused call loses nothing (core.ts,
\* noteHarnessDown).
LEMMA NoteHarnessDownKeepsInv ==
  ASSUME ResumeInv, NoteHarnessDown
  PROVE  ResumeInv'
<1>1. /\ ResumeTypes
      /\ phoneState = "ready" /\ phoneState' = "harness-offline"
      /\ mishaps \subseteq mishaps'
      /\ UNCHANGED <<hubVars, epoch, cursor, socket, got, resync, view>>
  BY DEF ResumeInv, PhoneInv, NoteHarnessDown, Note
<1>2. /\ resync' \in HistoryRead /\ view' \in View(epoch) /\ view'.folded = view.folded
      /\ NoLoss' => NoLoss
  BY <1>1 DEF ResumeTypes, NoLoss
<1>3. ASSUME Unharmed
      PROVE  view'.of = 1 /\ Accounted(resync', view', Reached, log)
  BY <1>1, <1>3 DEF Unharmed
<1> QED
  BY <1>1, <1>2, <1>3, PlaceKept

-----------------------------------------------------------------------------
\* The phone reads an item.

\* A call of runResync: swallowed, which is a mishap, or under way with nothing fetched
\* (core.ts, runResync).
LEMMA ResyncBegins ==
  ASSUME ResumeTypes, BeginResync
  PROVE  /\ resync' \in HistoryRead
         /\ phoneState' \in {phoneState, "resyncing"}
         /\ NoLoss' => NoLoss /\ resync'.step = "asked"
<1>1. CASE Resyncing
  <2>1. "resync swallowed" \notin Harmless
    BY DEF Harmless
  <2>2. Note({"resync swallowed"}) /\ UNCHANGED <<resync, phoneState>>
    BY <1>1 DEF BeginResync
  <2>3. ~ NoLoss'
    BY <2>1, <2>2 DEF Note, NoLoss
  <2> QED
    BY <2>2, <2>3 DEF ResumeTypes
<1>2. CASE ~ Resyncing
  <2>1. /\ resync' = Read("asked") /\ phoneState' = "resyncing"
        /\ UNCHANGED mishaps
    BY <1>2 DEF BeginResync
  <2>2. resync' \in HistoryRead /\ resync'.step = "asked"
    BY <2>1 DEF Read, HistoryRead
  <2> QED
    BY <2>1, <2>2 DEF NoLoss
<1> QED
  BY <1>1, <1>2

\* Only the order to resync starts one, and no frame puts the phone back to dialling
\* (core.ts, onEnvelope).
LEMMA FrameMoves ==
  ASSUME NEW item, OnEnvelopeFrame(item)
  PROVE  /\ item.frame = DshRestarted => BeginResync
         /\ item.frame # DshRestarted =>
              /\ UNCHANGED <<resync, mishaps>>
              /\ phoneState' \in {phoneState, "ready", "harness-offline"}
<1>1. CASE item.frame = DshRestarted
  <2>1. item.frame # DshDisconnected /\ item.frame.type # "dsh-ready"
    BY <1>1 DEF DshRestarted, DshDisconnected
  <2>2. BeginResync
    BY <1>1, <2>1 DEF OnEnvelopeFrame, BeginResync
  <2> QED
    BY <1>1, <2>2
<1>2. CASE item.frame # DshRestarted /\ item.frame = DshDisconnected
  BY <1>2 DEF OnEnvelopeFrame
<1>3. CASE item.frame # DshRestarted /\ item.frame # DshDisconnected
  BY <1>3 DEF OnEnvelopeFrame
<1> QED
  BY <1>1, <1>2, <1>3

\* What is next on the socket: the hello, the order to resync, or the frame of the history
\* that follows the phone's place.
LEMMA NextItem ==
  ASSUME ResumeInv, Reading, got < Len(Sent(socket))
  PROVE  LET x == stream[socket]
             p == Place(x, got)
             item == Sent(socket)[got + 1]
         IN  /\ socket \in Subscribers /\ got \in Nat /\ p \in Nat
             /\ got + 1 <= Lead(x) + (Len(log) - Begin(x))
             /\ \/ /\ got = 0 /\ item = Hello(socket)
                   /\ p = Begin(x) /\ Place(x, got + 1) = Begin(x)
                \/ /\ got = 1 /\ x.resynced /\ item = Overflow(socket)
                   /\ p = Begin(x) /\ Place(x, got + 1) = Begin(x)
                \/ /\ got > 0 /\ p + 1 \in 1 .. Len(log) /\ Place(x, got + 1) = p + 1
                   /\ item = [kind |-> "log", bseq |-> p + 1, frame |-> log[p + 1]]
<1> DEFINE x == stream[socket]
           m == Len(log)
           b == Begin(x)
           l == Lead(x)
           It(i) == [kind |-> "log", bseq |-> i, frame |-> log[i]]
<1>1. /\ HubInv /\ SocketsAreAligned /\ socket \in Subscribers /\ got \in Nat
  BY DEF ResumeInv, PhoneInv, ResumeTypes, Reading, Subscribers
<1>2. /\ IsStream(x) /\ Aligned(x, log) /\ log \in Seq(Published)
      /\ m \in Nat /\ b \in 0 .. m /\ l \in {1, 2}
  <2>1. IsStream(x) /\ Aligned(x, log) /\ log \in Seq(Published)
    BY <1>1, PlaceFacts DEF HubInv, HubTypes
  <2>2. m \in Nat /\ b \in 0 .. m
    BY <1>1, PlaceFacts
  <2>3. l \in {1, 2}
    BY <1>1, PlaceFacts
  <2> QED
    BY <2>1, <2>2, <2>3
<1>3. /\ Len(Sent(socket)) = l + (m - b)
      /\ Sent(socket)[1] = Hello(socket)
      /\ x.resynced => Sent(socket)[2] = Overflow(socket)
      /\ \A i \in 1 .. m - b : Sent(socket)[l + i] = It(b + i)
  BY <1>2, SentIsAligned
<1>4. \A n : Place(x, n) = b + (IF n <= l THEN 0 ELSE n - l)
  BY DEF Place
<1>5. l = (IF x.resynced THEN 2 ELSE 1)
  BY DEF Lead
<1>6. got < l + (m - b)
  BY <1>3
<1> HIDE DEF x, m, b, l, It
<1>7. /\ Place(x, got) \in Nat /\ got + 1 <= l + (m - b)
  BY <1>1, <1>2, <1>4, <1>6
<1>8. CASE got = 0
  BY <1>1, <1>2, <1>3, <1>4, <1>7, <1>8 DEF x, m, b, l
<1>9. CASE got = 1 /\ x.resynced
  <2>1. l = 2 /\ got + 1 = 2
    BY <1>5, <1>9
  <2>2. Place(x, got) = b /\ Place(x, got + 1) = b
    BY <1>2, <1>4, <1>9, <2>1
  <2> QED
    BY <1>1, <1>3, <1>7, <1>9, <2>1, <2>2 DEF x, m, b, l
<1>10. CASE got # 0 /\ ~ (got = 1 /\ x.resynced)
  <2>1. got >= l /\ got > 0
    BY <1>1, <1>5, <1>10
  <2> DEFINE i == (got - l) + 1
             p == b + (got - l)
  <2>2. /\ i \in 1 .. m - b /\ l + i = got + 1 /\ b + i = p + 1 /\ p + 1 \in 1 .. m
    BY <1>1, <1>2, <1>6, <2>1
  <2>3. Place(x, got) = p /\ Place(x, got + 1) = p + 1
    BY <1>1, <1>2, <1>4, <2>1
  <2>4. Sent(socket)[got + 1] = It(p + 1)
    <3> HIDE DEF i, p
    <3> QED
      BY <1>3, <2>2
  <2> HIDE DEF i, p
  <2> QED
    BY <1>1, <1>7, <2>1, <2>2, <2>3, <2>4 DEF x, m, b, l, It
<1> QED
  BY <1>8, <1>9, <1>10

\* The hello moves the cursor to the end of the delta before the phone has read it
\* (core.ts, onHello).
LEMMA ReadHelloKeeps ==
  ASSUME ResumeInv, ReadNext, got = 0
  PROVE  PhoneInv'
<1> DEFINE x == stream[socket]
           a == x.lastBseq
           b == Begin(x)
<1>1. /\ HubInv /\ SocketsAreAligned /\ ResumeTypes /\ ReadsOn /\ NothingFoldedAhead
      /\ Reading /\ got < Len(Sent(socket)) /\ got' = 1
      /\ UNCHANGED <<hubVars, epoch, socket>> /\ log' = log /\ stream' = stream
  BY DEF ResumeInv, PhoneInv, ReadNext, Reading, hubVars
<1>2. /\ socket \in Subscribers /\ Sent(socket)[1] = Hello(socket)
      /\ Place(x, 0) = b /\ Place(x, 1) = b
      /\ 1 <= Lead(x) + (Len(log) - b)
  <2>1. 0 + 1 = 1
    OBVIOUS
  <2> HIDE DEF x, b
  <2> QED
    BY <1>1, <2>1, NextItem DEF x, b
<1>3. /\ cursor' = Larger(cursor, a) /\ UNCHANGED view
      /\ x.resynced => BeginResync
      /\ ~ x.resynced => phoneState' = "ready" /\ UNCHANGED <<resync, mishaps>>
  BY <1>2 DEF ReadNext, OnHello, Hello
<1>4. a \in Nat /\ cursor \in Nat /\ b \in 0 .. Len(log) /\ a \in 0 .. Len(log) /\ Len(log) \in Nat
  <2>1. a \in 0 .. Len(log) /\ b \in 0 .. Len(log) /\ Len(log) \in Nat
    BY <1>1, <1>2, PlaceFacts
  <2>2. cursor \in Nat
    BY <1>1 DEF ResumeTypes
  <2> HIDE DEF a, b
  <2> QED
    BY <2>1, <2>2
<1>5. cursor' \in Nat /\ cursor <= cursor'
  <2> HIDE DEF a
  <2> QED
    BY <1>3, <1>4 DEF Larger
<1>6. /\ resync' \in HistoryRead
      /\ phoneState' \in {phoneState, "resyncing", "ready"}
      /\ x.resynced /\ NoLoss' => NoLoss /\ resync'.step = "asked"
  BY <1>1, <1>3, ResyncBegins DEF ResumeTypes
<1>7. ResumeTypes'
  BY <1>1, <1>3, <1>5, <1>6 DEF ResumeTypes, Reading
<1>8. Reading' /\ stream'[socket'] = x
  BY <1>1 DEF Reading
<1>9. ReadsOn'
  BY <1>1, <1>2, <1>8 DEF ReadsOn
<1>10. NothingFoldedAhead'
  <2> SUFFICES ASSUME NEW i \in Nat, <<epoch, i>> \in view.folded
               PROVE  i <= cursor' /\ i <= Len(log) /\ i <= Place(x, 1)
    BY <1>1, <1>3, <1>8 DEF NothingFoldedAhead
  <2>1. i <= cursor /\ i <= Len(log) /\ i <= Place(x, 0)
    BY <1>1 DEF NothingFoldedAhead
  <2> HIDE DEF x, b
  <2> QED
    BY <1>2, <1>4, <1>5, <2>1
<1>11. ASSUME NoLoss'
       PROVE  Unharmed'
  <2>1. Unharmed
    BY <1>3, <1>6, <1>11 DEF ResumeInv, PhoneInv, NoLoss
  <2>2. /\ cursor = x.after /\ x.after <= a /\ Reached = cursor
        /\ epoch = 1 /\ view.of = 1
    BY <1>1, <2>1 DEF ReadsOn, Unharmed, Reached
  <2>3. Reached' = b
    BY <1>1, <1>2, <1>8 DEF Reached
  <2>4. cursor' = a /\ b = IF x.resynced THEN a ELSE cursor
    <3>1. b = IF x.resynced THEN a ELSE cursor
      BY <2>2 DEF Begin
    <3>2. cursor <= a
      BY <2>2
    <3> HIDE DEF a, b
    <3>3. cursor' = a
      BY <1>3, <1>4, <3>2 DEF Larger
    <3> QED
      BY <3>1, <3>3
  <2>5. b <= Len(log) /\ a <= Len(log) /\ a = Larger(a, b)
    <3> HIDE DEF a, b, x
    <3> QED
      BY <1>4, <2>2, <2>4 DEF Larger
  <2>6. Accounted(resync', view', b, log)
    <3>1. CASE x.resynced
      BY <1>6, <1>11, <3>1 DEF Accounted
    <3>2. CASE ~ x.resynced
      <4>1. b = Reached /\ resync' = resync /\ view' = view
        BY <1>3, <2>2, <2>4, <3>2
      <4> QED
        BY <2>1, <4>1 DEF Unharmed
    <3> QED
      BY <3>1, <3>2
  <2> QED
    BY <1>1, <1>3, <1>8, <2>1, <2>2, <2>3, <2>4, <2>5, <2>6 DEF Unharmed, Reading
<1> QED
  BY <1>7, <1>9, <1>10, <1>11 DEF PhoneInv

\* The order to resync carries the number the hello carried, and moves nothing but the
\* state (server.ts, handleUpgrade; core.ts, onEnvelope).
LEMMA ReadOrderKeeps ==
  ASSUME ResumeInv, ReadNext, got > 0,
         Sent(socket)[got + 1] = Overflow(socket),
         Place(stream[socket], got) = Begin(stream[socket]),
         Place(stream[socket], got + 1) = Begin(stream[socket]),
         stream[socket].resynced,
         got + 1 <= Lead(stream[socket]) + (Len(log) - Begin(stream[socket]))
  PROVE  PhoneInv'
<1> DEFINE x == stream[socket]
           a == x.lastBseq
           b == Begin(x)
<1>1. /\ HubInv /\ SocketsAreAligned /\ ResumeTypes /\ ReadsOn /\ NothingFoldedAhead
      /\ Reading /\ got' = got + 1 /\ got \in Nat /\ socket \in Subscribers
      /\ UNCHANGED <<hubVars, epoch, socket>> /\ log' = log /\ stream' = stream
  BY DEF ResumeInv, PhoneInv, ReadNext, Reading, hubVars, ResumeTypes, Subscribers
<1>2. b = a /\ Place(x, got) = b /\ Place(x, got + 1) = b
  BY DEF Begin
<1>3. /\ cursor' = Larger(cursor, a) /\ UNCHANGED view /\ BeginResync
  <2>1. Overflow(socket) = [kind |-> "inline", bseq |-> a, frame |-> DshRestarted]
    BY DEF Overflow
  <2> DEFINE item == Sent(socket)[got + 1]
  <2>2. item.kind = "inline" /\ item.bseq = a /\ item.frame = DshRestarted
    BY <2>1
  <2>3. OnEnvelope(item) /\ Fold(item)
    BY <2>2 DEF ReadNext
  <2> HIDE DEF item
  <2>4. BeginResync
    BY <2>2, <2>3, FrameMoves DEF OnEnvelope
  <2> QED
    BY <2>2, <2>3, <2>4 DEF OnEnvelope, Fold
<1>4. a \in Nat /\ cursor \in Nat /\ a \in 0 .. Len(log) /\ Len(log) \in Nat
  <2>1. a \in 0 .. Len(log) /\ Len(log) \in Nat
    BY <1>1, PlaceFacts
  <2>2. cursor \in Nat
    BY <1>1 DEF ResumeTypes
  <2> HIDE DEF a
  <2> QED
    BY <2>1, <2>2
<1>5. cursor' \in Nat /\ cursor <= cursor'
  <2> HIDE DEF a
  <2> QED
    BY <1>3, <1>4 DEF Larger
<1>6. /\ resync' \in HistoryRead
      /\ phoneState' \in {phoneState, "resyncing"}
      /\ NoLoss' => NoLoss /\ resync'.step = "asked"
  BY <1>1, <1>3, ResyncBegins
<1>7. ResumeTypes'
  BY <1>1, <1>3, <1>5, <1>6 DEF ResumeTypes, Reading
<1>8. Reading' /\ stream'[socket'] = x
  BY <1>1 DEF Reading
<1>9. ReadsOn'
  BY <1>1, <1>8 DEF ReadsOn
<1>10. NothingFoldedAhead'
  <2> SUFFICES ASSUME NEW i \in Nat, <<epoch, i>> \in view.folded
               PROVE  i <= cursor' /\ i <= Len(log) /\ i <= Place(x, got + 1)
    BY <1>1, <1>3, <1>8 DEF NothingFoldedAhead
  <2>1. i <= cursor /\ i <= Len(log) /\ i <= Place(x, got)
    BY <1>1 DEF NothingFoldedAhead
  <2>2. i <= Place(x, got + 1)
    BY <1>2, <2>1
  <2> HIDE DEF x, b
  <2> QED
    BY <1>4, <1>5, <2>1, <2>2
<1>11. ASSUME NoLoss'
       PROVE  Unharmed'
  <2>1. Unharmed
    BY <1>6, <1>11 DEF ResumeInv, PhoneInv
  <2>2. /\ cursor = Larger(a, Reached) /\ Reached = b
        /\ epoch = 1 /\ view.of = 1 /\ x.after <= a
    BY <1>1, <1>2, <2>1 DEF Unharmed, Reached
  <2>3. Reached' = b
    BY <1>1, <1>2, <1>8 DEF Reached
  <2>4. cursor' = a /\ cursor' = Larger(a, b) /\ b <= Len(log) /\ cursor' <= Len(log)
    <3> HIDE DEF a, b
    <3> QED
      BY <1>2, <1>3, <1>4, <2>2 DEF Larger
  <2>5. Accounted(resync', view', b, log)
    BY <1>6, <1>11 DEF Accounted
  <2> QED
    BY <1>1, <1>3, <1>8, <2>1, <2>2, <2>3, <2>4, <2>5 DEF Unharmed, Reading
<1> QED
  BY <1>7, <1>9, <1>10, <1>11 DEF PhoneInv

\* A frame of the history is the one that follows the phone's place; it is folded, and the
\* restart of dsh starts a resync (core.ts, onEnvelope).
LEMMA ReadFrameKeeps ==
  ASSUME ResumeInv, ReadNext, got > 0, NEW p \in Nat,
         p = Place(stream[socket], got), p + 1 \in 1 .. Len(log),
         Place(stream[socket], got + 1) = p + 1,
         Sent(socket)[got + 1] = [kind |-> "log", bseq |-> p + 1, frame |-> log[p + 1]],
         got + 1 <= Lead(stream[socket]) + (Len(log) - Begin(stream[socket]))
  PROVE  PhoneInv'
<1> DEFINE x == stream[socket]
           a == x.lastBseq
           f == log[p + 1]
<1>1. /\ HubInv /\ SocketsAreAligned /\ ResumeTypes /\ ReadsOn /\ NothingFoldedAhead
      /\ Reading /\ got' = got + 1 /\ got \in Nat /\ socket \in Subscribers
      /\ UNCHANGED <<hubVars, epoch, socket>> /\ log' = log /\ stream' = stream
      /\ epoch \in Nat \ {0}
  BY DEF ResumeInv, PhoneInv, ReadNext, Reading, hubVars, ResumeTypes, Subscribers
<1>2. /\ cursor' = Larger(cursor, p + 1)
      /\ view' = [view EXCEPT !.folded = @ \cup {<<epoch, p + 1>>},
                              !.kept = @ \cup {<<epoch, p + 1>>}]
      /\ f = DshRestarted => BeginResync
      /\ f # DshRestarted =>
           UNCHANGED <<resync, mishaps>> /\ phoneState' \in {phoneState, "ready", "harness-offline"}
  <2> DEFINE item == Sent(socket)[got + 1]
  <2>1. item.kind = "log" /\ item.bseq = p + 1 /\ item.frame = f
    OBVIOUS
  <2>2. OnEnvelope(item) /\ Fold(item)
    BY <2>1 DEF ReadNext
  <2> HIDE DEF item, f
  <2>3. OnEnvelopeFrame(item)
    BY <2>2 DEF OnEnvelope
  <2>4. /\ f = DshRestarted => BeginResync
        /\ f # DshRestarted =>
             /\ UNCHANGED <<resync, mishaps>>
             /\ phoneState' \in {phoneState, "ready", "harness-offline"}
    BY <2>1, <2>3, FrameMoves
  <2> QED
    BY <2>1, <2>2, <2>4 DEF OnEnvelope, Fold
<1>3. a \in 0 .. Len(log) /\ Len(log) \in Nat /\ cursor \in Nat
  <2>1. a \in 0 .. Len(log) /\ Len(log) \in Nat
    BY <1>1, PlaceFacts
  <2>2. cursor \in Nat
    BY <1>1 DEF ResumeTypes
  <2> HIDE DEF a
  <2> QED
    BY <2>1, <2>2
<1>4. cursor' \in Nat /\ cursor <= cursor' /\ p + 1 <= cursor'
  BY <1>2, <1>3 DEF Larger
<1>5. /\ resync' \in HistoryRead
      /\ phoneState' \in {phoneState, "resyncing", "ready", "harness-offline"}
      /\ f = DshRestarted /\ NoLoss' => NoLoss /\ resync'.step = "asked"
  BY <1>1, <1>2, ResyncBegins DEF ResumeTypes
<1>6. /\ view' \in View(epoch)
      /\ view'.of = view.of /\ view'.base = view.base
      /\ view'.folded = view.folded \cup {<<epoch, p + 1>>}
      /\ view'.kept = view.kept \cup {<<epoch, p + 1>>}
  <2>1. <<epoch, p + 1>> \in (1 .. epoch) \X Nat
    BY <1>1
  <2>2. view \in View(epoch)
    BY <1>1 DEF ResumeTypes
  <2> QED
    BY <1>2, <2>1, <2>2 DEF View
<1>7. ResumeTypes'
  <2>1. socket \in Stream /\ socket # NoStream /\ phoneState # "reconnecting"
    BY <1>1, ResumeAssumption DEF ResumeTypes, Reading
  <2>2. phoneState' # "reconnecting"
    BY <1>5, <2>1
  <2>3. got' \in Nat /\ cursor' \in Nat /\ epoch' \in Nat \ {0} /\ socket' = socket
    BY <1>1, <1>4
  <2> QED
    BY <1>1, <1>5, <1>6, <2>1, <2>2, <2>3 DEF ResumeTypes
<1>8. Reading' /\ stream'[socket'] = x
  BY <1>1 DEF Reading
<1>9. ReadsOn'
  BY <1>1, <1>8 DEF ReadsOn
<1>10. NothingFoldedAhead'
  <2> SUFFICES ASSUME NEW i \in Nat, <<epoch, i>> \in view.folded \cup {<<epoch, p + 1>>}
               PROVE  i <= cursor' /\ i <= Len(log) /\ i <= p + 1
    BY <1>1, <1>6, <1>8 DEF NothingFoldedAhead
  <2>1. CASE <<epoch, i>> \in view.folded
    <3>1. i <= cursor /\ i <= Len(log) /\ i <= Place(x, got)
      BY <1>1, <2>1 DEF NothingFoldedAhead
    <3>2. i <= p
      BY <3>1
    <3> HIDE DEF x
    <3> QED
      BY <1>3, <1>4, <3>1, <3>2
  <2>2. CASE <<epoch, i>> \notin view.folded
    <3>1. i = p + 1
      BY <2>2
    <3> QED
      BY <1>4, <3>1
  <2> QED
    BY <2>1, <2>2
<1>11. ASSUME NoLoss'
       PROVE  Unharmed'
  <2>1. Unharmed
    BY <1>2, <1>5, <1>11 DEF ResumeInv, PhoneInv, NoLoss
  <2>2. /\ cursor = Larger(a, p) /\ Reached = p
        /\ epoch = 1 /\ view.of = 1 /\ x.after <= a
    BY <1>1, <2>1 DEF Unharmed, Reached
  <2>3. Reached' = p + 1
    BY <1>1, <1>8 DEF Reached
  <2>4. cursor' = Larger(a, p + 1) /\ p + 1 <= Len(log) /\ cursor' <= Len(log)
    <3> HIDE DEF a
    <3> QED
      BY <1>2, <1>3, <2>2 DEF Larger
  <2>5. ASSUME NEW base, f # DshRestarted, Accounts(base, p, log, view.kept)
        PROVE  Accounts(base, p + 1, log, view'.kept)
    <3>1. \A i \in 1 .. p + 1 : i \in 1 .. p \/ i = p + 1
      OBVIOUS
    <3>2. <<1, p + 1>> \in view'.kept /\ view.kept \subseteq view'.kept
      BY <1>6, <2>2
    <3>3. \A i \in 1 .. p : /\ log[i] = DshRestarted => i <= base
                            /\ log[i] \in Offered /\ base < i => <<1, i>> \in view.kept
      BY <2>5 DEF Accounts
    <3> QED
      BY <2>5, <3>1, <3>2, <3>3 DEF Accounts
  <2>6. Accounted(resync', view', p + 1, log)
    <3>1. CASE f = DshRestarted
      BY <1>5, <1>11, <3>1 DEF Accounted
    <3>2. CASE f # DshRestarted
      <4>1. resync' = resync
        BY <1>2, <3>2
      <4>2. Accounted(resync, view, p, log)
        BY <2>1, <2>2 DEF Unharmed
      <4> HIDE DEF f
      <4> QED
        BY <1>6, <2>5, <3>2, <4>1, <4>2 DEF Accounted
    <3> QED
      BY <3>1, <3>2
  <2> QED
    BY <1>1, <1>6, <1>8, <2>1, <2>2, <2>3, <2>4, <2>6 DEF Unharmed, Reading
<1> QED
  BY <1>7, <1>9, <1>10, <1>11 DEF PhoneInv

\* The phone reads one item: what it folds lies just behind its place.
LEMMA ReadNextKeepsInv ==
  ASSUME ResumeInv, ReadNext
  PROVE  ResumeInv'
<1>1. Reading /\ got < Len(Sent(socket)) /\ UNCHANGED hubVars
  BY DEF ReadNext, Reading
<1>2. HubInv' /\ SocketsAreAligned'
  BY <1>1, BridgeIdle
<1> DEFINE x == stream[socket]
           p == Place(x, got)
           item == Sent(socket)[got + 1]
<1>3. /\ got \in Nat /\ p \in Nat
      /\ got + 1 <= Lead(x) + (Len(log) - Begin(x))
      /\ \/ got = 0
         \/ /\ got = 1 /\ x.resynced /\ item = Overflow(socket)
            /\ p = Begin(x) /\ Place(x, got + 1) = Begin(x)
         \/ /\ got > 0 /\ p + 1 \in 1 .. Len(log) /\ Place(x, got + 1) = p + 1
            /\ item = [kind |-> "log", bseq |-> p + 1, frame |-> log[p + 1]]
  BY <1>1, NextItem
<1>4. CASE got = 0
  BY <1>4, ReadHelloKeeps, <1>2 DEF ResumeInv
<1>5. CASE /\ got = 1 /\ x.resynced /\ item = Overflow(socket)
           /\ p = Begin(x) /\ Place(x, got + 1) = Begin(x)
  BY <1>2, <1>3, <1>5, ReadOrderKeeps DEF ResumeInv
<1>6. CASE /\ got > 0 /\ p + 1 \in 1 .. Len(log) /\ Place(x, got + 1) = p + 1
           /\ item = [kind |-> "log", bseq |-> p + 1, frame |-> log[p + 1]]
  BY <1>2, <1>3, <1>6, ReadFrameKeeps DEF ResumeInv
<1> QED
  BY <1>3, <1>4, <1>5, <1>6

\* Nothing happens.
LEMMA RestKeepsResume ==
  ASSUME ResumeInv, UNCHANGED resumeVars
  PROVE  ResumeInv'
<1>1. HubInv' /\ SocketsAreAligned' /\ log' = log /\ stream' = stream
  BY BridgeIdle DEF resumeVars
<1>2. UNCHANGED <<epoch, phoneVars, mishaps>> /\ Len(log) \in Nat
  BY LenProperties DEF resumeVars, ResumeInv, HubInv, HubTypes
<1>3. PhoneInv'
  BY <1>1, <1>2, PhoneStays DEF SameStart
<1> QED
  BY <1>1, <1>3 DEF ResumeInv

-----------------------------------------------------------------------------
\* The invariant holds.

LEMMA ResumeInitEstablishesInv == ResumeInit => ResumeInv
<1> SUFFICES ASSUME ResumeInit PROVE ResumeInv
  OBVIOUS
<1>1. /\ HubInit /\ epoch = 1 /\ mishaps = {}
      /\ phoneState = "reconnecting" /\ cursor = 0 /\ socket = NoStream /\ got = 0
      /\ resync = Read("none") /\ view = EmptyView(1)
  BY DEF ResumeInit
<1>2. HubInv
  BY <1>1, HubInitEstablishesInv
<1>3. Subscribers = {}
  BY <1>1 DEF HubInit, Subscribers, unattached
<1>4. Len(log) \in Nat
  BY <1>2, LenProperties DEF HubInv, HubTypes
<1>5. /\ resync \in HistoryRead
      /\ resync.step = "none"
      /\ view \in View(epoch)
      /\ view.of = 1 /\ view.folded = {}
  BY <1>1 DEF Read, EmptyView, HistoryRead, View
<1>6. ResumeTypes
  BY <1>1, <1>5 DEF ResumeTypes
<1>7. ~ Reading /\ Reached = 0
  BY <1>1 DEF Reading, Reached
<1>8. ReadsOn /\ NothingFoldedAhead /\ SocketsAreAligned
  BY <1>3, <1>5, <1>7 DEF ReadsOn, NothingFoldedAhead, SocketsAreAligned
<1>9. Unharmed
  BY <1>1, <1>4, <1>5, <1>7 DEF Unharmed, Accounted, Accounts
<1> QED
  BY <1>2, <1>6, <1>8, <1>9 DEF ResumeInv, PhoneInv

\* All the steps of phone, bridge and dsh.
LEMMA ResumeStepKeepsInv == ResumeInv /\ [ResumeNext]_resumeVars => ResumeInv'
<1> SUFFICES ASSUME ResumeInv, [ResumeNext]_resumeVars PROVE ResumeInv'
  OBVIOUS
<1>1. CASE DshEvent \/ DshLost \/ DshBack
  BY <1>1, DshKeepsResume
<1>2. CASE BridgeRestarts
  BY <1>2, BridgeRestartsKeepsInv
<1>3. ASSUME NEW s \in Stream, OpenStream(s)
      PROVE  ResumeInv'
  BY <1>3, OpenStreamKeepsInv
<1>4. CASE ReadNext
  BY <1>4, ReadNextKeepsInv
<1>5. CASE LoseStream
  BY <1>5, LoseStreamKeepsInv
<1>6. CASE ResyncIsAnswered
  BY <1>6, ResyncIsAnsweredKeepsInv
<1>7. CASE ResyncAdopts
  BY <1>7, ResyncAdoptsKeepsInv
<1>8. CASE ResyncPassesOver \/ ResyncFails
  BY <1>8, UnreadHistoryKeepsInv
<1>9. CASE ResyncSucceeds
  BY <1>9, ResyncSucceedsKeepsInv
<1>10. CASE LoadHistory
  BY <1>10, LoadHistoryKeepsInv
<1>11. CASE NoteHarnessDown
  BY <1>11, NoteHarnessDownKeepsInv
<1>12. CASE UNCHANGED resumeVars
  BY <1>12, RestKeepsResume
<1> QED
  BY <1>1, <1>2, <1>3, <1>4, <1>5, <1>6, <1>7, <1>8, <1>9, <1>10, <1>11, <1>12
  DEF ResumeNext

\* The sockets stay aligned with the history, and the phone accounts for what it has read
\* of it unless a mishap happened.
THEOREM ResumeInvHolds == ResumeSpec => []ResumeInv
  BY ResumeInitEstablishesInv, ResumeStepKeepsInv, PTL DEF ResumeSpec

\* The restart that a complete view has to cover is one of the history.
LEMMA LastMarkerFacts ==
  ASSUME HubInv
  PROVE  LastMarker = 0 \/ (LastMarker \in 1 .. Len(log) /\ log[LastMarker] = DshRestarted)
<1> DEFINE markers == {i \in 1 .. Len(log) : log[i] = DshRestarted}
<1>1. IsStart(log, StartIn(log)) /\ log \in Seq(Published)
  BY DEF HubInv, Ledger, StartIsKnown, HubTypes
<1>2. CASE markers = {}
  BY <1>2 DEF LastMarker, Index
<1>3. CASE markers # {}
  <2>1. LastMarker = CHOOSE i \in markers : \A j \in markers : j <= i
    BY <1>3 DEF LastMarker, Index
  <2>2. StartIn(log) = CHOOSE i \in markers : \A j \in markers : j <= i
    BY <1>3 DEF StartIn, Marker
  <2>3. StartIn(log) \in 1 .. Len(log) /\ log[StartIn(log)] = DshRestarted
    BY <1>1, <1>3 DEF IsStart, Marker
  <2> QED
    BY <2>1, <2>2, <2>3
<1> QED
  BY <1>2, <1>3

\* "A silent gap would corrupt the phone's fold" (ring.ts, header): a phone that claims to be
\* up to date has missed nothing, unless one of the recorded mishaps happened.
THEOREM NoSilentGap == ResumeSpec => []GapsAreExplained
<1>1. ResumeInv => GapsAreExplained
  <2> SUFFICES ASSUME ResumeInv, NoLoss, Settled
               PROVE  ViewComplete
    BY DEF GapsAreExplained, NoLoss
  <2>1. /\ HubInv /\ SocketsAreAligned /\ ResumeTypes /\ Unharmed
        /\ phoneState = "ready" /\ resync.step = "none"
        /\ stream[socket].state = "live" /\ got = Len(Sent(socket))
    BY DEF ResumeInv, PhoneInv, Settled, Resyncing
  <2>2. Reading /\ socket \in Subscribers
    BY <2>1 DEF ResumeTypes, Reading, Subscribers
  <2> DEFINE x == stream[socket]
             l == Lead(x)
             b == Begin(x)
             n == Len(log) - b
  <2>3. /\ IsStream(x) /\ Aligned(x, log) /\ log \in Seq(Published)
        /\ Len(log) \in Nat /\ b \in 0 .. Len(log) /\ l \in {1, 2}
    <3>1. IsStream(x) /\ Aligned(x, log) /\ log \in Seq(Published)
      BY <2>1, <2>2, PlaceFacts DEF HubInv, HubTypes
    <3>2. Len(log) \in Nat /\ b \in 0 .. Len(log)
      BY <2>1, <2>2, PlaceFacts
    <3>3. l \in {1, 2}
      BY <2>1, <2>2, PlaceFacts
    <3> QED
      BY <3>1, <3>2, <3>3
  <2>4. got = l + n
    BY <2>1, <2>3, SentIsAligned
  <2>5. Place(x, got) = b + (IF got <= l THEN 0 ELSE got - l)
    BY DEF Place
  <2>6. Reached = Len(log)
    <3>1. got > 0 /\ Place(x, got) = Len(log)
      <4> HIDE DEF x, l, b
      <4> QED
        BY <2>3, <2>4, <2>5
    <3> QED
      BY <2>2, <3>1 DEF Reached
  <2>7. /\ epoch = 1 /\ view.of = 1 /\ Accounts(view.base, Len(log), log, view.kept)
        /\ view.base \in Nat
    BY <2>1, <2>6 DEF Unharmed, Accounted, ResumeTypes, View
  <2>8. view.base >= LastMarker
    <3> DEFINE base == view.base
               m == LastMarker
    <3>1. m = 0 \/ (m \in 1 .. Len(log) /\ log[m] = DshRestarted)
      BY <2>1, LastMarkerFacts
    <3>2. \A i \in 1 .. Len(log) : log[i] = DshRestarted => i <= base
      BY <2>7 DEF Accounts
    <3> HIDE DEF base, m
    <3>3. base >= m
      BY <2>3, <2>7, <3>1, <3>2 DEF base
    <3> QED
      BY <3>3 DEF base, m
  <2>9. ASSUME NEW i \in view.base + 1 .. Len(log), log[i] \in Offered
        PROVE  <<epoch, i>> \in view.kept
    <3>1. i \in 1 .. Len(log) /\ view.base < i
      BY <2>3, <2>7
    <3> QED
      BY <2>7, <2>9, <3>1 DEF Accounts
  <2> QED
    BY <2>7, <2>8, <2>9 DEF ViewComplete
<1> QED
  BY <1>1, ResumeInvHolds, PTL

\* Whatever the phone folds next lies ahead of everything it folded of this bridge process
\* (core.ts, onEnvelope; ring.ts, readAfter).
LEMMA NextFrameIsNew ==
  ASSUME ResumeInv, [ResumeNext]_resumeVars, NEW s \in Stream,
         socket = s, socket' = s, got' > got, Sent(s)[got'].kind = "log"
  PROVE  <<epoch, Sent(s)[got'].bseq>> \notin view.folded
<1>1. got \in Nat /\ s # NoStream /\ NothingFoldedAhead /\ phoneState # "reconnecting"
  BY ResumeAssumption DEF ResumeInv, PhoneInv, ResumeTypes
<1>2. got' # got
  BY <1>1
<1>3. ReadNext
  <2>1. ~ (UNCHANGED phoneVars)
    BY <1>2 DEF phoneVars, streamVars
  <2>2. ~ (DshEvent \/ DshLost \/ DshBack \/ BridgeRestarts \/ UNCHANGED resumeVars)
    BY <2>1 DEF DshEvent, DshLost, DshBack, BridgeRestarts, resumeVars
  <2>3. ~ (\E t \in Stream : OpenStream(t)) /\ ~ LoseStream
    BY <1>1 DEF OpenStream, LoseStream
  <2>4. ~ (ResyncSucceeds \/ ResyncFails \/ NoteHarnessDown)
    BY <1>2 DEF ResyncSucceeds, ResyncFails, ResyncReturns, NoteHarnessDown
  <2>5. ~ (ResyncIsAnswered \/ ResyncAdopts \/ ResyncPassesOver \/ LoadHistory)
    BY <1>2 DEF ResyncIsAnswered, ResyncAdopts, ResyncPassesOver, LoadHistory, streamVars
  <2> QED
    BY <2>2, <2>3, <2>4, <2>5 DEF ResumeNext
<1> DEFINE p == Place(stream[s], got)
           item == Sent(s)[got + 1]
<1>4. Reading /\ got < Len(Sent(socket)) /\ got' = got + 1
  BY <1>3 DEF ReadNext, Reading
<1>5. /\ p \in Nat
      /\ \/ item = Hello(s)
         \/ item = Overflow(s)
         \/ item = [kind |-> "log", bseq |-> p + 1, frame |-> log[p + 1]]
  BY <1>4, NextItem
<1>6. item.kind = "log"
  BY <1>4
<1>7. item.bseq = p + 1
  BY <1>5, <1>6 DEF Hello, Overflow
<1>8. ~ (p + 1 <= p) /\ p + 1 \in Nat
  BY <1>5
<1>9. <<epoch, p + 1>> \notin view.folded
  BY <1>1, <1>4, <1>8 DEF NothingFoldedAhead
<1> QED
  BY <1>4, <1>7, <1>9

\* A resumed delta does not repeat: the stream folds no frame twice that one process of the
\* bridge numbered. A frame that only a fetched baseline covers may be folded once.
THEOREM NothingIsFoldedTwice == ResumeSpec => NoFrameTwice
<1>1. ResumeInv /\ [ResumeNext]_resumeVars
        => [\A s \in Stream :
              (socket = s /\ socket' = s /\ got' > got /\ Sent(s)[got'].kind = "log")
                => <<epoch, Sent(s)[got'].bseq>> \notin view.folded]_resumeVars
  BY NextFrameIsNew
<1> QED
  BY <1>1, ResumeInvHolds, PTL DEF ResumeSpec, NoFrameTwice

==============================================================================
