------------------------- MODULE RelayTunnel_proofs -------------------------
(***************************************************************************)
(* Theorems about the two ends of a tunnel through the relay, for every    *)
(* number of dials, sessions, requests and faults.                         *)
(*                                                                         *)
(* That the ends agree on their channel rests on three kinds of fact.      *)
(*                                                                         *)
(* What the connector and the phone's session are, given the frames that   *)
(* each has sent and the other has not read (Agreed): every transcript     *)
(* signed or sealed for pairs ephemerals that were drawn; a session of the *)
(* phone signs one transcript; and there is a newest session that the      *)
(* connector has answered.  It is a predicate of two records and two sets  *)
(* of frames, and the lemmas say what each method does to it.              *)
(*                                                                         *)
(* In which order things are read: sockets and their closes as the relay   *)
(* and the ends see them (Sockets, Queues, BridgeTold, PhoneTold), frames  *)
(* of the phone in the order of its sessions and those of the bridge in    *)
(* the order of its ephemerals (Ordered), and nothing older than what the  *)
(* phone has pinned before it is told of an end (Fresh).                   *)
(*                                                                         *)
(* And that, while the two newest sockets are paired and no end of the     *)
(* session is in sight, a connector that has signed for the session keeps  *)
(* the handshake or the channel of it (Paired).                            *)
(*                                                                         *)
(* That nothing stalls needs more: RelayQuiet_proofs.                      *)
(***************************************************************************)
EXTENDS RelayTunnel, SequenceTheorems, TLAPS

-----------------------------------------------------------------------------
\* Messages.
Notice == {closed, Register, Registered, PeerOnline, PeerOffline, Error("routing-id-taken"),
           Error("quota-exceeded"), Error("peer-offline")}
Keys     == Nat \X Nat
Greeting == [type : {"relay/handshake"}, eph : Nat, sig : Keys \cup {None}]
Kinds    == {"request", "response", "subscribe", "subscribe-failed", "unsubscribe", "unsubscribed",
             "hello"}
Record   == [type : {"relay/data"}, key : Keys, kind : Kinds, id : Nat, of : Nat]
Msg      == Notice \cup Greeting \cup Record

\* A frame is what one end sends to the other; what ends a session of the phone.
Frame(m)  == m.type \in {"relay/handshake", "relay/data"}
Ends(m)   == m.type \in {"close", "relay/peer-offline", "relay/error"}
\* The transcript that a frame covers or is sealed for, and the ephemeral it speaks of:
\* for a frame of the phone its own, for a frame of the bridge the bridge's.
Pair(m)   == IF m.type = "relay/handshake" THEN m.sig ELSE m.key
Author(m) == IF m.type = "relay/handshake" THEN m.eph ELSE m.key[1]
Epoch(m)  == IF m.type = "relay/handshake" THEN m.eph ELSE m.key[2]

LEMMA NoneIsNoKey == None \notin Keys
BY DEF None, Keys

LEMMA KeyIsPair ==
  ASSUME NEW x \in Keys
  PROVE  x = <<x[1], x[2]>> /\ x[1] \in Nat /\ x[2] \in Nat /\ x # None
BY DEF None, Keys

LEMMA SameKey ==
  ASSUME NEW x \in Keys, NEW y \in Keys, x[1] = y[1], x[2] = y[2]
  PROVE  x = y
BY DEF Keys

LEMMA GreetingIs ==
  ASSUME NEW e \in Nat, NEW x \in Keys \cup {None}
  PROVE  LET m == Handshake(e, x)
         IN  /\ m \in Greeting /\ m \in Msg /\ m \notin Notice
             /\ m.type = "relay/handshake" /\ m.eph = e /\ m.sig = x
             /\ Frame(m) /\ ~ Ends(m) /\ Pair(m) = x /\ Author(m) = e /\ Epoch(m) = e
BY DEF Handshake, Greeting, Msg, Frame, Ends, Pair, Author, Epoch, Notice, closed, Register,
       Registered, PeerOnline, PeerOffline, Error

LEMMA RecordIs ==
  ASSUME NEW x \in Keys, NEW k \in Kinds, NEW i \in Nat, NEW n \in Nat
  PROVE  LET m == Data(x, Tunnel(k, i, n))
         IN  /\ m \in Record /\ m \in Msg /\ m \notin Notice
             /\ m.type = "relay/data" /\ m.key = x /\ m.kind = k /\ m.id = i /\ m.of = n
             /\ Frame(m) /\ ~ Ends(m) /\ Pair(m) = x /\ Author(m) = x[1] /\ Epoch(m) = x[2]
BY DEF Data, Tunnel, Record, Msg, Frame, Ends, Pair, Author, Epoch, Notice, closed, Register,
       Registered, PeerOnline, PeerOffline, Error

LEMMA NoticeIs ==
  ASSUME NEW m \in Notice
  PROVE  /\ m \in Msg /\ ~ Frame(m) /\ m \notin Greeting /\ m \notin Record
         /\ Ends(m) <=> m \notin {Register, Registered, PeerOnline}
BY DEF Greeting, Record, Msg, Frame, Ends, Notice, closed, Register, Registered, PeerOnline,
       PeerOffline, Error

LEMMA NoticesDiffer ==
  /\ closed \in Notice /\ Register \in Notice /\ Registered \in Notice /\ PeerOnline \in Notice
  /\ PeerOffline \in Notice /\ \A c \in {"routing-id-taken", "quota-exceeded", "peer-offline"} :
       /\ Error(c) \in Notice /\ Ends(Error(c))
       /\ Error(c) \notin {closed, Register, Registered, PeerOnline, PeerOffline}
  /\ closed \notin {Register, Registered, PeerOnline, PeerOffline}
  /\ Register \notin {Registered, PeerOnline, PeerOffline}
  /\ Registered \notin {PeerOnline, PeerOffline} /\ PeerOnline # PeerOffline
  /\ Error("routing-id-taken") \notin {Error("quota-exceeded"), Error("peer-offline")}
  /\ Ends(closed) /\ Ends(PeerOffline)
  /\ ~ Ends(Register) /\ ~ Ends(Registered) /\ ~ Ends(PeerOnline)
BY DEF Ends, Notice, closed, Register, Registered, PeerOnline, PeerOffline, Error

LEMMA FrameIs ==
  ASSUME NEW m \in Msg, Frame(m)
  PROVE  /\ m \in Greeting \/ m \in Record
         /\ m \notin Notice
         /\ Pair(m) \in Keys \cup {None} /\ Author(m) \in Nat /\ Epoch(m) \in Nat
         /\ m.type = "relay/handshake" <=> m \in Greeting
         /\ m.type = "relay/data" <=> m \in Record
BY DEF Greeting, Record, Msg, Frame, Notice, closed, Register, Registered, PeerOnline,
       PeerOffline, Error, Pair, Author, Epoch, Keys

-----------------------------------------------------------------------------
\* Queues.
In(q) == {q[i] : i \in 1 .. Len(q)}
Chain(q, R) == \A i, j \in 1 .. Len(q) : i < j => <<q[i], q[j]>> \in R

LEMMA Emptied ==
  ASSUME NEW X, NEW R
  PROVE  <<>> \in Seq(X) /\ Len(<<>>) = 0 /\ In(<<>>) = {} /\ Chain(<<>>, R)
BY EmptySeq DEF In, Chain

LEMMA Headed ==
  ASSUME NEW X, NEW q \in Seq(X), q # <<>>, NEW R
  PROVE  /\ Len(q) \in Nat \ {0} /\ Head(q) = q[1] /\ Head(q) \in X /\ Head(q) \in In(q)
         /\ Tail(q) \in Seq(X) /\ Len(Tail(q)) = Len(q) - 1
         /\ \A i \in 1 .. Len(Tail(q)) : Tail(q)[i] = q[i + 1]
         /\ In(Tail(q)) \subseteq In(q) /\ In(q) = {Head(q)} \cup In(Tail(q))
         /\ Chain(q, R) => Chain(Tail(q), R)
         /\ Chain(q, R) => \A m \in In(Tail(q)) : <<Head(q), m>> \in R
<1>1. /\ Len(q) \in Nat \ {0} /\ Head(q) = q[1] /\ Head(q) \in X
      /\ Tail(q) \in Seq(X) /\ Len(Tail(q)) = Len(q) - 1
      /\ \A i \in 1 .. Len(Tail(q)) : Tail(q)[i] = q[i + 1]
  BY EmptySeq, HeadTailProperties, LenProperties
<1> DEFINE t == Tail(q)
           n == Len(q)
<1>2. Len(t) = n - 1 /\ n \in Nat \ {0} /\ Head(q) = q[1]
      /\ \A i \in 1 .. n - 1 : t[i] = q[i + 1]
  BY <1>1
<1> HIDE DEF t
<1>3. In(t) \subseteq In(q)
  BY <1>2 DEF In
<1>4. In(q) \subseteq {Head(q)} \cup In(t)
  <2> SUFFICES ASSUME NEW i \in 1 .. n
               PROVE  q[i] \in {Head(q)} \cup In(t)
    BY DEF In
  <2>1. CASE i = 1
    BY <1>2, <2>1
  <2>2. CASE i # 1
    <3>1. i - 1 \in 1 .. n - 1 /\ (i - 1) + 1 = i
      BY <1>2, <2>2
    <3>2. t[i - 1] = q[i]
      BY <1>2, <3>1
    <3> QED
      BY <1>2, <3>1, <3>2 DEF In
  <2> QED
    BY <2>1, <2>2
<1>5. Head(q) \in In(q)
  BY <1>2 DEF In
<1>6. Chain(q, R) => Chain(t, R)
  BY <1>2 DEF Chain
<1>7. Chain(q, R) => \A m \in In(t) : <<Head(q), m>> \in R
  BY <1>2 DEF Chain, In
<1> QED
  BY <1>1, <1>3, <1>4, <1>5, <1>6, <1>7 DEF t

LEMMA Joined ==
  ASSUME NEW X, NEW q \in Seq(X), NEW r \in Seq(X), NEW R
  PROVE  /\ q \o r \in Seq(X) /\ Len(q \o r) = Len(q) + Len(r) /\ Len(q) \in Nat /\ Len(r) \in Nat
         /\ \A i \in 1 .. Len(q) : (q \o r)[i] = q[i]
         /\ \A i \in 1 .. Len(r) : (q \o r)[Len(q) + i] = r[i]
         /\ In(q \o r) = In(q) \cup In(r)
         /\ Chain(q, R) /\ Chain(r, R) /\ (\A m \in In(q), k \in In(r) : <<m, k>> \in R)
              => Chain(q \o r, R)
<1> DEFINE t == q \o r
           n == Len(q)
           l == Len(r)
<1>1. n \in Nat /\ l \in Nat
  BY LenProperties
<1>2. /\ t \in Seq(X) /\ Len(t) = n + l
      /\ \A i \in 1 .. n + l : t[i] = IF i <= n THEN q[i] ELSE r[i - n]
  BY ConcatProperties
<1> HIDE DEF t
<1>3. \A i \in 1 .. n : t[i] = q[i]
  BY <1>1, <1>2
<1>4. \A i \in 1 .. l : t[n + i] = r[i]
  <2> TAKE i \in 1 .. l
  <2>1. n + i \in 1 .. n + l /\ ~ (n + i <= n) /\ (n + i) - n = i
    BY <1>1
  <2> QED
    BY <1>2, <2>1
<1>5. In(t) \subseteq In(q) \cup In(r)
  <2> SUFFICES ASSUME NEW i \in 1 .. n + l
               PROVE  t[i] \in In(q) \cup In(r)
    BY <1>2 DEF In
  <2>1. CASE i <= n
    <3>1. i \in 1 .. n
      BY <1>1, <2>1
    <3> QED
      BY <1>3, <3>1 DEF In
  <2>2. CASE ~ (i <= n)
    <3>1. i - n \in 1 .. l
      BY <1>1, <2>2
    <3> QED
      BY <1>2, <2>2, <3>1 DEF In
  <2> QED
    BY <2>1, <2>2
<1>6. In(q) \subseteq In(t)
  <2>1. \A i \in 1 .. n : i \in 1 .. Len(t)
    BY <1>1, <1>2
  <2> QED
    BY <1>3, <2>1 DEF In
<1>7. In(r) \subseteq In(t)
  <2>1. \A i \in 1 .. l : n + i \in 1 .. Len(t)
    BY <1>1, <1>2
  <2> QED
    BY <1>4, <2>1 DEF In
<1>8. ASSUME Chain(q, R), Chain(r, R), \A m \in In(q), k \in In(r) : <<m, k>> \in R
      PROVE  Chain(t, R)
  <2> SUFFICES ASSUME NEW i \in 1 .. n + l, NEW j \in 1 .. n + l, i < j
               PROVE  <<t[i], t[j]>> \in R
    BY <1>2 DEF Chain
  <2>1. CASE j <= n
    <3>1. i \in 1 .. n /\ j \in 1 .. n
      BY <1>1, <2>1
    <3> QED
      BY <1>3, <1>8, <3>1 DEF Chain
  <2>2. CASE ~ (j <= n) /\ i <= n
    <3>1. i \in 1 .. n /\ j - n \in 1 .. l
      BY <1>1, <2>2
    <3>2. t[i] \in In(q) /\ t[j] \in In(r)
      BY <1>2, <2>2, <3>1 DEF In
    <3> QED
      BY <1>8, <3>2
  <2>3. CASE ~ (i <= n)
    <3>1. i - n \in 1 .. l /\ j - n \in 1 .. l /\ i - n < j - n /\ ~ (j <= n)
      BY <1>1, <2>3
    <3>2. t[i] = r[i - n] /\ t[j] = r[j - n]
      BY <1>2, <2>3, <3>1
    <3> QED
      BY <1>8, <3>1, <3>2 DEF Chain
  <2> QED
    BY <2>1, <2>2, <2>3
<1> QED
  BY <1>1, <1>2, <1>3, <1>4, <1>5, <1>6, <1>7, <1>8 DEF t

LEMMA JoinedIn ==
  ASSUME NEW q \in Seq(Msg), NEW r \in Seq(Msg)
  PROVE  /\ q \o r \in Seq(Msg) /\ Len(q \o r) = Len(q) + Len(r)
         /\ \A i \in 1 .. Len(r) : (q \o r)[Len(q) + i] = r[i]
         /\ In(q \o r) = In(q) \cup In(r)
BY Joined

LEMMA Cut ==
  ASSUME NEW X, NEW q \in Seq(X), NEW n \in 0 .. Len(q), NEW R
  PROVE  /\ SubSeq(q, 1, n) \in Seq(X) /\ Len(SubSeq(q, 1, n)) = n
         /\ \A i \in 1 .. n : SubSeq(q, 1, n)[i] = q[i]
         /\ In(SubSeq(q, 1, n)) \subseteq In(q)
         /\ Chain(q, R) => Chain(SubSeq(q, 1, n), R)
<1> DEFINE t == SubSeq(q, 1, n)
<1>1. /\ t \in Seq(X) /\ Len(t) = n /\ Len(q) \in Nat
      /\ \A i \in 1 .. n : t[i] = q[i]
  BY SubSeqProperties, LenProperties
<1> HIDE DEF t
<1>2. In(t) \subseteq In(q)
  BY <1>1 DEF In
<1>3. Chain(q, R) => Chain(t, R)
  BY <1>1 DEF Chain
<1> QED
  BY <1>1, <1>2, <1>3 DEF t

LEMMA Single ==
  ASSUME NEW X, NEW x \in X, NEW R
  PROVE  <<x>> \in Seq(X) /\ Len(<<x>>) = 1 /\ In(<<x>>) = {x} /\ Chain(<<x>>, R)
         /\ <<x>> # <<>> /\ <<x>>[1] = x
BY DEF In, Chain

LEMMA Two ==
  ASSUME NEW X, NEW x \in X, NEW y \in X, NEW R
  PROVE  /\ <<x, y>> \in Seq(X) /\ Len(<<x, y>>) = 2 /\ In(<<x, y>>) = {x, y}
         /\ <<x, y>> \in R => Chain(<<x, y>>, R)
         /\ <<x, y>>[1] = x /\ <<x, y>>[2] = y
<1>1. <<x, y>> \in Seq(X) /\ Len(<<x, y>>) = 2 /\ <<x, y>>[1] = x /\ <<x, y>>[2] = y
  OBVIOUS
<1>2. In(<<x, y>>) = {x, y}
  <2> DEFINE q == <<x, y>>
  <2>1. Len(q) = 2 /\ q[1] = x /\ q[2] = y
    BY <1>1
  <2> HIDE DEF q
  <2>2. 1 .. 2 = {1, 2}
    OBVIOUS
  <2>3. In(q) = {x, y}
    BY <2>1, <2>2 DEF In
  <2> QED
    BY <2>3 DEF q
<1>3. <<x, y>> \in R => Chain(<<x, y>>, R)
  <2> DEFINE q == <<x, y>>
  <2>1. Len(q) = 2 /\ q[1] = x /\ q[2] = y
    BY <1>1
  <2> HIDE DEF q
  <2>2. <<x, y>> \in R => Chain(q, R)
    BY <2>1 DEF Chain
  <2> QED
    BY <2>2 DEF q
<1> QED
  BY <1>1, <1>2, <1>3

-----------------------------------------------------------------------------
\* Types.
Links  == {"none", "dialing", "open", "closing", "closed"}
States == {"idle", "dialing", "registered", "handshaking", "tunneled", "backoff"}
Phases == {"idle", "opening", "registering", "handshaking", "sealed", "closed"}
Connector ==
  [n : 0 .. MaxDials, link : Links, state : States, stopped : BOOLEAN, timers : Nat,
   handshake : Nat, signed : BOOLEAN, channel : Keys \cup {None}, ephemerals : Nat,
   stream : Nat, live : SUBSET Nat]
Phone ==
  [n : 0 .. MaxSessions, phase : Phases, ended : {"no", "retry", "pin-mismatch", "routing-collision"},
   begun : BOOLEAN, signed : BOOLEAN, peerEphemeral : Nat, channel : Keys \cup {None},
   pending : SUBSET Nat, nextId : Nat, sub : {"none", "asked", "following", "ended"},
   subId : Nat, hello : Nat]
Work == [kind : {"request", "subscribe"}, id : Nat, of : Nat]

RelayTypeOK ==
  /\ connector \in Connector /\ (connector.n = 0 => connector.link = "none")
  /\ phone \in Phone /\ (phone.n = 0 => phone.phase = "idle")
  /\ backend \subseteq Work /\ greeted \subseteq Nat
  /\ peers \in [End -> Socket \cup {None}] /\ open \subseteq Socket
  /\ up \in [Socket -> Seq(Msg)] /\ down \in [End -> Seq(Msg)]
  /\ faults \in Nat /\ overQuota \in BOOLEAN /\ carriedOver \in BOOLEAN

LEMMA EndIs == End = {"bridge", "phone"} /\ Other("bridge") = "phone" /\ Other("phone") = "bridge"
BY DEF End, Other

LEMMA SocketIs ==
  /\ \A n \in 1 .. MaxDials : <<"bridge", n>> \in Socket
  /\ \A n \in 1 .. MaxSessions : <<"phone", n>> \in Socket
  /\ \A s \in Socket : /\ s[1] \in End /\ s = <<s[1], s[2]>> /\ s # None
                       /\ s[2] \in 1 .. (IF s[1] = "bridge" THEN MaxDials ELSE MaxSessions)
  /\ \A n, k : <<"bridge", n>> # <<"phone", k>> /\ <<"bridge", n>> # None /\ <<"phone", k>> # None
  /\ \A n, k : <<"bridge", n>>[1] = "bridge" /\ <<"phone", k>>[1] = "phone"
  /\ MaxDials \in Nat /\ MaxSessions \in Nat
<1>1. MaxDials \in Nat /\ MaxSessions \in Nat
  BY RelayAssumption
<1>2. \A s \in Socket : /\ s[1] \in End /\ s = <<s[1], s[2]>> /\ s # None
                        /\ s[2] \in 1 .. (IF s[1] = "bridge" THEN MaxDials ELSE MaxSessions)
  BY DEF Socket, End, None
<1> QED
  BY <1>1, <1>2 DEF Socket, None

LEMMA OwnIs ==
  ASSUME RelayTypeOK
  PROVE  /\ Own("bridge") = Dialled /\ Own("phone") = Session
         /\ connector.link # "none" => Dialled \in Socket
         /\ phone.phase # "idle" => Session \in Socket
         /\ Dialled # Session /\ Dialled[1] = "bridge" /\ Session[1] = "phone"
         /\ Hears(Dialled) <=> connector.link = "open" /\ ~ connector.stopped
         /\ Hears(Session) <=> phone.phase \notin {"idle", "opening", "closed"}
         /\ HearsClose(Dialled) <=> connector.link \in {"open", "closing"} /\ ~ connector.stopped
         /\ HearsClose(Session) <=> Hears(Session)
         /\ \A s \in Socket : s \notin {Dialled, Session} => ~ HearsClose(s)
<1>1. connector.n \in 0 .. MaxDials /\ phone.n \in 0 .. MaxSessions /\ connector.link \in Links
  BY DEF RelayTypeOK, Connector, Phone
<1>2. connector.link # "none" => connector.n \in 1 .. MaxDials
  BY <1>1, RelayAssumption DEF RelayTypeOK
<1>3. phone.phase # "idle" => phone.n \in 1 .. MaxSessions
  BY <1>1, RelayAssumption DEF RelayTypeOK
<1>4. Dialled # Session /\ Dialled[1] = "bridge" /\ Session[1] = "phone"
  BY SocketIs DEF Dialled, Session
<1> QED
  BY <1>1, <1>2, <1>3, <1>4, SocketIs DEF Own, Hears, HearsClose, Dialled, Session

LEMMA PushIs ==
  ASSUME NEW q \in Seq(Msg), NEW ms \in Seq(Msg)
  PROVE  /\ Push(q, ms) \in Seq(Msg)
         /\ In(q) \subseteq In(Push(q, ms)) /\ In(Push(q, ms)) \subseteq In(q) \cup In(ms)
         /\ Closing(q) => Push(q, ms) = q
         /\ ~ Closing(q) => Push(q, ms) = q \o ms /\ In(Push(q, ms)) = In(q) \cup In(ms)
         /\ ms = <<>> => Push(q, ms) = q
<1>1. q \o ms \in Seq(Msg) /\ In(q \o ms) = In(q) \cup In(ms)
  BY Joined
<1>2. ms = <<>> => q \o ms = q
  BY ConcatEmptySeq
<1> QED
  BY <1>1, <1>2 DEF Push

LEMMA ClosingIs ==
  ASSUME NEW q \in Seq(Msg)
  PROVE  /\ Closing(q) <=> Len(q) > 0 /\ q[Len(q)] = closed
         /\ Closing(q) => closed \in In(q) /\ q # <<>>
         /\ Closes(q) \in Seq(Msg) /\ In(Closes(q)) \subseteq In(q) \cap {closed}
         /\ Closes(q) \in {<<>>, <<closed>>}
<1>1. closed \in Msg
  BY NoticesDiffer, NoticeIs
<1>2. Len(q) \in Nat /\ (q = <<>> <=> Len(q) = 0)
  BY EmptySeq, LenProperties
<1>3. Closing(q) <=> Len(q) > 0 /\ q[Len(q)] = closed
  BY <1>2 DEF Closing, Last
<1>4. Closing(q) => closed \in In(q)
  BY <1>2, <1>3 DEF In
<1> QED
  BY <1>1, <1>2, <1>3, <1>4, Emptied, Single DEF Closes

LEMMA HeardIs ==
  ASSUME RelayTypeOK, NEW e \in End, NEW ms \in Seq(Msg)
  PROVE  /\ Heard(e, ms) \in Seq(Msg)
         /\ In(down[e]) \subseteq In(Heard(e, ms))
         /\ In(Heard(e, ms)) \subseteq In(down[e]) \cup In(ms)
         /\ ms = <<>> \/ Closing(down[e]) => Heard(e, ms) = down[e]
         /\ Hears(Own(e)) /\ ~ Closing(down[e]) => Heard(e, ms) = down[e] \o ms
         /\ ~ Hears(Own(e)) => /\ In(Heard(e, ms)) \subseteq In(down[e]) \cup {closed}
                               /\ ~ HearsClose(Own(e)) => Heard(e, ms) = down[e]
                               /\ Heard(e, ms) \in {down[e], down[e] \o <<closed>>}
<1>1. down[e] \in Seq(Msg)
  BY DEF RelayTypeOK
<1>2. Closes(ms) \in Seq(Msg) /\ In(Closes(ms)) \subseteq In(ms) \cap {closed}
      /\ Closes(ms) \in {<<>>, <<closed>>}
  BY ClosingIs
<1>3. ms = <<>> => Closes(ms) = <<>>
  BY DEF Closes, Closing
<1>4. Push(down[e], <<>>) = down[e] /\ Push(down[e], <<closed>>) \in {down[e], down[e] \o <<closed>>}
  BY <1>1, ConcatEmptySeq DEF Push
<1>5. CASE Hears(Own(e))
  <2>1. Heard(e, ms) = Push(down[e], ms)
    BY <1>5 DEF Heard
  <2> QED
    BY <1>1, <1>5, <2>1, PushIs
<1>6. CASE ~ Hears(Own(e)) /\ HearsClose(Own(e))
  <2>1. Heard(e, ms) = Push(down[e], Closes(ms))
    BY <1>6 DEF Heard
  <2>2. /\ Push(down[e], Closes(ms)) \in Seq(Msg)
        /\ In(down[e]) \subseteq In(Push(down[e], Closes(ms)))
        /\ In(Push(down[e], Closes(ms))) \subseteq In(down[e]) \cup In(Closes(ms))
        /\ Closing(down[e]) \/ Closes(ms) = <<>> => Push(down[e], Closes(ms)) = down[e]
    BY <1>1, <1>2, PushIs
  <2> QED
    BY <1>2, <1>3, <1>4, <1>6, <2>1, <2>2
<1>7. CASE ~ Hears(Own(e)) /\ ~ HearsClose(Own(e))
  <2>1. Heard(e, ms) = down[e]
    BY <1>7 DEF Heard
  <2> QED
    BY <1>1, <1>7, <2>1
<1> QED
  BY <1>5, <1>6, <1>7

\* What a message of the relay brings to the end e.
Brought(e, s, ms, ns) == IF e = s[1] THEN (IF s = Own(e) THEN ms ELSE <<>>)
                         ELSE IF peers[e] = Own(e) THEN ns ELSE <<>>

LEMMA DeliveredIs ==
  ASSUME RelayTypeOK, NEW s \in Socket, NEW ms \in Seq(Msg), NEW ns \in Seq(Msg)
  PROVE  /\ Delivered(s, ms, ns) \in [End -> Seq(Msg)]
         /\ \A e \in End : /\ Brought(e, s, ms, ns) \in Seq(Msg)
                           /\ Delivered(s, ms, ns)[e] = Heard(e, Brought(e, s, ms, ns))
<1>1. <<>> \in Seq(Msg)
  BY EmptySeq
<1>2. \A e \in End : Brought(e, s, ms, ns) \in Seq(Msg)
  BY <1>1 DEF Brought
<1>3. Delivered(s, ms, ns) = [e \in End |-> Heard(e, Brought(e, s, ms, ns))]
  BY DEF Delivered, Brought
<1>4. \A e \in End : Heard(e, Brought(e, s, ms, ns)) \in Seq(Msg)
  BY <1>2, HeardIs
<1> QED
  BY <1>2, <1>3, <1>4

LEMMA SentIs ==
  ASSUME RelayTypeOK, NEW s, s \in open => s \in Socket, NEW ms \in Seq(Msg)
  PROVE  /\ Sent(s, ms) \in [Socket -> Seq(Msg)]
         /\ \A x \in Socket : x # s => Sent(s, ms)[x] = up[x]
         /\ s \in open => Sent(s, ms)[s] = Push(up[s], ms)
         /\ s \notin open \/ ms = <<>> => Sent(s, ms) = up
<1>1. CASE s \notin open
  BY <1>1 DEF Sent, RelayTypeOK
<1>2. CASE s \in open
  <2>1. up[s] \in Seq(Msg) /\ s \in Socket
    BY <1>2 DEF RelayTypeOK
  <2>2. Push(up[s], ms) \in Seq(Msg) /\ (ms = <<>> => Push(up[s], ms) = up[s])
    BY <2>1, PushIs
  <2>3. Sent(s, ms) = [up EXCEPT ![s] = Push(up[s], ms)]
    BY <1>2 DEF Sent
  <2> QED
    BY <1>2, <2>1, <2>2, <2>3 DEF RelayTypeOK
<1> QED
  BY <1>1, <1>2

-----------------------------------------------------------------------------
\* The invariant. What the two ends have sent and the other has not read.
FramesIn(q, u, e) == {m \in In(q) \cup UNION {In(u[s]) : s \in {t \in Socket : t[1] = e}} : Frame(m)}
PhoneSent  == FramesIn(down["bridge"], up, "phone")
BridgeSent == FramesIn(down["phone"], up, "bridge")

\* The sessions of the connector c and the phone p, when P and B are what the phone and the
\* bridge have sent: the transcripts the bridge signed, those it sealed records for, and
\* those the phone signed.
Greetings(M) == {m \in M : m.type = "relay/handshake"}
Records(M)   == {m \in M : m.type = "relay/data"}
Said(p, B)   == {x \in {m.sig : m \in Greetings(B)} \cup {p.channel} : x # None}
Keyed(c, B)  == {x \in {m.key : m \in Records(B)} \cup {c.channel} : x # None}
Given(c, P)  == {x \in {Pair(m) : m \in P} \cup {c.channel} : x # None}

Shapes(c, p, P, B) ==
  /\ \A m \in P : /\ Author(m) \in 1 .. p.n
                  /\ Pair(m) # None => Pair(m)[1] = Author(m) /\ Pair(m)[2] \in 1 .. c.ephemerals
  /\ \A m \in B : /\ Epoch(m) \in 1 .. c.ephemerals
                  /\ Pair(m) # None => Pair(m)[2] = Epoch(m) /\ Pair(m)[1] \in 1 .. p.n

\* The connector's newest ephemeral is the one of its handshake or of its channel.
Ours(c, p, B) ==
  /\ c.handshake # 0 => /\ c.handshake = c.ephemerals /\ c.channel = None
                        /\ \A m \in Records(B) : m.key[2] < c.ephemerals
  /\ c.channel # None => /\ c.channel[2] = c.ephemerals /\ c.ephemerals # 0
                      /\ c.channel[1] \in 1 .. p.n

Theirs(c, p) ==
  /\ p.peerEphemeral \in 0 .. c.ephemerals
  /\ p.signed <=> p.peerEphemeral # 0
  /\ p.phase = "sealed" <=> p.channel # None
  /\ p.phase = "handshaking" <=> p.begun
  /\ p.signed => p.phase \in {"handshaking", "sealed"}
  /\ p.channel # None => p.channel = <<p.n, p.peerEphemeral>> /\ p.signed

\* A session of the phone signs one transcript.
OneSignature(c, p, P, B) ==
  /\ \A x, y \in Given(c, P) : x[1] = y[1] => x = y
  /\ \A x \in Given(c, P) \cup Keyed(c, B) :
       x[1] = p.n => p.phase = "closed" \/ (p.signed /\ x[2] = p.peerEphemeral)

\* s is the newest session of the phone that the connector has answered.
Answered(c, p, P, B, s) ==
  /\ s \in 0 .. p.n
  /\ \A m \in P : Author(m) >= s
  /\ \A m \in Records(P) : m.key[1] <= s
  /\ p.channel # None => s = p.n
  /\ \A x \in Said(p, B) \cup Keyed(c, B) : x[1] <= s
  /\ c.channel # None => c.channel[1] = s
  /\ p.phase \in {"opening", "registering"} => s < p.n /\ \A m \in P : Author(m) # p.n

SaidFirst(c, p, B) == \A x \in Said(p, B), y \in Keyed(c, B) : y[2] >= x[2] => y[1] >= x[1]

Agreed(c, p, P, B, s) ==
  /\ Shapes(c, p, P, B) /\ Ours(c, p, B) /\ Theirs(c, p)
  /\ OneSignature(c, p, P, B) /\ Answered(c, p, P, B, s) /\ SaidFirst(c, p, B)

Live == phone.phase \in {"registering", "handshaking", "sealed"}
NotRegister == {x \in Msg \X Msg : x[2] # Register}

\* The relay's view of the sockets and what the ends make of it.
Sockets ==
  /\ \A e \in End : peers[e] # None => peers[e] \in open /\ peers[e][1] = e
  /\ \A s \in open : s[2] <= Own(s[1])[2]
  /\ connector.link \in {"none", "dialing"} => Dialled \notin open /\ down["bridge"] = <<>>
  /\ connector.link = "closing" => In(down["bridge"]) \subseteq {closed}
  /\ connector.stopped => connector.link \in {"closing", "closed"}
  /\ phone.phase \in {"idle", "opening"} => Session \notin open
  /\ phone.phase \in {"idle", "opening", "closed"} => down["phone"] = <<>>

Queues ==
  \A s \in Socket :
    /\ Chain(up[s], NotRegister)
    /\ Register \in In(up[s]) => peers[s[1]] # s
    /\ \A m \in In(up[s]) : Frame(m) =>
         /\ peers[s[1]] = s \/ (s[1] = "bridge" /\ m.type = "relay/data" /\ Register \in In(up[s]))
         /\ s[1] = "phone" => Author(m) = s[2]

BridgeTold ==
  connector.link = "open" /\ Dialled \in open =>
    /\ peers["bridge"] = Dialled \/ Register \in In(up[Dialled]) \/ Closing(up[Dialled])
    /\ \A m \in In(down["bridge"]) : m = closed \/ peers["bridge"] = Dialled
    /\ closed \in In(down["bridge"]) => Closing(up[Dialled])

PhoneTold ==
  Live => IF Session \in open
          THEN /\ phone.phase # "registering" => peers["phone"] = Session
               /\ \A m \in In(down["phone"]) : m = closed \/ peers["phone"] = Session
          ELSE closed \in In(down["phone"])

Later == {x \in Msg \X Msg : Frame(x[1]) /\ Frame(x[2]) => Author(x[1]) <= Author(x[2])}
Newer == {x \in Msg \X Msg : Frame(x[1]) /\ Frame(x[2]) => Epoch(x[1]) <= Epoch(x[2])}

Ordered ==
  /\ Chain(down["bridge"], Later)
  /\ \A s \in Socket : s[1] = "phone" =>
       \A m \in In(up[s]), k \in In(down["bridge"]) : Frame(m) /\ Frame(k) => Author(k) <= s[2]
  /\ \A s \in Socket : s[1] = "bridge" => Chain(up[s], Newer)

NoEnds(q) == \A m \in In(q) : ~ Ends(m)
\* What the phone reads before it is told of an end is never of an older handshake.
FreshFrom(q, a) ==
  \A j \in 1 .. Len(q) : (Frame(q[j]) /\ \A k \in 1 .. j - 1 : ~ Ends(q[k])) =>
    /\ Epoch(q[j]) >= a
    /\ \A i \in 1 .. j - 1 : Frame(q[i]) => Epoch(q[i]) <= Epoch(q[j])
Fresh ==
  /\ FreshFrom(down["phone"], phone.peerEphemeral)
  /\ Live /\ peers["phone"] = Session /\ NoEnds(down["phone"]) =>
       IF peers["bridge"] = None
       THEN phone.peerEphemeral = 0 /\ \A m \in In(down["phone"]) : ~ Frame(m)
       ELSE \A m \in In(up[peers["bridge"]]) : Frame(m) =>
              /\ Epoch(m) >= phone.peerEphemeral
              /\ \A k \in In(down["phone"]) : Frame(k) => Epoch(k) <= Epoch(m)

Staying(n) == {x \in Msg \X Msg : Frame(x[1]) /\ Author(x[1]) = n => x[2] # PeerOffline}
Present(s) ==
  Live /\ peers["phone"] = Session =>
    /\ s = phone.n => PeerOffline \notin In(down["bridge"])
    /\ Chain(down["bridge"], Staying(phone.n))

\* The two ends' newest sockets are paired and no end of the phone's session is in sight.
Facing == /\ Live /\ ~ Closing(up[Session]) /\ NoEnds(down["phone"])
          /\ connector.link = "open" /\ peers["bridge"] = Dialled /\ ~ Closing(up[Dialled])
\* Then whatever session of the phone the connector has signed for, it is in that handshake
\* or holds its channel; and what the phone signed for that handshake is on its way.
Mutual(c, p, P, B) ==
  /\ \A x \in Said(p, B) : x[1] = p.n => (c.handshake = x[2] /\ c.signed) \/ c.channel = x
  /\ p.signed /\ c.handshake = p.peerEphemeral =>
       Handshake(p.n, <<p.n, p.peerEphemeral>>) \in P
Paired == Facing => Mutual(connector, phone, PhoneSent, BridgeSent)

Accusing ==
  /\ Error("routing-id-taken") \in In(down["phone"]) => phone.n > 1
  /\ phone.ended \in {"pin-mismatch", "routing-collision"} => phone.n > 1

RelayInv ==
  /\ RelayTypeOK /\ Sockets /\ Queues /\ BridgeTold /\ PhoneTold /\ Ordered /\ Fresh
  /\ Paired /\ Accusing
  /\ \E s \in 0 .. MaxSessions : Agreed(connector, phone, PhoneSent, BridgeSent, s) /\ Present(s)

-----------------------------------------------------------------------------
\* The sessions: what a step of either end does to Agreed.
Frames == {m \in Msg : Frame(m)}

SameCore(c, d) == d.channel = c.channel /\ d.handshake = c.handshake /\ d.ephemerals = c.ephemerals
SameSession(p, q) ==
  /\ q.n = p.n /\ q.phase = p.phase /\ q.begun = p.begun
  /\ q.signed = p.signed /\ q.peerEphemeral = p.peerEphemeral /\ q.channel = p.channel

LEMMA FramesAre ==
  ASSUME NEW M \in SUBSET Frames
  PROVE  /\ \A m \in M : /\ m \in Msg /\ (m \in Greetings(M) \/ m \in Records(M))
                         /\ Author(m) \in Nat /\ Epoch(m) \in Nat /\ Pair(m) \in Keys \cup {None}
         /\ \A m \in Greetings(M) : /\ m \in M /\ Pair(m) = m.sig /\ Author(m) = m.eph
                                    /\ Epoch(m) = m.eph
         /\ \A m \in Records(M) : /\ m \in M /\ Pair(m) = m.key /\ m.key \in Keys /\ m.key # None
                                  /\ Author(m) = m.key[1] /\ Epoch(m) = m.key[2]
<1>1. \A m \in M : m \in Msg /\ Frame(m)
  BY DEF Frames
<1>2. \A m \in M : Author(m) \in Nat /\ Epoch(m) \in Nat /\ Pair(m) \in Keys \cup {None}
  BY <1>1, FrameIs
<1>3. \A m \in M : m.type \in {"relay/handshake", "relay/data"}
  BY <1>1 DEF Frame
<1>4. \A m \in Records(M) : m.key \in Keys
  <2>1. \A m \in Records(M) : m \in M /\ m.type = "relay/data"
    BY DEF Records
  <2>2. \A m \in Records(M) : m \in Record
    BY <1>1, <2>1, FrameIs
  <2> QED
    BY <2>2 DEF Record
<1>5. \A m \in Records(M) : m.key # None
  BY <1>4, NoneIsNoKey
<1> QED
  BY <1>1, <1>2, <1>3, <1>4, <1>5 DEF Greetings, Records, Pair, Author, Epoch

LEMMA SaidIs ==
  ASSUME NEW p \in Phone, NEW B \in SUBSET Frames
  PROVE  /\ Said(p, B) \subseteq Keys
         /\ \A x : x \in Said(p, B) <=> x # None /\ (x = p.channel \/ \E m \in Greetings(B) : m.sig = x)
<1>1. \A m \in Greetings(B) : m.sig \in Keys \cup {None}
  BY FramesAre
<1>2. p.channel \in Keys \cup {None}
  BY DEF Phone
<1> QED
  BY <1>1, <1>2 DEF Said

LEMMA KeyedIs ==
  ASSUME NEW c \in Connector, NEW B \in SUBSET Frames
  PROVE  /\ Keyed(c, B) \subseteq Keys
         /\ \A x : x \in Keyed(c, B) <=> x # None /\ (x = c.channel \/ \E m \in Records(B) : m.key = x)
<1>1. \A m \in Records(B) : m.key \in Keys
  BY FramesAre
<1>2. c.channel \in Keys \cup {None}
  BY DEF Connector
<1> QED
  BY <1>1, <1>2 DEF Keyed

LEMMA GivenIs ==
  ASSUME NEW c \in Connector, NEW P \in SUBSET Frames
  PROVE  /\ Given(c, P) \subseteq Keys
         /\ \A x : x \in Given(c, P) <=> x # None /\ (x = c.channel \/ \E m \in P : Pair(m) = x)
<1>1. \A m \in P : Pair(m) \in Keys \cup {None}
  BY FramesAre
<1>2. c.channel \in Keys \cup {None}
  BY DEF Connector
<1> QED
  BY <1>1, <1>2 DEF Given

\* Frames are read, dropped or lost, the connector's session is torn down, or the phone's ends.
LEMMA FewerAgree ==
  ASSUME NEW c \in Connector, NEW d \in Connector, NEW p \in Phone, NEW q \in Phone,
         NEW P \in SUBSET Frames, NEW Q \in SUBSET P, NEW B \in SUBSET Frames, NEW C \in SUBSET B,
         NEW s, Agreed(c, p, P, B, s),
         SameCore(c, d) \/ (d.channel = None /\ d.handshake = 0 /\ d.ephemerals = c.ephemerals),
         \/ SameSession(p, q)
         \/ /\ q.n = p.n /\ q.phase = "closed" /\ ~ q.begun
            /\ ~ q.signed /\ q.peerEphemeral = 0 /\ q.channel = None
  PROVE  Agreed(d, q, Q, C, s)
<1>1. Q \in SUBSET Frames /\ C \in SUBSET Frames
  OBVIOUS
<1>2. q.n = p.n /\ d.ephemerals = c.ephemerals
      /\ (q.channel = p.channel \/ q.channel = None) /\ (d.channel = c.channel \/ d.channel = None)
  BY DEF SameCore, SameSession
<1>3. Greetings(C) \subseteq Greetings(B) /\ Records(C) \subseteq Records(B) /\ Records(Q) \subseteq Records(P)
  BY DEF Greetings, Records
<1>4. Said(q, C) \subseteq Said(p, B)
  BY <1>1, <1>2, <1>3, SaidIs
<1>5. Keyed(d, C) \subseteq Keyed(c, B)
  BY <1>1, <1>2, <1>3, KeyedIs
<1>6. Given(d, Q) \subseteq Given(c, P)
  BY <1>1, <1>2, GivenIs
<1>7. Shapes(d, q, Q, C)
  BY <1>2 DEF Agreed, Shapes
<1>8. Ours(d, q, C)
  BY <1>2, <1>3 DEF Agreed, Ours, SameCore
<1>9. Theirs(d, q)
  <2>1. c.ephemerals \in Nat
    BY DEF Connector
  <2>2. CASE SameSession(p, q)
    BY <1>2, <2>2 DEF Agreed, Theirs, SameSession
  <2>3. CASE q.phase = "closed" /\ ~ q.begun /\ ~ q.signed /\ q.peerEphemeral = 0 /\ q.channel = None
    BY <1>2, <2>1, <2>3 DEF Theirs
  <2> QED
    BY <2>2, <2>3
<1>10. OneSignature(d, q, Q, C)
  BY <1>2, <1>5, <1>6 DEF Agreed, OneSignature, SameSession
<1>11. Answered(d, q, Q, C, s)
  BY <1>2, <1>3, <1>4, <1>5 DEF Agreed, Answered, SameSession
<1>12. SaidFirst(d, q, C)
  BY <1>4, <1>5 DEF Agreed, SaidFirst
<1> QED
  BY <1>7, <1>8, <1>9, <1>10, <1>11, <1>12 DEF Agreed

\* The connector takes a new ephemeral, and sends it unsigned.
LEMMA BeginningAgrees ==
  ASSUME NEW c \in Connector, NEW d \in Connector, NEW p \in Phone,
         NEW P \in SUBSET Frames, NEW B \in SUBSET Frames, NEW s, Agreed(c, p, P, B, s),
         c.channel = None, c.handshake = 0, d.channel = None,
         d.handshake = c.ephemerals + 1, d.ephemerals = c.ephemerals + 1
  PROVE  LET C == B \cup {Handshake(c.ephemerals + 1, None)}
         IN  C \subseteq Frames /\ Agreed(d, p, P, C, s)
<1> DEFINE m == Handshake(c.ephemerals + 1, None)
           C == B \cup {m}
<1>1. c.ephemerals \in Nat /\ c.ephemerals + 1 \in Nat /\ p.peerEphemeral \in Nat
  BY DEF Connector, Phone
<1>2. /\ m \in Msg /\ Frame(m) /\ m.type = "relay/handshake" /\ m.sig = None
      /\ Pair(m) = None /\ Epoch(m) = c.ephemerals + 1
  BY <1>1, GreetingIs
<1>3. m.type # "relay/data"
  BY <1>2
<1> HIDE DEF m
<1>4. C \in SUBSET Frames
  BY <1>2 DEF Frames
<1>5. Greetings(C) = Greetings(B) \cup {m} /\ Records(C) = Records(B)
  BY <1>2, <1>3 DEF Greetings, Records
<1> HIDE DEF C
<1>6. Said(p, C) = Said(p, B)
  <2>1. \A y : y \in Said(p, C) <=> y \in Said(p, B)
    BY <1>2, <1>4, <1>5, SaidIs
  <2> QED
    BY <2>1
<1>7. Keyed(d, C) = Keyed(c, B)
  <2>1. \A y : y \in Keyed(d, C) <=> y \in Keyed(c, B)
    BY <1>4, <1>5, KeyedIs
  <2> QED
    BY <2>1
<1>8. Given(d, P) = Given(c, P)
  <2>1. \A y : y \in Given(d, P) <=> y \in Given(c, P)
    BY GivenIs
  <2> QED
    BY <2>1
<1>9. Shapes(d, p, P, C)
  <2>1. ASSUME NEW k \in P
        PROVE  /\ Author(k) \in 1 .. p.n
               /\ Pair(k) # None => Pair(k)[1] = Author(k) /\ Pair(k)[2] \in 1 .. d.ephemerals
    <3>1. /\ Author(k) \in 1 .. p.n
          /\ Pair(k) # None => Pair(k)[1] = Author(k) /\ Pair(k)[2] \in 1 .. c.ephemerals
      BY DEF Agreed, Shapes
    <3> QED
      BY <1>1, <3>1
  <2>2. ASSUME NEW k \in B
        PROVE  /\ Epoch(k) \in 1 .. d.ephemerals
               /\ Pair(k) # None => Pair(k)[2] = Epoch(k) /\ Pair(k)[1] \in 1 .. p.n
    <3>1. /\ Epoch(k) \in 1 .. c.ephemerals
          /\ Pair(k) # None => Pair(k)[2] = Epoch(k) /\ Pair(k)[1] \in 1 .. p.n
      BY DEF Agreed, Shapes
    <3> QED
      BY <1>1, <3>1
  <2>3. /\ Epoch(m) \in 1 .. d.ephemerals
        /\ Pair(m) # None => Pair(m)[2] = Epoch(m) /\ Pair(m)[1] \in 1 .. p.n
    BY <1>1, <1>2
  <2> QED
    BY <2>1, <2>2, <2>3 DEF Shapes, C
<1>10. Ours(d, p, C)
  <2>1. ASSUME NEW k \in Records(B)
        PROVE  k.key[2] < d.ephemerals
    <3>1. k \in B /\ Epoch(k) = k.key[2]
      BY FramesAre
    <3>2. Epoch(k) \in 1 .. c.ephemerals
      BY <3>1 DEF Agreed, Shapes
    <3> QED
      BY <1>1, <3>1, <3>2
  <2> QED
    BY <1>1, <1>5, <2>1 DEF Ours
<1>11. Theirs(d, p)
  BY <1>1 DEF Agreed, Theirs
<1>12. OneSignature(d, p, P, C)
  BY <1>7, <1>8 DEF Agreed, OneSignature
<1>13. Answered(d, p, P, C, s)
  BY <1>6, <1>7 DEF Agreed, Answered
<1>14. SaidFirst(d, p, C)
  BY <1>6, <1>7 DEF Agreed, SaidFirst
<1> QED
  BY <1>4, <1>9, <1>10, <1>11, <1>12, <1>13, <1>14 DEF Agreed, C, m

\* The connector signs a greeting of the session m.eph, of which nothing older is left.
LEMMA SigningAgrees ==
  ASSUME NEW c \in Connector, NEW d \in Connector, NEW p \in Phone,
         NEW P \in SUBSET Frames, NEW Q \in SUBSET P, NEW B \in SUBSET Frames, NEW s,
         Agreed(c, p, P, B, s), c.handshake # 0, SameCore(c, d),
         NEW m \in Greetings(P), \A k \in Q : Author(k) >= m.eph
  PROVE  LET C == B \cup {BridgeSigned(c.handshake, m.eph)}
         IN  C \subseteq Frames /\ Agreed(d, p, Q, C, m.eph)
<1> DEFINE h == c.handshake
           e == m.eph
           x == <<e, h>>
           g == BridgeSigned(h, e)
           C == B \cup {g}
<1>0. Agreed(d, p, Q, B, s)
  BY FewerAgree DEF SameSession
<1>1. h \in Nat /\ h = c.ephemerals /\ c.channel = None /\ h = d.handshake /\ d.channel = None
      /\ d.ephemerals = h /\ h # 0 /\ p.n \in Nat
  BY DEF Connector, Phone, Agreed, Ours, SameCore
<1>2. m \in P /\ Author(m) = e /\ e \in Nat
  BY FramesAre
<1>3. e \in 1 .. p.n /\ e >= s /\ s \in 0 .. p.n
  BY <1>2 DEF Agreed, Shapes, Answered
<1>4. x \in Keys /\ x # None /\ x[1] = e /\ x[2] = h
  BY <1>1, <1>2 DEF Keys, None
<1>5. g = Handshake(h, x)
  BY DEF BridgeSigned, Transcript
<1>6. /\ g \in Msg /\ Frame(g) /\ g.type = "relay/handshake" /\ g.sig = x
      /\ Pair(g) = x /\ Epoch(g) = h
  BY <1>1, <1>4, <1>5, GreetingIs
<1>7. g.type # "relay/data"
  BY <1>6
<1> HIDE DEF g, x, h, e
<1>8. C \in SUBSET Frames
  BY <1>6 DEF Frames
<1>9. Greetings(C) = Greetings(B) \cup {g} /\ Records(C) = Records(B)
  BY <1>6, <1>7 DEF Greetings, Records
<1> HIDE DEF C
<1>10. Said(p, C) = Said(p, B) \cup {x}
  BY <1>4, <1>6, <1>8, <1>9, SaidIs
<1>11. Keyed(d, C) = Keyed(d, B)
  <2>1. \A y : y \in Keyed(d, C) <=> y \in Keyed(d, B)
    BY <1>8, <1>9, KeyedIs
  <2> QED
    BY <2>1
<1>12. Shapes(d, p, Q, C)
  BY <1>0, <1>1, <1>3, <1>4, <1>6 DEF Agreed, Shapes, C
<1>13. Ours(d, p, C)
  BY <1>0, <1>9 DEF Agreed, Ours
<1>14. Theirs(d, p)
  BY <1>0 DEF Agreed
<1>15. OneSignature(d, p, Q, C)
  BY <1>0, <1>11 DEF Agreed, OneSignature
<1>16. Answered(d, p, Q, C, e)
  <2>1. \A k \in Q : Author(k) >= e
    BY DEF e
  <2>2. \A k \in Records(Q) : k.key \in Keys /\ k.key[1] <= s
    BY <1>0, FramesAre DEF Agreed, Answered
  <2>3. \A k \in Records(Q) : k.key[1] <= e
    BY <1>2, <1>3, <2>2, KeyIsPair
  <2>4. \A y \in Said(p, B) \cup Keyed(d, B) : y \in Keys /\ y[1] <= s
    BY <1>0, SaidIs, KeyedIs DEF Agreed, Answered
  <2>5. \A y \in Said(p, C) \cup Keyed(d, C) : y[1] <= e
    BY <1>2, <1>3, <1>4, <1>10, <1>11, <2>4, KeyIsPair
  <2>6. p.channel # None => e = p.n
    BY <1>0, <1>3 DEF Agreed, Answered
  <2>7. p.phase \in {"opening", "registering"} => e < p.n /\ \A k \in Q : Author(k) # p.n
    BY <1>1, <1>2, <1>3 DEF Agreed, Answered
  <2> QED
    BY <1>1, <1>3, <2>1, <2>3, <2>5, <2>6, <2>7 DEF Answered
<1>17. SaidFirst(d, p, C)
  <2>1. ASSUME NEW y \in Keyed(d, B)
        PROVE  ~ (y[2] >= x[2])
    <3>1. PICK k \in Records(B) : k.key = y
      BY <1>1, KeyedIs
    <3>2. k.key[2] < h /\ k.key \in Keys
      BY <1>0, <1>1, FramesAre DEF Agreed, Ours
    <3> QED
      BY <1>1, <1>4, <3>1, <3>2, KeyIsPair
  <2> QED
    BY <1>0, <1>10, <1>11, <2>1 DEF Agreed, SaidFirst
<1> QED
  BY <1>8, <1>12, <1>13, <1>14, <1>15, <1>16, <1>17 DEF Agreed, C, g, h, e

\* The connector completes its handshake with a signature of the session m.eph.
LEMMA CompletingAgrees ==
  ASSUME NEW c \in Connector, NEW d \in Connector, NEW p \in Phone,
         NEW P \in SUBSET Frames, NEW Q \in SUBSET P, NEW B \in SUBSET Frames, NEW s,
         Agreed(c, p, P, B, s), c.handshake # 0,
         NEW m \in Greetings(P), \A k \in Q : Author(k) >= m.eph, m.sig = <<m.eph, c.handshake>>,
         d.channel = m.sig, d.handshake = 0, d.ephemerals = c.ephemerals
  PROVE  Agreed(d, p, Q, B, m.eph)
<1> DEFINE h == c.handshake
           e == m.eph
           x == m.sig
<1>1. h \in Nat /\ h = c.ephemerals /\ c.channel = None /\ h # 0 /\ p.n \in Nat
  BY DEF Connector, Phone, Agreed, Ours
<1>2. m \in P /\ Author(m) = e /\ e \in Nat /\ Pair(m) = x
  <2>1. m \in P /\ Author(m) = m.eph /\ Pair(m) = m.sig
    BY FramesAre
  <2>2. Author(m) \in Nat
    BY <2>1, FramesAre
  <2> QED
    BY <2>1, <2>2
<1>3. e \in 1 .. p.n /\ e >= s /\ s \in 0 .. p.n
  BY <1>2 DEF Agreed, Shapes, Answered
<1>4. x \in Keys /\ x # None /\ x[1] = e /\ x[2] = h
  BY <1>1, <1>2 DEF Keys, None
<1>5. d.channel = x /\ d.handshake = 0 /\ d.ephemerals = h
  BY <1>1
<1> HIDE DEF h, e, x
<1>6. \A y : y \in Keyed(d, B) => y = x \/ y \in Keyed(c, B)
  BY <1>4, <1>5, KeyedIs
<1>7. \A y : y \in Given(d, Q) => y \in Given(c, P)
  BY <1>2, <1>5, GivenIs
<1>8. x \in Given(c, P)
  BY <1>2, <1>4, GivenIs
<1>9. Records(Q) \subseteq Records(P)
  BY DEF Records
<1>10. Shapes(d, p, Q, B)
  BY <1>1, <1>5 DEF Agreed, Shapes
<1>11. Ours(d, p, B)
  BY <1>3, <1>4, <1>5 DEF Ours
<1>12. Theirs(d, p)
  BY <1>1, <1>5 DEF Agreed, Theirs
<1>13. OneSignature(d, p, Q, B)
  BY <1>6, <1>7, <1>8 DEF Agreed, OneSignature
<1>14. \A y \in Said(p, B) \cup Keyed(c, B) : y \in Keys /\ y[1] <= s /\ y[1] \in Nat
  BY SaidIs, KeyedIs, KeyIsPair DEF Agreed, Answered
<1>15. \A y \in Said(p, B) \cup Keyed(c, B) : y[1] <= e
  BY <1>2, <1>3, <1>14
<1>16. Answered(d, p, Q, B, e)
  <2>1. \A k \in Q : Author(k) >= e
    BY DEF e
  <2>2. \A k \in Records(Q) : k.key \in Keys /\ k.key[1] <= s /\ k.key[1] \in Nat
    BY <1>9, FramesAre, KeyIsPair DEF Agreed, Answered
  <2>3. \A k \in Records(Q) : k.key[1] <= e
    BY <1>2, <1>3, <2>2
  <2>4. \A y \in Said(p, B) \cup Keyed(d, B) : y[1] <= e
    BY <1>2, <1>4, <1>6, <1>15
  <2>5. p.channel # None => e = p.n
    BY <1>3 DEF Agreed, Answered
  <2>6. p.phase \in {"opening", "registering"} => e < p.n /\ \A k \in Q : Author(k) # p.n
    BY <1>1, <1>2, <1>3 DEF Agreed, Answered
  <2> QED
    BY <1>1, <1>3, <1>4, <1>5, <2>1, <2>3, <2>4, <2>5, <2>6 DEF Answered
<1>17. SaidFirst(d, p, B)
  BY <1>4, <1>6, <1>15, <1>14 DEF Agreed, SaidFirst
<1> QED
  BY <1>10, <1>11, <1>12, <1>13, <1>16, <1>17 DEF Agreed, e

\* The connector seals a record for its channel.
LEMMA SealingAgrees ==
  ASSUME NEW c \in Connector, NEW p \in Phone, NEW P \in SUBSET Frames, NEW B \in SUBSET Frames,
         NEW s, Agreed(c, p, P, B, s), c.channel # None,
         NEW k \in Kinds, NEW i \in Nat, NEW n \in Nat
  PROVE  LET C == B \cup {Data(c.channel, Tunnel(k, i, n))}
         IN  C \subseteq Frames /\ Agreed(c, p, P, C, s)
<1> DEFINE g == Data(c.channel, Tunnel(k, i, n))
           C == B \cup {g}
           x == c.channel
<1>1. x \in Keys /\ c.handshake = 0 /\ c.ephemerals \in Nat
  BY DEF Connector, Agreed, Ours
<1>2. x[2] = c.ephemerals /\ x[1] \in 1 .. p.n
  BY DEF Agreed, Ours
<1>3. /\ g \in Msg /\ Frame(g) /\ g.type = "relay/data" /\ g.key = x
      /\ Pair(g) = x /\ Epoch(g) = x[2]
  BY <1>1, RecordIs
<1>4. g.type # "relay/handshake"
  BY <1>3
<1>5. c.ephemerals \in 1 .. c.ephemerals
  BY <1>1 DEF Agreed, Ours
<1> HIDE DEF g, x
<1>6. C \in SUBSET Frames
  BY <1>3 DEF Frames
<1>7. Greetings(C) = Greetings(B) /\ Records(C) = Records(B) \cup {g}
  BY <1>3, <1>4 DEF Greetings, Records
<1> HIDE DEF C
<1>8. Said(p, C) = Said(p, B)
  <2>1. \A y : y \in Said(p, C) <=> y \in Said(p, B)
    BY <1>6, <1>7, SaidIs
  <2> QED
    BY <2>1
<1>9. x # None /\ x = c.channel
  BY DEF x
<1>10. Keyed(c, C) = Keyed(c, B)
  <2>1. \A y : y \in Keyed(c, C) <=> y \in Keyed(c, B)
    BY <1>3, <1>6, <1>7, <1>9, KeyedIs
  <2> QED
    BY <2>1
<1>11. Shapes(c, p, P, C)
  BY <1>2, <1>3, <1>5 DEF Agreed, Shapes, C
<1>12. Ours(c, p, C)
  BY <1>1 DEF Agreed, Ours
<1>13. OneSignature(c, p, P, C)
  BY <1>10 DEF Agreed, OneSignature
<1>14. Answered(c, p, P, C, s)
  BY <1>8, <1>10 DEF Agreed, Answered
<1>15. SaidFirst(c, p, C)
  BY <1>8, <1>10 DEF Agreed, SaidFirst
<1> QED
  BY <1>6, <1>11, <1>12, <1>13, <1>14, <1>15 DEF Agreed, C, g, x

\* The phone begins its handshake, unsigned.
LEMMA PhoneBeginsAgrees ==
  ASSUME NEW c \in Connector, NEW p \in Phone, NEW q \in Phone,
         NEW P \in SUBSET Frames, NEW B \in SUBSET Frames, NEW s, Agreed(c, p, P, B, s),
         p.phase = "registering", q.n = p.n, q.phase = "handshaking", q.begun, ~ q.signed,
         q.peerEphemeral = p.peerEphemeral, q.channel = None
  PROVE  LET Q == P \cup {Handshake(p.n, None)}
         IN  Q \subseteq Frames /\ Agreed(c, q, Q, B, s)
<1> DEFINE g == Handshake(p.n, None)
           Q == P \cup {g}
           n == p.n
<1>1. n \in Nat /\ c.ephemerals \in Nat
  BY RelayAssumption DEF Phone, Connector
<1>2. s \in 0 .. n /\ s < n /\ \A k \in P : Author(k) # n
  BY DEF Agreed, Answered
<1>3. ~ p.signed /\ p.channel = None /\ p.peerEphemeral = 0
  BY DEF Agreed, Theirs
<1>4. /\ g \in Msg /\ Frame(g) /\ g.type = "relay/handshake" /\ Pair(g) = None /\ Author(g) = n
  BY <1>1, GreetingIs
<1>5. g.type # "relay/data"
  BY <1>4
<1> HIDE DEF g
<1>6. Q \in SUBSET Frames
  BY <1>4 DEF Frames
<1>7. Records(Q) = Records(P)
  BY <1>5 DEF Records
<1> HIDE DEF Q
<1>8. Said(q, B) = Said(p, B)
  BY <1>3 DEF Said
<1>9. Given(c, Q) = Given(c, P)
  <2>1. \A y : y \in Given(c, Q) <=> y \in Given(c, P)
    BY <1>4, <1>6, GivenIs DEF Q
  <2> QED
    BY <2>1
<1>10. Shapes(c, q, Q, B)
  BY <1>1, <1>2, <1>4 DEF Agreed, Shapes, Q
<1>11. Ours(c, q, B)
  BY DEF Agreed, Ours
<1>12. Theirs(c, q)
  BY <1>1, <1>3 DEF Theirs
<1>13. OneSignature(c, q, Q, B)
  BY <1>3, <1>9 DEF Agreed, OneSignature
<1>14. Answered(c, q, Q, B, s)
  BY <1>1, <1>2, <1>4, <1>7, <1>8 DEF Agreed, Answered, Q
<1>15. SaidFirst(c, q, B)
  BY <1>8 DEF Agreed, SaidFirst
<1> QED
  BY <1>6, <1>10, <1>11, <1>12, <1>13, <1>14, <1>15 DEF Agreed, Q, g

\* The phone pins the ephemeral of a greeting and signs the transcript of both.
LEMMA PhoneSigningAgrees ==
  ASSUME NEW c \in Connector, NEW p \in Phone, NEW q \in Phone,
         NEW P \in SUBSET Frames, NEW B \in SUBSET Frames, NEW s, Agreed(c, p, P, B, s),
         p.begun, ~ p.signed, p.n # 0, NEW m \in Greetings(B), q.n = p.n, q.phase = p.phase,
         q.begun, q.signed, q.peerEphemeral = m.eph, q.channel = p.channel
  PROVE  LET Q == P \cup {PhoneSigned(p.n, m.eph)}
         IN  Q \subseteq Frames /\ Agreed(c, q, Q, B, s)
<1> DEFINE e == m.eph
           n == p.n
           x == <<n, e>>
           g == PhoneSigned(n, e)
           Q == P \cup {g}
<1>1. n \in Nat /\ c.ephemerals \in Nat /\ n # 0
  BY RelayAssumption DEF Phone, Connector
<1>2. m \in B /\ Epoch(m) = e
  BY FramesAre
<1>3. e \in 1 .. c.ephemerals
  BY <1>2 DEF Agreed, Shapes
<1>4. /\ p.phase = "handshaking" /\ p.channel = None /\ p.peerEphemeral = 0
      /\ q.phase = "handshaking" /\ q.channel = None
  BY DEF Agreed, Theirs
<1>5. x \in Keys /\ x # None /\ x[1] = n /\ x[2] = e /\ e \in Nat
  BY <1>1, <1>3 DEF Keys, None
<1>6. g = Handshake(n, x)
  BY DEF PhoneSigned, Transcript
<1>7. /\ g \in Msg /\ Frame(g) /\ g.type = "relay/handshake" /\ Pair(g) = x /\ Author(g) = n
  BY <1>1, <1>5, <1>6, GreetingIs
<1>8. g.type # "relay/data"
  BY <1>7
<1>9. q.peerEphemeral = e /\ q.signed /\ q.n = n
  OBVIOUS
<1> HIDE DEF g, x, e
<1>10. Q \in SUBSET Frames
  BY <1>7 DEF Frames
<1>11. Records(Q) = Records(P)
  BY <1>8 DEF Records
<1> HIDE DEF Q
<1>12. Said(q, B) = Said(p, B)
  BY <1>4 DEF Said
<1>13. \A y : y \in Given(c, Q) => y = x \/ y \in Given(c, P)
  BY <1>7, <1>10, GivenIs DEF Q
<1>14. \A y \in Given(c, P) \cup Keyed(c, B) : y[1] # n
  BY <1>4 DEF Agreed, OneSignature
<1>15. Shapes(c, q, Q, B)
  <2>1. Author(g) \in 1 .. q.n /\ (Pair(g) # None => Pair(g)[1] = Author(g) /\ Pair(g)[2] \in 1 .. c.ephemerals)
    BY <1>1, <1>3, <1>5, <1>7
  <2> QED
    BY <2>1 DEF Agreed, Shapes, Q
<1>16. Ours(c, q, B)
  BY DEF Agreed, Ours
<1>17. Theirs(c, q)
  BY <1>1, <1>3, <1>4, <1>9 DEF Theirs
<1>18. OneSignature(c, q, Q, B)
  <2>1. ASSUME NEW y \in Given(c, Q), NEW z \in Given(c, Q), y[1] = z[1]
        PROVE  y = z
    <3>1. CASE y = x \/ z = x
      BY <1>5, <1>13, <1>14, <2>1, <3>1
    <3>2. CASE y # x /\ z # x
      BY <1>13, <2>1, <3>2 DEF Agreed, OneSignature
    <3> QED
      BY <3>1, <3>2
  <2>2. ASSUME NEW y \in Given(c, Q) \cup Keyed(c, B), y[1] = n
        PROVE  q.signed /\ y[2] = q.peerEphemeral
    BY <1>5, <1>9, <1>13, <1>14, <2>2
  <2> QED
    BY <2>1, <2>2 DEF OneSignature
<1>19. Answered(c, q, Q, B, s)
  BY <1>1, <1>4, <1>7, <1>11, <1>12 DEF Agreed, Answered, Q
<1>20. SaidFirst(c, q, B)
  BY <1>12 DEF Agreed, SaidFirst
<1> QED
  BY <1>10, <1>15, <1>16, <1>17, <1>18, <1>19, <1>20 DEF Agreed, Q, g, e

\* The phone completes its handshake with a signature of the bridge.
LEMMA PhoneCompletingAgrees ==
  ASSUME NEW c \in Connector, NEW p \in Phone, NEW q \in Phone,
         NEW P \in SUBSET Frames, NEW B \in SUBSET Frames, NEW s, Agreed(c, p, P, B, s),
         p.begun, p.signed, NEW m \in Greetings(B), p.peerEphemeral = m.eph, m.sig = <<p.n, m.eph>>,
         q.n = p.n, q.phase = "sealed", ~ q.begun, q.signed, q.peerEphemeral = m.eph,
         q.channel = m.sig
  PROVE  Agreed(c, q, P, B, s)
<1> DEFINE e == m.eph
           n == p.n
           x == m.sig
<1>1. n \in Nat /\ c.ephemerals \in Nat
  BY RelayAssumption DEF Phone, Connector
<1>2. e \in Nat /\ x \in Keys /\ x # None /\ x[1] = n /\ x[2] = e
  <2>1. m \in B /\ Epoch(m) = e /\ Epoch(m) \in Nat
    BY FramesAre
  <2> QED
    BY <1>1, <2>1 DEF Keys, None
<1>3. p.phase = "handshaking" /\ p.channel = None
  BY DEF Agreed, Theirs
<1>4. q.channel = x /\ x = <<n, e>> /\ q.peerEphemeral = e /\ p.peerEphemeral = e /\ q.n = n
  OBVIOUS
<1>5. x \in Said(p, B)
  BY <1>2, SaidIs
<1> HIDE DEF x, e
<1>6. Said(q, B) = Said(p, B)
  <2>1. \A y : y \in Said(q, B) <=> y \in Said(p, B)
    BY <1>2, <1>3, <1>4, <1>5, SaidIs
  <2> QED
    BY <2>1
<1>7. s = n
  BY <1>1, <1>2, <1>5 DEF Agreed, Answered
<1>8. Shapes(c, q, P, B)
  BY DEF Agreed, Shapes
<1>9. Ours(c, q, B)
  BY DEF Agreed, Ours
<1>10. Theirs(c, q)
  BY <1>1, <1>2, <1>3, <1>4 DEF Agreed, Theirs
<1>11. OneSignature(c, q, P, B)
  BY <1>3, <1>4 DEF Agreed, OneSignature
<1>12. Answered(c, q, P, B, s)
  BY <1>6, <1>7 DEF Agreed, Answered
<1>13. SaidFirst(c, q, B)
  BY <1>6 DEF Agreed, SaidFirst
<1> QED
  BY <1>8, <1>9, <1>10, <1>11, <1>12, <1>13 DEF Agreed

\* The phone seals a record for its channel.
LEMMA PhoneSealingAgrees ==
  ASSUME NEW c \in Connector, NEW p \in Phone, NEW P \in SUBSET Frames, NEW B \in SUBSET Frames,
         NEW s, Agreed(c, p, P, B, s), p.channel # None, p.n # 0,
         NEW k \in Kinds, NEW i \in Nat, NEW j \in Nat
  PROVE  LET Q == P \cup {Data(p.channel, Tunnel(k, i, j))}
         IN  Q \subseteq Frames /\ Agreed(c, p, Q, B, s)
<1> DEFINE x == p.channel
           n == p.n
           g == Data(x, Tunnel(k, i, j))
           Q == P \cup {g}
<1>1. n \in Nat /\ c.ephemerals \in Nat /\ n # 0 /\ x \in Keys /\ x # None
  BY RelayAssumption DEF Phone, Connector
<1>2. /\ x = <<n, p.peerEphemeral>> /\ p.signed /\ p.phase = "sealed"
      /\ p.peerEphemeral \in 1 .. c.ephemerals
  BY <1>1 DEF Agreed, Theirs
<1>3. x[1] = n /\ x[2] = p.peerEphemeral
  BY <1>2
<1>4. g \in Msg /\ Frame(g) /\ g.type = "relay/data" /\ g.key = x /\ Pair(g) = x /\ Author(g) = n
  <2> DEFINE m == Data(x, Tunnel(k, i, j))
  <2> HIDE DEF x
  <2>1. x \in Keys
    BY <1>1
  <2>2. /\ m \in Msg /\ Frame(m) /\ m.type = "relay/data" /\ m.key = x /\ Pair(m) = x
        /\ Author(m) = x[1]
    BY <2>1, RecordIs
  <2>3. g = m
    OBVIOUS
  <2> HIDE DEF m, g
  <2> QED
    BY <1>3, <2>2, <2>3
<1>5. s = n
  BY <1>1 DEF Agreed, Answered
<1> HIDE DEF g, x
<1>6. Q \in SUBSET Frames
  BY <1>4 DEF Frames
<1>7. Records(Q) = Records(P) \cup {g}
  BY <1>4 DEF Records
<1> HIDE DEF Q
<1>8. \A y : y \in Given(c, Q) => y = x \/ y \in Given(c, P)
  BY <1>4, <1>6, GivenIs DEF Q
<1>9. \A y \in Given(c, P) : y \in Keys /\ (y[1] = n => y[2] = x[2])
  BY <1>2, <1>3, GivenIs DEF Agreed, OneSignature
<1>10. \A y \in Given(c, P) : y[1] = n => y = x
  BY <1>1, <1>3, <1>9, SameKey
<1>11. Shapes(c, p, Q, B)
  <2>1. Author(g) \in 1 .. n /\ (Pair(g) # None => Pair(g)[1] = Author(g) /\ Pair(g)[2] \in 1 .. c.ephemerals)
    BY <1>1, <1>2, <1>3, <1>4
  <2> QED
    BY <2>1 DEF Agreed, Shapes, Q
<1>12. OneSignature(c, p, Q, B)
  <2>1. ASSUME NEW y \in Given(c, Q), NEW z \in Given(c, Q), y[1] = z[1]
        PROVE  y = z
    <3>1. CASE y = x \/ z = x
      BY <1>3, <1>8, <1>10, <2>1, <3>1
    <3>2. CASE y # x /\ z # x
      BY <1>8, <2>1, <3>2 DEF Agreed, OneSignature
    <3> QED
      BY <3>1, <3>2
  <2>2. ASSUME NEW y \in Given(c, Q) \cup Keyed(c, B), y[1] = n
        PROVE  p.phase = "closed" \/ (p.signed /\ y[2] = p.peerEphemeral)
    <3>1. CASE y = x
      BY <1>2, <1>3, <3>1
    <3>2. CASE y # x
      BY <1>8, <2>2, <3>2 DEF Agreed, OneSignature
    <3> QED
      BY <3>1, <3>2
  <2> QED
    BY <2>1, <2>2 DEF OneSignature
<1>13. Answered(c, p, Q, B, s)
  <2>1. n >= s /\ n <= s
    BY <1>1, <1>5
  <2> QED
    BY <1>2, <1>3, <1>4, <1>7, <2>1 DEF Agreed, Answered, Q
<1> QED
  BY <1>6, <1>11, <1>12, <1>13 DEF Agreed, Q, g, x

\* The phone builds its next transport, or its socket opens.
LEMMA ConnectingAgrees ==
  ASSUME NEW c \in Connector, NEW p \in Phone, NEW q \in Phone,
         NEW P \in SUBSET Frames, NEW B \in SUBSET Frames, NEW s, Agreed(c, p, P, B, s),
         \/ p.phase \in {"idle", "closed"} /\ q.n = p.n + 1 /\ q.phase = "opening"
         \/ p.phase = "opening" /\ q.n = p.n /\ q.phase = "registering",
         ~ q.begun, ~ q.signed, q.peerEphemeral = 0, q.channel = None
  PROVE  Agreed(c, q, P, B, s)
<1>1. p.n \in Nat /\ c.ephemerals \in Nat /\ q.n \in Nat /\ p.n <= q.n
  BY RelayAssumption DEF Phone, Connector
<1>2. p.channel = None /\ ~ p.signed
  BY DEF Agreed, Theirs
<1>3. Said(q, B) = Said(p, B)
  BY <1>2 DEF Said
<1>4. Shapes(c, q, P, B)
  BY <1>1 DEF Agreed, Shapes
<1>5. Ours(c, q, B)
  BY <1>1 DEF Agreed, Ours
<1>6. Theirs(c, q)
  BY <1>1 DEF Theirs
<1>7. \A m \in P : Author(m) \in 1 .. p.n
  BY DEF Agreed, Shapes
<1>8. \A x \in Given(c, P) \cup Keyed(c, B) : x[1] \in 1 .. p.n
  <2>1. c.channel # None => c.channel[1] \in 1 .. p.n
    BY DEF Agreed, Ours
  <2>2. \A m \in P : Pair(m) # None => Pair(m)[1] \in 1 .. p.n
    BY DEF Agreed, Shapes
  <2>3. \A m \in Records(B) : m.key # None => m.key[1] \in 1 .. p.n
    BY FramesAre DEF Agreed, Shapes
  <2> QED
    BY <2>1, <2>2, <2>3, GivenIs, KeyedIs
<1>9. OneSignature(c, q, P, B)
  <2>1. \A x \in Given(c, P) \cup Keyed(c, B) : x[1] # q.n
    <3>1. CASE q.n = p.n + 1
      BY <1>1, <1>8, <3>1
    <3>2. CASE q.n # p.n + 1
      BY <1>2, <3>2 DEF Agreed, OneSignature
    <3> QED
      BY <3>1, <3>2
  <2> QED
    BY <2>1 DEF Agreed, OneSignature
<1>10. Answered(c, q, P, B, s)
  <2>1. s \in 0 .. q.n /\ s < q.n /\ \A m \in P : Author(m) # q.n
    <3>1. s \in 0 .. p.n
      BY DEF Agreed, Answered
    <3>2. CASE p.phase = "opening"
      BY <1>1, <3>1, <3>2 DEF Agreed, Answered
    <3>3. CASE p.phase # "opening"
      BY <1>1, <1>7, <3>1, <3>3
    <3> QED
      BY <3>2, <3>3
  <2> QED
    BY <1>3, <2>1 DEF Agreed, Answered
<1>11. SaidFirst(c, q, B)
  BY <1>3 DEF Agreed, SaidFirst
<1> QED
  BY <1>4, <1>5, <1>6, <1>9, <1>10, <1>11 DEF Agreed

-----------------------------------------------------------------------------
\* The methods of the connector: the object they yield and what they send.
KeepsSocket(c, d) == d.n = c.n /\ d.link = c.link /\ d.stopped = c.stopped

LEMMA BeginSealIs ==
  ASSUME NEW c \in Connector
  PROVE  LET r == BeginSeal(c)
         IN  /\ r.object \in Connector /\ KeepsSocket(c, r.object) /\ ~ r.closes
             /\ r.object.channel = c.channel
             /\ IF c.channel # None \/ c.handshake # 0 THEN r.object = c /\ r.sent = <<>>
                ELSE /\ r.object.handshake = c.ephemerals + 1
                     /\ r.object.ephemerals = c.ephemerals + 1 /\ ~ r.object.signed
                     /\ r.sent = <<Handshake(c.ephemerals + 1, None)>>
<1>1. CASE c.channel # None \/ c.handshake # 0
  BY <1>1 DEF BeginSeal, Step, KeepsSocket
<1>2. CASE c.channel = None /\ c.handshake = 0
  <2> DEFINE d == [c EXCEPT !.state = "handshaking", !.ephemerals = @ + 1,
                            !.handshake = c.ephemerals + 1, !.signed = FALSE]
  <2>1. BeginSeal(c) = Step(d, <<Handshake(c.ephemerals + 1, None)>>)
    BY <1>2 DEF BeginSeal
  <2>2. /\ d \in Connector /\ d.n = c.n /\ d.link = c.link /\ d.stopped = c.stopped
        /\ d.channel = c.channel /\ d.handshake = c.ephemerals + 1
        /\ d.ephemerals = c.ephemerals + 1 /\ ~ d.signed
    <3> DEFINE k == c.ephemerals + 1
    <3>1. k \in Nat
      BY DEF Connector
    <3> HIDE DEF k
    <3>2. [c EXCEPT !.state = "handshaking", !.ephemerals = k, !.handshake = k, !.signed = FALSE]
            \in Connector
      BY <3>1 DEF Connector, States
    <3>3. d = [c EXCEPT !.state = "handshaking", !.ephemerals = k, !.handshake = k, !.signed = FALSE]
      BY DEF k
    <3> HIDE DEF d
    <3>4. /\ d.n = c.n /\ d.link = c.link /\ d.stopped = c.stopped /\ d.channel = c.channel
          /\ d.handshake = k /\ d.ephemerals = k /\ ~ d.signed
      BY <3>3 DEF Connector
    <3> QED
      BY <3>2, <3>3, <3>4 DEF k
  <2> HIDE DEF d
  <2> QED
    BY <1>2, <2>1, <2>2 DEF Step, KeepsSocket
<1> QED
  BY <1>1, <1>2

LEMMA UngreetedIs ==
  ASSUME NEW c \in Connector
  PROVE  /\ Ungreeted(c) \in Connector /\ KeepsSocket(c, Ungreeted(c)) /\ SameCore(c, Ungreeted(c))
         /\ Ungreeted(c).signed = c.signed
BY DEF Ungreeted, Connector, KeepsSocket, SameCore

LEMMA TornIs ==
  ASSUME NEW c \in Connector
  PROVE  LET d == Torn(c)
         IN  /\ d \in Connector /\ RedialLater(d) \in Connector
             /\ d.n = c.n /\ d.stopped = c.stopped /\ d.ephemerals = c.ephemerals
             /\ d.handshake = 0 /\ d.channel = None
             /\ d.link = IF c.link = "open" THEN "closing" ELSE "closed"
             /\ RedialLater(d).n = c.n /\ RedialLater(d).stopped = c.stopped
             /\ RedialLater(d).ephemerals = c.ephemerals /\ RedialLater(d).link = d.link
             /\ RedialLater(d).handshake = 0 /\ RedialLater(d).channel = None
<1> DEFINE u == Ungreeted(c)
<1>1. /\ u \in Connector /\ u.n = c.n /\ u.link = c.link /\ u.stopped = c.stopped
      /\ u.ephemerals = c.ephemerals
  BY UngreetedIs DEF KeepsSocket, SameCore
<1>2. Torn(c) = [u EXCEPT !.handshake = 0, !.signed = FALSE, !.channel = None,
                          !.link = IF @ = "open" THEN "closing" ELSE "closed"]
  BY DEF Torn
<1> HIDE DEF u
<1> DEFINE d == Torn(c)
           l == IF u.link = "open" THEN "closing" ELSE "closed"
<1>3. l \in Links /\ l = IF c.link = "open" THEN "closing" ELSE "closed"
  BY <1>1 DEF Links
<1>4. d = [u EXCEPT !.handshake = 0, !.signed = FALSE, !.channel = None, !.link = l]
  BY <1>2
<1> HIDE DEF l, d
<1>5. d \in Connector
  BY <1>1, <1>3, <1>4 DEF Connector
<1>6. /\ d.n = u.n /\ d.stopped = u.stopped /\ d.ephemerals = u.ephemerals
      /\ d.handshake = 0 /\ d.channel = None /\ d.link = l
  BY <1>1, <1>4 DEF Connector
<1>7. RedialLater(d) \in Connector
  <2> DEFINE k == d.timers + 1
  <2>1. k \in Nat
    BY <1>5 DEF Connector
  <2>2. RedialLater(d) = [d EXCEPT !.timers = k, !.state = "backoff"]
    BY DEF RedialLater
  <2> HIDE DEF k
  <2> QED
    BY <1>5, <2>1, <2>2 DEF Connector, States
<1>8. /\ RedialLater(d).n = d.n /\ RedialLater(d).stopped = d.stopped
      /\ RedialLater(d).ephemerals = d.ephemerals /\ RedialLater(d).link = d.link
      /\ RedialLater(d).handshake = d.handshake /\ RedialLater(d).channel = d.channel
  BY <1>5 DEF RedialLater, Connector
<1> QED
  BY <1>1, <1>3, <1>5, <1>6, <1>7, <1>8 DEF d

LEMMA FailIs ==
  ASSUME NEW c \in Connector, NEW ms
  PROVE  LET r == Fail(c, ms)
         IN  /\ r.object \in Connector /\ r.closes /\ r.sent = ms
             /\ r.object.n = c.n /\ r.object.stopped = c.stopped
             /\ r.object.link = IF c.link = "open" THEN "closing" ELSE "closed"
             /\ r.object.ephemerals = c.ephemerals
             /\ r.object.handshake = 0 /\ r.object.channel = None
BY TornIs DEF Fail

LEMMA SendTunnelIs ==
  ASSUME NEW c \in Connector, NEW k \in Kinds, NEW i \in Nat, NEW n \in Nat
  PROVE  LET g == Data(c.channel, Tunnel(k, i, n))
             q == SendTunnel(c, Tunnel(k, i, n))
         IN  /\ q \in Seq(Msg)
             /\ c.channel = None \/ c.link # "open" => q = <<>>
             /\ c.channel # None /\ c.link = "open" => q = <<g>> /\ g \in Record
<1>1. c.channel # None => c.channel \in Keys
  BY DEF Connector
<1>2. c.channel # None => LET g == Data(c.channel, Tunnel(k, i, n)) IN g \in Record /\ g \in Msg
  BY <1>1, RecordIs
<1> DEFINE g == Data(c.channel, Tunnel(k, i, n))
<1>3. SendTunnel(c, Tunnel(k, i, n)) = IF c.channel # None /\ c.link = "open" THEN <<g>> ELSE <<>>
  BY DEF SendTunnel
<1>4. c.channel # None => g \in Record /\ g \in Msg
  BY <1>2
<1> HIDE DEF g
<1>5. SendTunnel(c, Tunnel(k, i, n)) \in Seq(Msg)
  BY <1>3, <1>4, Emptied, Single
<1> QED
  BY <1>3, <1>4, <1>5 DEF g

LEMMA CloseStreamIs ==
  ASSUME NEW c \in Connector
  PROVE  LET r == CloseStream(c)
         IN  /\ r.object = Ungreeted(c) /\ ~ r.closes
             /\ r.sent \in {<<>>, SendTunnel(c, Tunnel("unsubscribed", 0, c.stream))}
             /\ c.stream \in Nat
BY DEF CloseStream, Step, Connector

LEMMA OnPeerOfflineIs ==
  ASSUME NEW c \in Connector
  PROVE  LET d == OnPeerOffline(c)
         IN  /\ d \in Connector /\ KeepsSocket(c, d) /\ d.ephemerals = c.ephemerals
             /\ d.handshake = 0 /\ d.channel = None
<1> DEFINE u == Ungreeted(c)
<1>1. /\ u \in Connector /\ u.n = c.n /\ u.link = c.link /\ u.stopped = c.stopped
      /\ u.ephemerals = c.ephemerals
  BY UngreetedIs DEF KeepsSocket, SameCore
<1>2. OnPeerOffline(c) = [u EXCEPT !.handshake = 0, !.signed = FALSE, !.channel = None,
                                   !.state = "registered"]
  BY DEF OnPeerOffline
<1> HIDE DEF u
<1> DEFINE d == OnPeerOffline(c)
<1>3. d = [u EXCEPT !.handshake = 0, !.signed = FALSE, !.channel = None, !.state = "registered"]
  BY <1>2
<1> HIDE DEF d
<1>4. d \in Connector
  BY <1>1, <1>3 DEF Connector, States
<1>5. /\ d.n = u.n /\ d.link = u.link /\ d.stopped = u.stopped /\ d.ephemerals = u.ephemerals
      /\ d.handshake = 0 /\ d.channel = None
  BY <1>1, <1>3 DEF Connector
<1> QED
  BY <1>1, <1>4, <1>5 DEF KeepsSocket, d

\* What is left to read by the connector once it has begun a handshake, or goes on with one.
LEMMA BegunAgrees ==
  ASSUME NEW c \in Connector, NEW p \in Phone, NEW P \in SUBSET Frames, NEW B \in SUBSET Frames,
         NEW s, Agreed(c, p, P, B, s), c.channel = None
  PROVE  LET r == BeginSeal(c)
             C == B \cup In(r.sent)
         IN  /\ r.sent \in Seq(Msg) /\ C \in SUBSET Frames /\ r.object.channel = None
             /\ r.object.handshake # 0 /\ r.object.ephemerals >= c.ephemerals
             /\ \A g \in In(r.sent) : Frame(g) /\ Epoch(g) = r.object.ephemerals
             /\ Agreed(r.object, p, P, C, s)
             /\ Said(p, C) = Said(p, B)
             /\ Mutual(c, p, P, B) => Mutual(r.object, p, P, C)
<1> DEFINE r == BeginSeal(c)
           d == r.object
           C == B \cup In(r.sent)
           e == c.ephemerals + 1
           g == Handshake(e, None)
<1>1. /\ d \in Connector /\ d.channel = None
      /\ IF c.handshake # 0 THEN d = c /\ r.sent = <<>>
         ELSE d.handshake = e /\ d.ephemerals = e /\ r.sent = <<g>>
  BY BeginSealIs
<1>2. c.ephemerals \in Nat /\ e \in Nat /\ e # 0 /\ e > c.ephemerals
  BY DEF Connector
<1>3. CASE c.handshake # 0
  <2>1. In(r.sent) = {} /\ r.sent \in Seq(Msg)
    BY <1>1, <1>3, Emptied
  <2>2. C = B
    BY <2>1
  <2> HIDE DEF C
  <2> QED
    BY <1>1, <1>2, <1>3, <2>1, <2>2
<1>4. CASE c.handshake = 0
  <2>1. g \in Msg /\ Frame(g) /\ Epoch(g) = e /\ g.sig = None /\ g.type = "relay/handshake"
    BY <1>2, GreetingIs
  <2>2. r.sent = <<g>> /\ d.handshake = e /\ d.ephemerals = e
    BY <1>1, <1>4
  <2>3. B \cup {g} \subseteq Frames /\ Agreed(d, p, P, B \cup {g}, s)
    BY <1>1, <1>4, <2>2, BeginningAgrees
  <2> HIDE DEF g, e, d, r
  <2>4. r.sent \in Seq(Msg) /\ In(r.sent) = {g}
    BY <2>1, <2>2, Single
  <2>5. C = B \cup {g} /\ C \in SUBSET Frames
    BY <2>3, <2>4
  <2>6. Greetings(C) = Greetings(B) \cup {g}
    BY <2>1, <2>5 DEF Greetings
  <2> HIDE DEF C
  <2>7. Said(p, C) = Said(p, B)
    <3>1. \A x : x \in Said(p, C) <=> x # None /\ (x = p.channel \/ \E k \in Greetings(C) : k.sig = x)
      BY <2>5, SaidIs
    <3>2. \A x : x \in Said(p, B) <=> x # None /\ (x = p.channel \/ \E k \in Greetings(B) : k.sig = x)
      BY SaidIs
    <3>3. \A x : x \in Said(p, C) <=> x \in Said(p, B)
      BY <2>1, <2>6, <3>1, <3>2
    <3> QED
      BY <3>3
  <2>8. ASSUME Mutual(c, p, P, B)
        PROVE  Mutual(d, p, P, C)
    <3>1. \A x \in Said(p, B) : x \in Keys /\ x # None
      BY SaidIs
    <3>2. \A x \in Said(p, B) : x[1] = p.n => x[2] = 0
      BY <1>4, <2>8, <3>1 DEF Mutual
    <3>3. \A x \in Said(p, B) : x[2] # 0
      <4>1. \A m \in Greetings(B) : m.sig # None => m.sig[2] # 0
        BY <1>2, FramesAre DEF Agreed, Shapes
      <4>2. p.channel # None => p.channel[2] # 0
        BY DEF Agreed, Theirs
      <4> QED
        BY <4>1, <4>2, SaidIs
    <3>4. p.peerEphemeral # e
      BY <1>2, <2>2 DEF Agreed, Theirs
    <3> QED
      BY <2>2, <2>7, <3>2, <3>3, <3>4 DEF Mutual
  <2>9. /\ r.sent \in Seq(Msg) /\ C \in SUBSET Frames /\ d.channel = None
        /\ d.handshake # 0 /\ d.ephemerals >= c.ephemerals
        /\ \A k \in In(r.sent) : Frame(k) /\ Epoch(k) = d.ephemerals
    BY <1>1, <1>2, <2>1, <2>2, <2>4, <2>5 DEF e, d
  <2>10. Agreed(d, p, P, C, s) /\ Said(p, C) = Said(p, B)
         /\ (Mutual(c, p, P, B) => Mutual(d, p, P, C))
    BY <2>3, <2>5, <2>7, <2>8
  <2> QED
    BY <2>9, <2>10 DEF d, r, C
<1> QED
  BY <1>3, <1>4

\* The connector reads a greeting of the phone.
LEMMA GreetedAgrees ==
  ASSUME NEW c \in Connector, NEW p \in Phone, NEW P \in SUBSET Frames, NEW Q \in SUBSET P,
         NEW B \in SUBSET Frames, NEW s, Agreed(c, p, P, B, s),
         NEW m \in Greetings(P), \A k \in P : Author(k) >= m.eph, P \subseteq Q \cup {m}
  PROVE  LET r == OnSealHandshake(c, m)
             C == B \cup In(r.sent)
         IN  /\ r.object \in Connector /\ r.object.n = c.n /\ r.object.stopped = c.stopped
             /\ IF r.closes THEN r.object.link = (IF c.link = "open" THEN "closing" ELSE "closed")
                ELSE r.object.link = c.link
             /\ r.sent \in Seq(Msg) /\ C \in SUBSET Frames
             /\ r.object.ephemerals >= c.ephemerals
             /\ \A g \in In(r.sent) : Frame(g) /\ Epoch(g) = r.object.ephemerals
             /\ \E t \in {s, m.eph} : Agreed(r.object, p, Q, C, t)
             /\ Mutual(c, p, P, B) /\ ~ r.closes => Mutual(r.object, p, Q, C)
<1>1. m \in P /\ Author(m) = m.eph /\ m.eph \in Nat /\ Pair(m) = m.sig /\ m.sig \in Keys \cup {None}
      /\ m.eph \in 1 .. p.n
  <2>1. m \in P /\ Author(m) = m.eph /\ Pair(m) = m.sig
    BY FramesAre
  <2>2. Author(m) \in Nat /\ Pair(m) \in Keys \cup {None}
    BY <2>1, FramesAre
  <2> QED
    BY <2>1, <2>2 DEF Agreed, Shapes
<1>2. Q \in SUBSET Frames /\ \A k \in Q : Author(k) >= m.eph
  OBVIOUS
<1>3. CASE c.channel # None
  <2> DEFINE r == Fail(c, <<>>)
             d == r.object
  <2>1. OnSealHandshake(c, m) = r
    BY <1>3 DEF OnSealHandshake
  <2>2. /\ d \in Connector /\ r.closes /\ r.sent = <<>> /\ d.n = c.n /\ d.stopped = c.stopped
        /\ d.link = (IF c.link = "open" THEN "closing" ELSE "closed")
        /\ d.ephemerals = c.ephemerals /\ d.handshake = 0 /\ d.channel = None
    BY FailIs
  <2> HIDE DEF r
  <2>3. r.sent \in Seq(Msg) /\ In(r.sent) = {} /\ c.ephemerals \in Nat
    BY <2>2, Emptied DEF Connector
  <2>4. Agreed(d, p, Q, B, s)
    BY <2>2, FewerAgree DEF SameSession
  <2>5. B \cup In(r.sent) = B /\ \A g \in In(r.sent) : Frame(g) /\ Epoch(g) = d.ephemerals
    BY <2>3
  <2>6. d.ephemerals >= c.ephemerals
    BY <2>2, <2>3
  <2>7. B \cup In(r.sent) \in SUBSET Frames /\ Agreed(d, p, Q, B \cup In(r.sent), s)
    BY <2>4, <2>5
  <2>8. \E t \in {s, m.eph} : Agreed(d, p, Q, B \cup In(r.sent), t)
    BY <2>7
  <2> QED
    BY <2>1, <2>2, <2>3, <2>5, <2>6, <2>7, <2>8
<1>4. CASE c.channel = None
  <2> DEFINE begun == BeginSeal(c)
             c1 == begun.object
             own == c1.handshake
             B1 == B \cup In(begun.sent)
             signs == IF c1.signed THEN <<>> ELSE <<BridgeSigned(own, m.eph)>>
             c2 == [c1 EXCEPT !.signed = TRUE]
             sent == begun.sent \o signs
             B2 == B1 \cup In(signs)
  <2>1. /\ c1 \in Connector /\ c1.n = c.n /\ c1.stopped = c.stopped /\ c1.link = c.link
    BY BeginSealIs DEF KeepsSocket
  <2>2. /\ begun.sent \in Seq(Msg) /\ B1 \in SUBSET Frames /\ c1.channel = None /\ own # 0
        /\ c1.ephemerals >= c.ephemerals
        /\ \A g \in In(begun.sent) : Frame(g) /\ Epoch(g) = c1.ephemerals
        /\ Agreed(c1, p, P, B1, s)
        /\ Mutual(c, p, P, B) => Mutual(c1, p, P, B1)
    BY <1>4, BegunAgrees
  <2>3. OnSealHandshake(c, m) =
          IF m.sig = None THEN Step(c2, sent)
          ELSE IF BridgeCompletes(own, m)
          THEN Step([c2 EXCEPT !.channel = m.sig, !.handshake = 0, !.state = "tunneled"], sent)
          ELSE Fail(c2, sent)
    BY <1>4 DEF OnSealHandshake
  <2> HIDE DEF begun, B1
  <2>4. /\ c2 \in Connector /\ c2.n = c1.n /\ c2.stopped = c1.stopped /\ c2.link = c1.link
        /\ SameCore(c1, c2) /\ c2.signed
    BY <2>1 DEF Connector, SameCore
  <2> HIDE DEF c2
  <2>5. own \in Nat /\ own = c1.ephemerals
    BY <2>1, <2>2 DEF Connector, Agreed, Ours
  <2> DEFINE x == <<m.eph, own>>
             g == BridgeSigned(own, m.eph)
  <2>6. x \in Keys /\ x # None /\ x[1] = m.eph /\ x[2] = own
    BY <1>1, <2>5 DEF Keys, None
  <2>7. g = Handshake(own, x)
    BY DEF BridgeSigned, Transcript
  <2>8. g \in Msg /\ Frame(g) /\ Epoch(g) = own /\ g.sig = x /\ g.type = "relay/handshake"
    BY <2>5, <2>6, <2>7, GreetingIs
  <2> HIDE DEF x, g
  <2>9. signs = IF c1.signed THEN <<>> ELSE <<g>>
    BY DEF g
  <2> HIDE DEF signs
  <2>10. signs \in Seq(Msg) /\ In(signs) = (IF c1.signed THEN {} ELSE {g})
    BY <2>8, <2>9, Emptied, Single
  <2>11. sent \in Seq(Msg) /\ In(sent) = In(begun.sent) \cup In(signs)
    BY <2>2, <2>10, Joined
  <2> HIDE DEF sent
  <2>12. B2 \in SUBSET Frames /\ B2 = B \cup In(sent)
    BY <2>2, <2>8, <2>10, <2>11 DEF Frames, B1
  <2>13. \A k \in In(sent) : Frame(k) /\ Epoch(k) = c1.ephemerals
    BY <2>2, <2>5, <2>8, <2>10, <2>11
  <2>14. PICK t \in {s, m.eph} : Agreed(c2, p, P, B2, t)
    <3>1. CASE c1.signed
      <4>1. B2 = B1
        BY <2>10, <3>1
      <4> QED
        BY <2>1, <2>2, <2>4, <4>1, FewerAgree DEF SameSession
    <3>2. CASE ~ c1.signed
      <4>1. B2 = B1 \cup {BridgeSigned(own, m.eph)}
        BY <2>10, <3>2 DEF g
      <4>2. Agreed(c2, p, P, B1 \cup {BridgeSigned(own, m.eph)}, m.eph)
        BY <2>1, <2>2, <2>4, SigningAgrees
      <4> QED
        BY <4>1, <4>2
    <3> QED
      BY <3>1, <3>2
  <2>15. Said(p, B2) \subseteq Said(p, B1) \cup {x}
    <3>1. Greetings(B2) \subseteq Greetings(B1) \cup {g}
      BY <2>10 DEF Greetings
    <3>2. \A y : y \in Said(p, B2) <=> y # None /\ (y = p.channel \/ \E k \in Greetings(B2) : k.sig = y)
      BY <2>12, SaidIs
    <3>3. \A y : y \in Said(p, B1) <=> y # None /\ (y = p.channel \/ \E k \in Greetings(B1) : k.sig = y)
      BY <2>2, SaidIs
    <3> QED
      BY <2>8, <3>1, <3>2, <3>3
  <2>16. ASSUME Mutual(c, p, P, B)
         PROVE  /\ \A y \in Said(p, B2) : y[1] = p.n => y[2] = own
                /\ p.signed /\ own = p.peerEphemeral => Handshake(p.n, <<p.n, p.peerEphemeral>>) \in P
    <3>1. Mutual(c1, p, P, B1)
      BY <2>2, <2>16
    <3>2. \A y \in Said(p, B1) : y # None
      BY <2>2, SaidIs
    <3> QED
      BY <2>2, <2>6, <2>15, <3>1, <3>2 DEF Mutual
  <2> HIDE DEF B2, own
  <2>17. c2.ephemerals = c1.ephemerals /\ c2.handshake = own /\ c2.channel = None
    BY <2>2, <2>4 DEF SameCore, own
  <2>18. CASE m.sig = None
    <3>1. OnSealHandshake(c, m) = Step(c2, sent)
      BY <2>3, <2>18
    <3>2. Agreed(c2, p, Q, B2, t)
      BY <2>4, <2>12, <2>14, FewerAgree DEF SameSession, SameCore
    <3>3. ASSUME Mutual(c, p, P, B)
          PROVE  Mutual(c2, p, Q, B2)
      <4>1. p.n \in Nat /\ p.peerEphemeral \in Nat
        BY RelayAssumption DEF Phone
      <4>2. <<p.n, p.peerEphemeral>> \in Keys /\ <<p.n, p.peerEphemeral>> # None
        BY <4>1 DEF Keys, None
      <4>3. Handshake(p.n, <<p.n, p.peerEphemeral>>) # m
        BY <2>18, <4>1, <4>2, GreetingIs
      <4> QED
        BY <2>4, <2>16, <2>17, <3>3, <4>3 DEF Mutual
    <3> DEFINE r == Step(c2, sent)
    <3>4. r.object = c2 /\ r.sent = sent /\ ~ r.closes
      BY DEF Step
    <3> HIDE DEF r
    <3> QED
      BY <2>1, <2>2, <2>4, <2>11, <2>12, <2>13, <2>17, <3>1, <3>2, <3>3, <3>4 DEF r
  <2>19. CASE m.sig # None /\ BridgeCompletes(own, m)
    <3> DEFINE d == [c2 EXCEPT !.channel = m.sig, !.handshake = 0, !.state = "tunneled"]
    <3>1. OnSealHandshake(c, m) = Step(d, sent)
      BY <2>3, <2>19
    <3>2. m.sig = x
      BY <2>19 DEF BridgeCompletes, Transcript, x
    <3>3. /\ d \in Connector /\ d.n = c2.n /\ d.stopped = c2.stopped /\ d.link = c2.link
          /\ d.channel = m.sig /\ d.handshake = 0 /\ d.ephemerals = c2.ephemerals
      BY <1>1, <2>4 DEF Connector, States
    <3> HIDE DEF d
    <3>4. Agreed(d, p, Q, B2, m.eph)
      <4>1. m.sig = <<m.eph, c2.handshake>>
        BY <2>17, <3>2 DEF x
      <4> QED
        BY <2>2, <2>4, <2>12, <2>14, <2>17, <3>3, <4>1, CompletingAgrees DEF own
    <3>5. ASSUME Mutual(c, p, P, B)
          PROVE  Mutual(d, p, Q, B2)
      <4>1. ASSUME NEW y \in Said(p, B2), y[1] = p.n
            PROVE  d.channel = y
        <5>1. y[1] <= m.eph /\ y \in Keys
          BY <2>12, <3>4, SaidIs DEF Agreed, Answered
        <5>2. y[1] = m.eph
          BY <1>1, <4>1, <5>1, RelayAssumption DEF Phone
        <5> QED
          BY <2>6, <2>16, <3>2, <3>3, <3>5, <4>1, <5>1, <5>2, SameKey
      <4>2. p.signed => p.peerEphemeral # 0
        BY DEF Agreed, Theirs
      <4> QED
        BY <3>3, <4>1, <4>2 DEF Mutual
    <3> DEFINE r == Step(d, sent)
    <3>6. r.object = d /\ r.sent = sent /\ ~ r.closes
      BY DEF Step
    <3> HIDE DEF r
    <3> QED
      BY <2>1, <2>2, <2>4, <2>11, <2>12, <2>13, <2>17, <3>1, <3>3, <3>4, <3>5, <3>6 DEF r
  <2>20. CASE m.sig # None /\ ~ BridgeCompletes(own, m)
    <3> DEFINE r == Fail(c2, sent)
               d == r.object
    <3>1. OnSealHandshake(c, m) = r
      BY <2>3, <2>20
    <3>2. /\ d \in Connector /\ r.closes /\ r.sent = sent /\ d.n = c2.n /\ d.stopped = c2.stopped
          /\ d.link = (IF c2.link = "open" THEN "closing" ELSE "closed")
          /\ d.ephemerals = c2.ephemerals /\ d.handshake = 0 /\ d.channel = None
      BY <2>4, FailIs
    <3> HIDE DEF r
    <3>3. Agreed(d, p, Q, B2, t)
      BY <2>4, <2>12, <2>14, <3>2, FewerAgree DEF SameSession
    <3> QED
      BY <2>1, <2>2, <2>4, <2>11, <2>12, <2>13, <2>17, <3>1, <3>2, <3>3
  <2> QED
    BY <2>18, <2>19, <2>20
<1> QED
  BY <1>3, <1>4

\* What reading a message makes of the connector, of what is on its way, and of the sessions.
Yields(c, p, P, Q, B, T, r, f) ==
  LET d == r.object
      C == B \cup In(r.sent)
  IN  /\ d \in Connector /\ d.n = c.n /\ d.stopped = c.stopped
      /\ IF r.closes THEN d.link = (IF c.link = "open" THEN "closing" ELSE "closed")
         ELSE d.link = c.link
      /\ r.sent \in Seq(Msg) /\ C \in SUBSET Frames
      /\ d.ephemerals >= c.ephemerals
      /\ \A g \in In(r.sent) : Frame(g) /\ Epoch(g) = d.ephemerals
      /\ \E t \in T : Agreed(d, p, Q, C, t)
      /\ Mutual(c, p, P, B) /\ ~ r.closes /\ f => Mutual(d, p, Q, C)

LEMMA QuietYields ==
  ASSUME NEW c \in Connector, NEW p \in Phone, NEW P \in SUBSET Frames, NEW Q \in SUBSET P,
         NEW B \in SUBSET Frames, NEW s, NEW F, Agreed(c, p, P, B, s),
         NEW m, m.type # "relay/handshake", P \subseteq Q \cup {m},
         NEW d \in Connector, KeepsSocket(c, d), SameCore(c, d), d.signed = c.signed,
         NEW q, \/ q = <<>>
                \/ \E k \in Kinds, i \in Nat, n \in Nat : q = SendTunnel(c, Tunnel(k, i, n))
  PROVE  Yields(c, p, P, Q, B, {s}, Step(d, q), F)
<1> DEFINE r == Step(d, q)
           C == B \cup In(q)
<1>1. r.object = d /\ r.sent = q /\ ~ r.closes
  BY DEF Step
<1> HIDE DEF r
<1>2. c.ephemerals \in Nat /\ d.ephemerals = c.ephemerals /\ d.channel = c.channel
      /\ d.handshake = c.handshake /\ d.n = c.n /\ d.link = c.link /\ d.stopped = c.stopped
  BY DEF Connector, SameCore, KeepsSocket
<1>3. Agreed(d, p, Q, B, s)
  BY FewerAgree DEF SameSession
<1>4. ASSUME Mutual(c, p, P, B)
      PROVE  Mutual(d, p, Q, B)
  <2>1. p.n \in Nat /\ p.peerEphemeral \in Nat
    BY RelayAssumption DEF Phone
  <2>2. <<p.n, p.peerEphemeral>> \in Keys
    BY <2>1 DEF Keys
  <2>3. Handshake(p.n, <<p.n, p.peerEphemeral>>) # m
    BY <2>1, <2>2, GreetingIs
  <2> QED
    BY <1>2, <1>4, <2>3 DEF Mutual
<1>5. ASSUME q = <<>>
      PROVE  Yields(c, p, P, Q, B, {s}, r, F)
  <2>1. q \in Seq(Msg) /\ In(q) = {}
    BY <1>5, Emptied
  <2>2. C = B /\ In(r.sent) = {} /\ B \cup In(r.sent) = B
    BY <1>1, <2>1
  <2>3. \E t \in {s} : Agreed(r.object, p, Q, B \cup In(r.sent), t)
    BY <1>1, <1>3, <2>2
  <2>4. Mutual(c, p, P, B) /\ ~ r.closes => Mutual(r.object, p, Q, B \cup In(r.sent))
    BY <1>1, <1>4, <2>2
  <2>5. r.object \in Connector /\ r.sent \in Seq(Msg) /\ B \cup In(r.sent) \in SUBSET Frames
    BY <1>1, <2>1, <2>2
  <2>6. r.object.ephemerals >= c.ephemerals
    BY <1>1, <1>2
  <2> HIDE DEF C
  <2> QED
    BY <1>1, <1>2, <2>2, <2>3, <2>4, <2>5, <2>6 DEF Yields
<1>6. ASSUME q # <<>>
      PROVE  Yields(c, p, P, Q, B, {s}, r, F)
  <2>1. PICK k \in Kinds, i \in Nat, n \in Nat : q = SendTunnel(c, Tunnel(k, i, n))
    BY <1>6
  <2> DEFINE g == Data(c.channel, Tunnel(k, i, n))
  <2>2. c.channel # None /\ q = <<g>>
    <3>1. /\ c.channel = None \/ c.link # "open" => q = <<>>
          /\ c.channel # None /\ c.link = "open" => q = <<g>>
      BY <2>1, SendTunnelIs
    <3> HIDE DEF g
    <3> QED
      BY <1>6, <3>1
  <2>3. c.channel \in Keys /\ c.channel[2] = c.ephemerals
    BY <2>2 DEF Connector, Agreed, Ours
  <2>4. /\ g \in Msg /\ Frame(g) /\ g.type = "relay/data" /\ Epoch(g) = c.ephemerals
    BY <2>3, RecordIs
  <2>5. Agreed(d, p, Q, B \cup {g}, s) /\ B \cup {g} \subseteq Frames
    BY <1>2, <1>3, <2>2, SealingAgrees
  <2> HIDE DEF g
  <2>6. q \in Seq(Msg) /\ In(q) = {g}
    BY <2>2, <2>4, Single
  <2>7. C = B \cup {g} /\ C \in SUBSET Frames
    BY <2>5, <2>6
  <2>8. Greetings(C) = Greetings(B)
    BY <2>4, <2>7 DEF Greetings
  <2>9. Said(p, C) = Said(p, B)
    BY <2>8 DEF Said
  <2>10. Mutual(c, p, P, B) => Mutual(d, p, Q, C)
    BY <1>4, <2>9 DEF Mutual
  <2>11. d.ephemerals >= c.ephemerals /\ \A k1 \in In(q) : Frame(k1) /\ Epoch(k1) = d.ephemerals
    BY <1>2, <2>4, <2>6
  <2>12. Agreed(d, p, Q, C, s)
    BY <2>5, <2>7
  <2>13. B \cup In(r.sent) = C
    BY <1>1
  <2>14. \E t \in {s} : Agreed(r.object, p, Q, C, t)
    BY <1>1, <2>12
  <2> HIDE DEF C
  <2> QED
    BY <1>1, <1>2, <2>6, <2>7, <2>10, <2>11, <2>13, <2>14 DEF Yields
<1> QED
  BY <1>5, <1>6 DEF r

LEMMA EmptiedYields ==
  ASSUME NEW c \in Connector, NEW p \in Phone, NEW P \in SUBSET Frames, NEW Q \in SUBSET P,
         NEW B \in SUBSET Frames, NEW s, NEW F, Agreed(c, p, P, B, s), NEW r,
         r.object \in Connector, r.object.n = c.n, r.object.stopped = c.stopped,
         IF r.closes THEN r.object.link = (IF c.link = "open" THEN "closing" ELSE "closed")
         ELSE r.object.link = c.link,
         r.object.ephemerals = c.ephemerals, r.object.handshake = 0, r.object.channel = None,
         r.sent = <<>>, r.closes \/ ~ F \/ \A x \in Said(p, B) : x[1] # p.n
  PROVE  Yields(c, p, P, Q, B, {s}, r, F)
<1>1. r.sent \in Seq(Msg) /\ In(r.sent) = {} /\ c.ephemerals \in Nat
  BY Emptied DEF Connector
<1>2. B \cup In(r.sent) = B
  BY <1>1
<1>3. Agreed(r.object, p, Q, B, s)
  BY FewerAgree DEF SameSession
<1>4. ~ r.closes /\ F => Mutual(r.object, p, Q, B)
  <2>1. p.signed => p.peerEphemeral # 0
    BY DEF Agreed, Theirs
  <2> QED
    BY <2>1 DEF Mutual
<1>5. r.object.ephemerals >= c.ephemerals
  BY <1>1
<1> QED
  BY <1>1, <1>2, <1>3, <1>4, <1>5 DEF Yields

\* onControlText: what comes of each message.
LEMMA OnControlIs ==
  ASSUME NEW c \in Connector, NEW m \in Msg, m # closed
  PROVE  LET r == OnControl(c, m)
         IN  /\ m = Registered => r = Step([c EXCEPT !.state = "registered"], <<>>)
             /\ m = PeerOnline => r = BeginSeal(c)
             /\ m = PeerOffline => r = Step(OnPeerOffline(c), <<>>)
             /\ m.type = "relay/handshake" => r = OnSealHandshake(c, m)
             /\ m.type = "relay/data" => r \in {CloseStream(c), Step(c, <<>>), Fail(c, <<>>)}
             /\ ~ Frame(m) /\ m \notin {Registered, PeerOnline, PeerOffline} =>
                  r \in {Step(c, <<>>), Fail(c, <<>>)}
<1> DEFINE a == Step([c EXCEPT !.state = "registered"], <<>>)
           b == BeginSeal(c)
           o == Step(OnPeerOffline(c), <<>>)
           h == OnSealHandshake(c, m)
           t == OnTunnel(c, m)
           z == Step(c, <<>>)
           f == Fail(c, <<>>)
           x == BridgeOpens(c, m)
           r == OnControl(c, m)
<1>1. r = CASE m = Registered                -> a
            [] m = PeerOnline                -> b
            [] m = PeerOffline               -> o
            [] m.type = "relay/handshake"    -> h
            [] m.type = "relay/data"         -> IF x THEN t ELSE IF c.channel = None THEN z ELSE f
            [] m = Error("routing-id-taken") -> f
            [] OTHER                         -> z
  BY DEF OnControl
<1>2. t \in {CloseStream(c), z}
  BY DEF OnTunnel
<1> HIDE DEF a, b, o, h, t, z, f, x, r
<1>3. m = Registered => r = a
  BY <1>1 DEF Registered, PeerOnline, PeerOffline, Error
<1>4. m = PeerOnline => r = b
  BY <1>1 DEF Registered, PeerOnline, PeerOffline, Error
<1>5. m = PeerOffline => r = o
  BY <1>1 DEF Registered, PeerOnline, PeerOffline, Error
<1>6. m.type = "relay/handshake" => r = h
  BY <1>1 DEF Registered, PeerOnline, PeerOffline, Error
<1>7. m.type = "relay/data" => r \in {CloseStream(c), z, f}
  BY <1>1, <1>2 DEF Registered, PeerOnline, PeerOffline, Error
<1>8. ~ Frame(m) /\ m \notin {Registered, PeerOnline, PeerOffline} => r \in {z, f}
  BY <1>1 DEF Frame
<1> QED
  BY <1>3, <1>4, <1>5, <1>6, <1>7, <1>8 DEF a, b, o, h, z, f, r

\* Every message that the connector reads, but the close of its socket.
LEMMA ReadingYields ==
  ASSUME NEW c \in Connector, NEW p \in Phone, NEW P \in SUBSET Frames, NEW Q \in SUBSET P,
         NEW B \in SUBSET Frames, NEW s, NEW F, Agreed(c, p, P, B, s),
         NEW m \in Msg, m # closed, P \subseteq Q \cup {m},
         Frame(m) => m \in P /\ \A k \in P : Author(k) >= Author(m),
         m = PeerOffline /\ F => \A x \in Said(p, B) : x[1] # p.n
  PROVE  Yields(c, p, P, Q, B, {s} \cup (IF Frame(m) THEN {Author(m)} ELSE {}), OnControl(c, m), F)
<1> DEFINE T == {s} \cup (IF Frame(m) THEN {Author(m)} ELSE {})
           r == OnControl(c, m)
<1>0. ASSUME Yields(c, p, P, Q, B, {s}, r, F)
      PROVE  Yields(c, p, P, Q, B, T, r, F)
  <2>1. {s} \subseteq T
    OBVIOUS
  <2> HIDE DEF T, r
  <2> QED
    BY <1>0, <2>1 DEF Yields
<1>1. CASE m \in Greeting
  <2>1. Frame(m) /\ m.type = "relay/handshake" /\ Author(m) = m.eph
    BY <1>1 DEF Greeting, Frame, Author
  <2>3. r = OnSealHandshake(c, m)
    BY <2>1, OnControlIs
  <2>4. m \in Greetings(P) /\ \A k \in P : Author(k) >= m.eph
    BY <2>1 DEF Greetings
  <2>5. T = {s, m.eph}
    BY <2>1
  <2> HIDE DEF T, r
  <2>6. Yields(c, p, P, Q, B, {s, m.eph}, OnSealHandshake(c, m), F)
    <3> DEFINE h == OnSealHandshake(c, m)
    <3>1. /\ h.object \in Connector /\ h.object.n = c.n /\ h.object.stopped = c.stopped
          /\ IF h.closes THEN h.object.link = (IF c.link = "open" THEN "closing" ELSE "closed")
             ELSE h.object.link = c.link
          /\ h.sent \in Seq(Msg) /\ B \cup In(h.sent) \in SUBSET Frames
          /\ h.object.ephemerals >= c.ephemerals
          /\ \A g \in In(h.sent) : Frame(g) /\ Epoch(g) = h.object.ephemerals
          /\ \E t \in {s, m.eph} : Agreed(h.object, p, Q, B \cup In(h.sent), t)
          /\ Mutual(c, p, P, B) /\ ~ h.closes => Mutual(h.object, p, Q, B \cup In(h.sent))
      BY <2>4, GreetedAgrees
    <3> HIDE DEF h
    <3>2. Yields(c, p, P, Q, B, {s, m.eph}, h, F)
      BY <3>1 DEF Yields
    <3> QED
      BY <3>2 DEF h
  <2> QED
    BY <2>3, <2>5, <2>6 DEF T, r
<1>2. CASE m \in Record
  <2>1. Frame(m) /\ m.type = "relay/data" /\ m.type # "relay/handshake"
    BY <1>2 DEF Record, Frame
  <2>4. KeepsSocket(c, c) /\ SameCore(c, c)
    BY DEF KeepsSocket, SameCore
  <2>5. Yields(c, p, P, Q, B, {s}, Step(c, <<>>), F)
    BY <2>1, <2>4, QuietYields
  <2>6. Yields(c, p, P, Q, B, {s}, CloseStream(c), F)
    <3> DEFINE u == Ungreeted(c)
               q == IF c.stream \in c.live
                    THEN SendTunnel(c, Tunnel("unsubscribed", 0, c.stream)) ELSE <<>>
    <3>1. u \in Connector /\ KeepsSocket(c, u) /\ SameCore(c, u) /\ u.signed = c.signed
      BY UngreetedIs
    <3>2. c.stream \in Nat /\ "unsubscribed" \in Kinds /\ 0 \in Nat
      BY DEF Connector, Kinds
    <3>3. \/ q = <<>>
          \/ \E k \in Kinds, i \in Nat, n \in Nat : q = SendTunnel(c, Tunnel(k, i, n))
      BY <3>2
    <3>4. CloseStream(c) = Step(u, q)
      BY DEF CloseStream
    <3> HIDE DEF u, q
    <3>5. Yields(c, p, P, Q, B, {s}, Step(u, q), F)
      BY <2>1, <3>1, <3>3, QuietYields
    <3> QED
      BY <3>4, <3>5
  <2>7. Yields(c, p, P, Q, B, {s}, Fail(c, <<>>), F)
    <3> DEFINE f == Fail(c, <<>>)
    <3>1. /\ f.object \in Connector /\ f.closes /\ f.sent = <<>>
          /\ f.object.n = c.n /\ f.object.stopped = c.stopped
          /\ f.object.link = IF c.link = "open" THEN "closing" ELSE "closed"
          /\ f.object.ephemerals = c.ephemerals
          /\ f.object.handshake = 0 /\ f.object.channel = None
      BY FailIs
    <3> HIDE DEF f
    <3>2. Yields(c, p, P, Q, B, {s}, f, F)
      BY <3>1, EmptiedYields
    <3> QED
      BY <3>2 DEF f
  <2>8. r \in {Step(c, <<>>), CloseStream(c), Fail(c, <<>>)}
    BY <2>1, OnControlIs
  <2> HIDE DEF T, r
  <2>9. Yields(c, p, P, Q, B, {s}, r, F)
    BY <2>5, <2>6, <2>7, <2>8
  <2> QED
    BY <1>0, <2>9 DEF T, r
<1>3. CASE m \in Notice
  <2>1. m.type \notin {"relay/handshake", "relay/data"}
    BY <1>3, NoticeIs DEF Frame
  <2>2. CASE m = Registered
    <3> DEFINE d == [c EXCEPT !.state = "registered"]
    <3>1. r = Step(d, <<>>)
      BY <2>2, OnControlIs
    <3>2. d \in Connector /\ KeepsSocket(c, d) /\ SameCore(c, d) /\ d.signed = c.signed
      BY DEF Connector, States, KeepsSocket, SameCore
    <3> HIDE DEF d
    <3>3. Yields(c, p, P, Q, B, {s}, Step(d, <<>>), F)
      BY <2>1, <3>2, QuietYields
    <3> QED
      BY <1>0, <3>1, <3>3
  <2>3. CASE m = PeerOnline
    <3>1. r = BeginSeal(c)
      BY <2>3, OnControlIs
    <3>2. CASE c.channel # None \/ c.handshake # 0
      <4>1. BeginSeal(c) = Step(c, <<>>)
        BY <3>2 DEF BeginSeal
      <4>2. KeepsSocket(c, c) /\ SameCore(c, c)
        BY DEF KeepsSocket, SameCore
      <4>3. Yields(c, p, P, Q, B, {s}, Step(c, <<>>), F)
        BY <2>1, <4>2, QuietYields
      <4> QED
        BY <1>0, <3>1, <4>1, <4>3
    <3>3. CASE c.channel = None
      <4>1. Frame(m) = FALSE /\ Q = P
        <5>1. ~ Frame(m)
          BY <1>3, NoticeIs
        <5>2. m \notin P
          BY <5>1 DEF Frames
        <5> QED
          BY <5>1, <5>2
      <4>2. Yields(c, p, P, P, B, {s}, BeginSeal(c), F)
        <5> DEFINE b == BeginSeal(c)
        <5>1. /\ b.object \in Connector /\ KeepsSocket(c, b.object) /\ ~ b.closes
          BY BeginSealIs
        <5>2. /\ b.sent \in Seq(Msg) /\ B \cup In(b.sent) \in SUBSET Frames
              /\ b.object.ephemerals >= c.ephemerals
              /\ \A g \in In(b.sent) : Frame(g) /\ Epoch(g) = b.object.ephemerals
              /\ Agreed(b.object, p, P, B \cup In(b.sent), s)
              /\ Mutual(c, p, P, B) => Mutual(b.object, p, P, B \cup In(b.sent))
          BY <3>3, BegunAgrees
        <5> HIDE DEF b
        <5>3. Yields(c, p, P, P, B, {s}, b, F)
          BY <5>1, <5>2 DEF Yields, KeepsSocket
        <5> QED
          BY <5>3 DEF b
      <4> QED
        BY <1>0, <3>1, <4>1, <4>2
    <3> QED
      BY <3>2, <3>3
  <2>4. CASE m = PeerOffline
    <3> DEFINE f == Step(OnPeerOffline(c), <<>>)
    <3>1. r = f
      BY <2>4, OnControlIs
    <3>2. LET d == OnPeerOffline(c)
          IN  /\ d \in Connector /\ KeepsSocket(c, d) /\ d.ephemerals = c.ephemerals
              /\ d.handshake = 0 /\ d.channel = None
      BY OnPeerOfflineIs
    <3>3. f.object = OnPeerOffline(c) /\ f.sent = <<>> /\ ~ f.closes
      BY DEF Step
    <3> HIDE DEF f
    <3>4. Yields(c, p, P, Q, B, {s}, f, F)
      BY <2>4, <3>2, <3>3, EmptiedYields DEF KeepsSocket
    <3> QED
      BY <1>0, <3>1, <3>4
  <2>5. CASE m \notin {Registered, PeerOnline, PeerOffline}
    <3>1. r \in {Fail(c, <<>>), Step(c, <<>>)}
      BY <2>1, <2>5, OnControlIs DEF Frame
    <3>2. KeepsSocket(c, c) /\ SameCore(c, c)
      BY DEF KeepsSocket, SameCore
    <3>3. Yields(c, p, P, Q, B, {s}, Step(c, <<>>), F)
      BY <2>1, <3>2, QuietYields
    <3>4. Yields(c, p, P, Q, B, {s}, Fail(c, <<>>), F)
      <4> DEFINE f == Fail(c, <<>>)
      <4>1. /\ f.object \in Connector /\ f.closes /\ f.sent = <<>>
            /\ f.object.n = c.n /\ f.object.stopped = c.stopped
            /\ f.object.link = IF c.link = "open" THEN "closing" ELSE "closed"
            /\ f.object.ephemerals = c.ephemerals
            /\ f.object.handshake = 0 /\ f.object.channel = None
        BY FailIs
      <4> HIDE DEF f
      <4>2. Yields(c, p, P, Q, B, {s}, f, F)
        BY <4>1, EmptiedYields
      <4> QED
        BY <4>2 DEF f
    <3> HIDE DEF T, r
    <3>5. Yields(c, p, P, Q, B, {s}, r, F)
      BY <3>1, <3>3, <3>4
    <3> QED
      BY <1>0, <3>5 DEF T, r
  <2> QED
    BY <2>2, <2>3, <2>4, <2>5
<1> QED
  BY <1>1, <1>2, <1>3 DEF Msg

-----------------------------------------------------------------------------
\* The phone's methods.

LEMMA PhoneBeginSealIs ==
  ASSUME NEW p \in Phone
  PROVE  LET r == PhoneBeginSeal(p)
         IN  /\ r.object \in Phone /\ r.object.n = p.n /\ ~ r.closes
             /\ r.object.channel = p.channel /\ r.object.peerEphemeral = p.peerEphemeral
             /\ r.object.ended = p.ended
             /\ IF p.channel # None \/ p.begun THEN r.object = p /\ r.sent = <<>>
                ELSE /\ r.object.phase = "handshaking" /\ r.object.begun /\ ~ r.object.signed
                     /\ r.sent = <<Handshake(p.n, None)>>
<1> DEFINE d == [p EXCEPT !.phase = "handshaking", !.begun = TRUE, !.signed = FALSE]
<1>1. /\ d \in Phone /\ d.n = p.n /\ d.channel = p.channel /\ d.peerEphemeral = p.peerEphemeral
      /\ d.ended = p.ended /\ d.phase = "handshaking" /\ d.begun /\ ~ d.signed
  BY DEF Phone, Phases
<1>2. PhoneBeginSeal(p) = IF p.channel # None \/ p.begun THEN Step(p, <<>>)
                          ELSE Step(d, <<Handshake(p.n, None)>>)
  BY DEF PhoneBeginSeal
<1> HIDE DEF d
<1> QED
  BY <1>1, <1>2 DEF Step

LEMMA FinishIs ==
  ASSUME NEW p \in Phone, NEW e \in {"retry", "pin-mismatch", "routing-collision"}
  PROVE  LET q == Finish(p, e)
         IN  /\ q \in Phone /\ q.n = p.n /\ q.phase = "closed" /\ q.ended = e /\ ~ q.begun
             /\ ~ q.signed /\ q.peerEphemeral = 0 /\ q.channel = None
<1>1. /\ unbuilt \in Phone /\ ~ unbuilt.begun /\ ~ unbuilt.signed /\ unbuilt.peerEphemeral = 0
      /\ unbuilt.channel = None
  <2>1. 0 \in 0 .. MaxSessions
    BY RelayAssumption
  <2> QED
    BY <2>1 DEF unbuilt, Phone, Phases
<1>2. /\ Finish(p, e) \in Phone /\ Finish(p, e).n = p.n /\ Finish(p, e).phase = "closed"
      /\ Finish(p, e).ended = e /\ Finish(p, e).begun = unbuilt.begun
      /\ Finish(p, e).signed = unbuilt.signed
      /\ Finish(p, e).peerEphemeral = unbuilt.peerEphemeral
      /\ Finish(p, e).channel = unbuilt.channel
  BY <1>1 DEF Finish, Phone, Phases
<1> QED
  BY <1>1, <1>2

LEMMA OnTunnelMessageIs ==
  ASSUME NEW p \in Phone, NEW m \in Record
  PROVE  LET q == OnTunnelMessage(p, m)
         IN  q \in Phone /\ SameSession(p, q) /\ q.ended = p.ended
<1> DEFINE a == [p EXCEPT !.pending = @ \ {m.id}]
           b == [p EXCEPT !.sub = "following", !.hello = m.of]
           d == [p EXCEPT !.sub = "ended"]
           q == OnTunnelMessage(p, m)
<1>1. m.of \in Nat
  BY DEF Record
<1>2. a \in Phone /\ SameSession(p, a) /\ a.ended = p.ended
  BY DEF Phone, SameSession
<1>3. b \in Phone /\ SameSession(p, b) /\ b.ended = p.ended
  BY <1>1 DEF Phone, SameSession
<1>4. d \in Phone /\ SameSession(p, d) /\ d.ended = p.ended
  BY DEF Phone, SameSession
<1>5. SameSession(p, p)
  BY DEF SameSession
<1>6. q \in {a, b, d, p}
  <2> HIDE DEF a, b, d
  <2>1. q = CASE m.kind = "response" -> a
              [] m.kind = "hello" /\ p.sub = "asked" -> b
              [] \/ m.kind = "subscribe-failed" /\ p.sub \in {"asked", "following"} /\ p.subId = m.id
                 \/ m.kind = "unsubscribed" /\ p.sub \in {"asked", "following"} -> d
              [] OTHER -> p
    BY DEF OnTunnelMessage, a, b, d
  <2> HIDE DEF q
  <2> QED
    BY <2>1
<1> HIDE DEF a, b, d, q
<1>7. q \in Phone /\ SameSession(p, q) /\ q.ended = p.ended
  BY <1>2, <1>3, <1>4, <1>5, <1>6
<1> QED
  BY <1>7 DEF q

\* onMessage: what comes of each message.
LEMMA OnMessageIs ==
  ASSUME NEW p \in Phone, NEW m \in Msg
  PROVE  LET r == OnMessage(p, m)
         IN  /\ m \in {Registered, PeerOnline} => r = PhoneBeginSeal(p)
             /\ m.type = "relay/handshake" => r = OnHandshakeFrame(p, m)
             /\ m.type = "relay/data" => \/ p.channel = None /\ r = Step(p, <<>>)
                                         \/ r = Finished(p, <<>>, "retry")
                                         \/ r = Step(OnTunnelMessage(p, m), <<>>)
             /\ ~ Frame(m) /\ m \notin {Registered, PeerOnline} =>
                  \/ r = Finished(p, <<>>, "retry")
                  \/ m = Error("routing-id-taken") /\ r = Finished(p, <<>>, "routing-collision")
<1> DEFINE b == PhoneBeginSeal(p)
           h == OnHandshakeFrame(p, m)
           z == Step(p, <<>>)
           f == Finished(p, <<>>, "retry")
           g == Finished(p, <<>>, "routing-collision")
           t == Step(OnTunnelMessage(p, m), <<>>)
           x == PhoneOpens(p, m)
           r == OnMessage(p, m)
<1>1. r = CASE m \in {Registered, PeerOnline}  -> b
            [] m.type = "relay/handshake"      -> h
            [] m.type = "relay/data"           -> IF p.channel = None THEN z
                                                  ELSE IF ~ x THEN f ELSE t
            [] m = Error("routing-id-taken")   -> g
            [] OTHER                           -> f
  BY DEF OnMessage
<1> HIDE DEF b, h, z, f, g, t, x, r
<1>2. m \in {Registered, PeerOnline} => r = b
  BY <1>1 DEF Registered, PeerOnline, Error
<1>3. m.type = "relay/handshake" => r = h
  BY <1>1 DEF Registered, PeerOnline, Error
<1>4. m.type = "relay/data" => (p.channel = None /\ r = z) \/ r = f \/ r = t
  BY <1>1 DEF Registered, PeerOnline, Error
<1>5. ~ Frame(m) /\ m \notin {Registered, PeerOnline} =>
        r = f \/ (m = Error("routing-id-taken") /\ r = g)
  BY <1>1 DEF Frame
<1> QED
  BY <1>2, <1>3, <1>4, <1>5 DEF b, h, z, f, g, t, r


\* What reading a message makes of the phone, of what is on its way, and of the sessions.
PhoneYields(c, p, P, B, s, m, r) ==
  LET q == r.object
      Q == P \cup In(r.sent)
  IN  /\ q \in Phone /\ q.n = p.n
      /\ r.sent \in Seq(Msg) /\ Q \in SUBSET Frames
      /\ \A g \in In(r.sent) : Frame(g) /\ Author(g) = p.n
      /\ Agreed(c, q, Q, B, s)
      /\ IF r.closes THEN q.phase = "closed"
         ELSE /\ q.phase \in {"registering", "handshaking", "sealed"} /\ ~ Ends(m)
              /\ q.peerEphemeral = p.peerEphemeral \/ (Frame(m) /\ q.peerEphemeral = Epoch(m))
              /\ Mutual(c, p, P, B) => Mutual(c, q, Q, B)
      /\ q.ended \in {"pin-mismatch", "routing-collision"} => p.n > 1

LEMMA FinishingYields ==
  ASSUME NEW c \in Connector, NEW p \in Phone, NEW P \in SUBSET Frames, NEW B \in SUBSET Frames,
         NEW s, NEW m, NEW q \in Phone, q.n = p.n, NEW ms \in Seq(Msg),
         P \cup In(ms) \in SUBSET Frames, \A g \in In(ms) : Frame(g) /\ Author(g) = p.n,
         Agreed(c, q, P \cup In(ms), B, s),
         NEW e \in {"retry", "pin-mismatch", "routing-collision"}, e # "retry" => p.n > 1
  PROVE  PhoneYields(c, p, P, B, s, m, Finished(q, ms, e))
<1> DEFINE r == Finished(q, ms, e)
           d == Finish(q, e)
           Q == P \cup In(ms)
<1>1. r.object = d /\ r.sent = ms /\ r.closes
  BY DEF Finished
<1>2. /\ d \in Phone /\ d.n = q.n /\ d.phase = "closed" /\ d.ended = e /\ ~ d.begun
      /\ ~ d.signed /\ d.peerEphemeral = 0 /\ d.channel = None
  BY FinishIs
<1> HIDE DEF r, d, Q
<1>3. Q \in SUBSET Frames /\ Agreed(c, q, Q, B, s)
  BY DEF Q
<1>4. SameCore(c, c)
  BY DEF SameCore
<1>5. Agreed(c, d, Q, B, s)
  BY <1>2, <1>3, <1>4, FewerAgree
<1>6. P \cup In(r.sent) = Q
  BY <1>1 DEF Q
<1>7. PhoneYields(c, p, P, B, s, m, r)
  BY <1>1, <1>2, <1>3, <1>5, <1>6 DEF PhoneYields
<1> QED
  BY <1>7 DEF r

LEMMA StandingYields ==
  ASSUME NEW c \in Connector, NEW p \in Phone, NEW P \in SUBSET Frames, NEW B \in SUBSET Frames,
         NEW s, Agreed(c, p, P, B, s), NEW m, ~ Ends(m),
         p.phase \in {"registering", "handshaking", "sealed"},
         p.ended \in {"pin-mismatch", "routing-collision"} => p.n > 1,
         NEW q \in Phone, SameSession(p, q), q.ended = p.ended
  PROVE  PhoneYields(c, p, P, B, s, m, Step(q, <<>>))
<1> DEFINE r == Step(q, <<>>)
<1>1. r.object = q /\ r.sent = <<>> /\ ~ r.closes
  BY DEF Step
<1> HIDE DEF r
<1>2. r.sent \in Seq(Msg) /\ In(r.sent) = {}
  BY <1>1, Emptied
<1>3. P \cup In(r.sent) = P
  BY <1>2
<1>4. SameCore(c, c)
  BY DEF SameCore
<1>5. Agreed(c, q, P, B, s)
  BY <1>4, FewerAgree
<1>6. /\ q.n = p.n /\ q.phase = p.phase /\ q.signed = p.signed /\ q.channel = p.channel
      /\ q.peerEphemeral = p.peerEphemeral
  BY DEF SameSession
<1>7. Said(q, B) = Said(p, B)
  BY <1>6 DEF Said
<1>8. Mutual(c, p, P, B) => Mutual(c, q, P, B)
  BY <1>6, <1>7 DEF Mutual
<1>9. PhoneYields(c, p, P, B, s, m, r)
  BY <1>1, <1>2, <1>3, <1>5, <1>6, <1>8 DEF PhoneYields
<1> QED
  BY <1>9 DEF r

\* A phone that listens and has no channel begins its handshake, or has begun it.
LEMMA PhoneBegunYields ==
  ASSUME NEW c \in Connector, NEW p \in Phone, NEW P \in SUBSET Frames, NEW B \in SUBSET Frames,
         NEW s, Agreed(c, p, P, B, s), NEW m, ~ Ends(m),
         p.phase \in {"registering", "handshaking", "sealed"}, p.channel = None,
         p.ended \in {"pin-mismatch", "routing-collision"} => p.n > 1
  PROVE  LET r == PhoneBeginSeal(p)
         IN  /\ PhoneYields(c, p, P, B, s, m, r)
             /\ r.object.begun /\ r.object.signed = p.signed
             /\ r.object.peerEphemeral = p.peerEphemeral /\ r.object.channel = None
             /\ r.object.phase = "handshaking" /\ r.object.n = p.n /\ ~ r.closes
             /\ Said(r.object, B) = Said(p, B) /\ r.object.ended = p.ended
<1> DEFINE r == PhoneBeginSeal(p)
           q == r.object
           g == Handshake(p.n, None)
<1>1. /\ q \in Phone /\ q.n = p.n /\ ~ r.closes /\ q.channel = p.channel
      /\ q.peerEphemeral = p.peerEphemeral /\ q.ended = p.ended
      /\ IF p.channel # None \/ p.begun THEN q = p /\ r.sent = <<>>
         ELSE q.phase = "handshaking" /\ q.begun /\ ~ q.signed /\ r.sent = <<g>>
  BY PhoneBeginSealIs
<1>2. /\ p.phase = "sealed" <=> p.channel # None
      /\ p.phase = "handshaking" <=> p.begun
      /\ p.signed => p.phase \in {"handshaking", "sealed"}
  BY DEF Agreed, Theirs
<1>3. p.n \in Nat
  BY RelayAssumption DEF Phone
<1>4. g \in Msg /\ Frame(g) /\ Author(g) = p.n /\ Pair(g) = None
  BY <1>3, GreetingIs
<1> HIDE DEF g, r
<1>5. Said(q, B) = Said(p, B)
  BY <1>1 DEF Said
<1>6. CASE p.begun
  <2>1. q = p /\ r.sent = <<>>
    BY <1>1, <1>6
  <2>2. r.sent \in Seq(Msg) /\ In(r.sent) = {}
    BY <2>1, Emptied
  <2>3. P \cup In(r.sent) = P
    BY <2>2
  <2>4. PhoneYields(c, p, P, B, s, m, r)
    BY <1>1, <2>1, <2>2, <2>3 DEF PhoneYields
  <2> QED
    BY <1>1, <1>2, <1>5, <1>6, <2>1, <2>4 DEF r
<1>7. CASE ~ p.begun
  <2>1. p.phase = "registering" /\ ~ p.signed
    BY <1>2, <1>7
  <2>2. q.phase = "handshaking" /\ q.begun /\ ~ q.signed /\ r.sent = <<g>>
    BY <1>1, <1>7
  <2>3. r.sent \in Seq(Msg) /\ In(r.sent) = {g}
    BY <1>4, <2>2, Single
  <2>4. P \cup {g} \subseteq Frames /\ Agreed(c, q, P \cup {g}, B, s)
    BY <1>1, <2>1, <2>2, PhoneBeginsAgrees DEF g
  <2>5. P \cup In(r.sent) = P \cup {g}
    BY <2>3
  <2>6. Mutual(c, p, P, B) => Mutual(c, q, P \cup {g}, B)
    BY <1>1, <1>5, <2>2 DEF Mutual
  <2>7. \A k \in In(r.sent) : Frame(k) /\ Author(k) = p.n
    BY <1>4, <2>3
  <2> DEFINE Q == P \cup {g}
  <2> HIDE DEF Q
  <2>8. P \cup In(r.sent) = Q /\ Q \in SUBSET Frames /\ Agreed(c, q, Q, B, s)
        /\ (Mutual(c, p, P, B) => Mutual(c, q, Q, B))
    BY <2>4, <2>5, <2>6 DEF Q
  <2>9. PhoneYields(c, p, P, B, s, m, r)
    BY <1>1, <2>2, <2>3, <2>7, <2>8 DEF PhoneYields
  <2>10. q.signed = p.signed
    BY <1>1, <2>1, <2>2 DEF Phone
  <2> QED
    BY <1>1, <1>5, <2>2, <2>9, <2>10 DEF r
<1> QED
  BY <1>6, <1>7

\* onHandshakeFrame up to the phone's own signature: d is the phone with the bridge's
\* ephemeral pinned, and t what it has sent by then.
LEMMA PinningAgrees ==
  ASSUME NEW c \in Connector, NEW o \in Phone, NEW P \in SUBSET Frames, NEW B \in SUBSET Frames,
         NEW s, Agreed(c, o, P, B, s), o.begun, o.n # 0, o.channel = None,
         NEW m \in Greetings(B), o.peerEphemeral \in {0, m.eph},
         NEW d \in Phone, d.n = o.n, d.phase = o.phase, d.begun, d.signed,
         d.peerEphemeral = m.eph, d.channel = None,
         NEW N, o.signed => N = {}, ~ o.signed => N = {PhoneSigned(o.n, m.eph)}
  PROVE  /\ P \cup N \in SUBSET Frames /\ Agreed(c, d, P \cup N, B, s)
         /\ Mutual(c, o, P, B) => Mutual(c, d, P \cup N, B)
<1>1. Said(d, B) = Said(o, B)
  BY DEF Said
<1>2. CASE o.signed
  <2>1. o.peerEphemeral = m.eph
    BY <1>2 DEF Agreed, Theirs
  <2>2. SameSession(o, d) /\ SameCore(c, c)
    BY <1>2, <2>1 DEF SameSession, SameCore, Phone
  <2>3. Agreed(c, d, P, B, s)
    BY <2>2, FewerAgree
  <2>4. Mutual(c, o, P, B) => Mutual(c, d, P, B)
    BY <1>1, <1>2, <2>1 DEF Mutual
  <2>5. P \cup N = P
    BY <1>2
  <2> QED
    BY <2>3, <2>4, <2>5
<1>3. CASE ~ o.signed
  <2> DEFINE Q == P \cup {PhoneSigned(o.n, m.eph)}
  <2>1. P \cup N = Q
    BY <1>3
  <2>2. Q \subseteq Frames /\ Agreed(c, d, Q, B, s)
    BY <1>3, PhoneSigningAgrees
  <2>3. Handshake(d.n, <<d.n, d.peerEphemeral>>) \in Q
    BY DEF PhoneSigned, Transcript
  <2> HIDE DEF Q
  <2>4. Mutual(c, o, P, B) => Mutual(c, d, Q, B)
    BY <1>1, <2>3 DEF Mutual
  <2> QED
    BY <2>1, <2>2, <2>4
<1> QED
  BY <1>2, <1>3

LEMMA PhoneGreetedYields ==
  ASSUME NEW c \in Connector, NEW p \in Phone, NEW P \in SUBSET Frames, NEW B \in SUBSET Frames,
         NEW s, Agreed(c, p, P, B, s), p.n # 0, NEW m \in Greetings(B), ~ Ends(m),
         p.phase \in {"registering", "handshaking", "sealed"},
         p.ended \in {"pin-mismatch", "routing-collision"} => p.n > 1
  PROVE  PhoneYields(c, p, P, B, s, m, OnHandshakeFrame(p, m))
<1> DEFINE b == PhoneBeginSeal(p)
           o == b.object
           d == [o EXCEPT !.signed = TRUE, !.peerEphemeral = m.eph]
           z == [d EXCEPT !.channel = m.sig, !.begun = FALSE, !.phase = "sealed"]
           n == IF o.signed THEN <<>> ELSE <<PhoneSigned(p.n, m.eph)>>
           t == b.sent \o n
           r == OnHandshakeFrame(p, m)
<1>1. r = IF p.channel # None THEN Finished(p, <<>>, "retry")
          ELSE IF p.peerEphemeral \notin {0, m.eph} THEN Finished(o, b.sent, "retry")
          ELSE IF m.sig = None THEN Step(d, t)
          ELSE IF PhoneCompletes(p.n, m) THEN Step(z, t)
          ELSE Finished(d, t, "pin-mismatch")
  BY DEF OnHandshakeFrame
<1>2. m \in B /\ Frame(m) /\ m.type = "relay/handshake" /\ m.eph \in Nat /\ m.sig \in Keys \cup {None}
      /\ Epoch(m) = m.eph /\ Pair(m) = m.sig
  BY FramesAre DEF Frames, Greetings
<1>3. p.n \in Nat /\ p.n \in 0 .. MaxSessions
  BY RelayAssumption DEF Phone
<1>4. CASE p.channel # None
  <2>1. <<>> \in Seq(Msg) /\ In(<<>>) = {}
    BY Emptied
  <2>2. P \cup In(<<>>) = P
    BY <2>1
  <2>3. PhoneYields(c, p, P, B, s, m, Finished(p, <<>>, "retry"))
    BY <2>1, <2>2, FinishingYields
  <2> QED
    BY <1>1, <1>4, <2>3
<1>5. CASE p.channel = None
  <2>1. /\ PhoneYields(c, p, P, B, s, m, b)
        /\ o.begun /\ o.signed = p.signed /\ o.peerEphemeral = p.peerEphemeral
        /\ o.channel = None /\ o.phase = "handshaking" /\ o.n = p.n /\ ~ b.closes
        /\ Said(o, B) = Said(p, B) /\ o.ended = p.ended
    BY <1>5, PhoneBegunYields
  <2> HIDE DEF b
  <2> DEFINE O == P \cup In(b.sent)
  <2>2. /\ o \in Phone /\ b.sent \in Seq(Msg) /\ O \in SUBSET Frames
        /\ \A g \in In(b.sent) : Frame(g) /\ Author(g) = p.n
        /\ Agreed(c, o, O, B, s) /\ (Mutual(c, p, P, B) => Mutual(c, o, O, B))
    BY <2>1 DEF PhoneYields
  <2>3. CASE p.peerEphemeral \notin {0, m.eph}
    <3>1. PhoneYields(c, p, P, B, s, m, Finished(o, b.sent, "retry"))
      BY <2>1, <2>2, FinishingYields
    <3> QED
      BY <1>1, <1>5, <2>3, <3>1
  <2>4. CASE p.peerEphemeral \in {0, m.eph}
    <3> DEFINE N == IF o.signed THEN {} ELSE {PhoneSigned(o.n, m.eph)}
               g == PhoneSigned(p.n, m.eph)
               Q == P \cup In(t)
    <3>1. /\ d \in Phone /\ d.n = p.n /\ d.phase = "handshaking" /\ d.begun /\ d.signed
          /\ d.peerEphemeral = m.eph /\ d.channel = None /\ d.ended = p.ended
      BY <1>2, <2>1, <2>2 DEF Phone
    <3>2. g \in Msg /\ Frame(g) /\ Author(g) = p.n
      <4>1. <<p.n, m.eph>> \in Keys \cup {None}
        BY <1>2, <1>3 DEF Keys
      <4> QED
        BY <1>3, <4>1, GreetingIs DEF PhoneSigned, Transcript
    <3>3. n \in Seq(Msg) /\ In(n) = N
      <4> HIDE DEF g
      <4>1. <<>> \in Seq(Msg) /\ In(<<>>) = {} /\ <<g>> \in Seq(Msg) /\ In(<<g>>) = {g}
        BY <3>2, Emptied, Single
      <4>2. n = (IF o.signed THEN <<>> ELSE <<g>>) /\ N = IF o.signed THEN {} ELSE {g}
        BY <2>1 DEF g
      <4> HIDE DEF n, N
      <4> QED
        BY <4>1, <4>2
    <3>4. /\ O \cup N \in SUBSET Frames /\ Agreed(c, d, O \cup N, B, s)
          /\ Mutual(c, o, O, B) => Mutual(c, d, O \cup N, B)
      <4> HIDE DEF O, d
      <4>1. o.n = p.n /\ o.n # 0 /\ d.n = o.n /\ d.phase = o.phase
            /\ o.peerEphemeral \in {0, m.eph}
        BY <2>1, <2>4, <3>1
      <4>2. (o.signed => N = {}) /\ (~ o.signed => N = {PhoneSigned(o.n, m.eph)})
        OBVIOUS
      <4>3. o \in Phone /\ o.begun /\ o.channel = None /\ Agreed(c, o, O, B, s) /\ O \in SUBSET Frames
        BY <2>1, <2>2
      <4> HIDE DEF N, o
      <4> QED
        BY <3>1, <4>1, <4>2, <4>3, PinningAgrees
    <3> HIDE DEF N, n, d
    <3>5. t \in Seq(Msg) /\ In(t) = In(b.sent) \cup N
      BY <2>2, <3>3, Joined
    <3> HIDE DEF t
    <3>6. Q = O \cup N
      BY <3>5
    <3>7. \A k \in In(t) : Frame(k) /\ Author(k) = p.n
      BY <2>1, <2>2, <3>2, <3>5 DEF N
    <3> HIDE DEF O, Q, g
    <3>8. Q \in SUBSET Frames /\ Agreed(c, d, Q, B, s)
          /\ (Mutual(c, p, P, B) => Mutual(c, d, Q, B))
      BY <2>2, <3>4, <3>6
    <3>9. CASE m.sig = None
      <4> DEFINE f == Step(d, t)
      <4>1. f.object = d /\ f.sent = t /\ ~ f.closes /\ P \cup In(f.sent) = Q
        BY DEF Step, Q
      <4> HIDE DEF f
      <4>2. PhoneYields(c, p, P, B, s, m, f)
        BY <1>2, <3>1, <3>5, <3>7, <3>8, <4>1 DEF PhoneYields
      <4>3. r = Step(d, t)
        BY <1>1, <1>5, <2>4, <3>9
      <4> QED
        BY <4>2, <4>3 DEF f
    <3>10. CASE m.sig # None /\ PhoneCompletes(p.n, m)
      <4> DEFINE f == Step(z, t)
      <4>1. m.sig = <<p.n, m.eph>>
        BY <3>10 DEF PhoneCompletes, Transcript
      <4>2. /\ z \in Phone /\ z.n = p.n /\ z.phase = "sealed" /\ ~ z.begun /\ z.signed
            /\ z.peerEphemeral = m.eph /\ z.channel = m.sig /\ z.ended = p.ended
        BY <1>2, <3>1 DEF Phone, Phases
      <4> HIDE DEF z
      <4>3. Agreed(c, z, Q, B, s)
        BY <3>1, <3>8, <4>1, <4>2, PhoneCompletingAgrees
      <4>4. Mutual(c, d, Q, B) => Mutual(c, z, Q, B)
        <5>1. \A x \in Said(z, B) : x \in Said(d, B)
          <6>1. \A x : x \in Said(d, B) <=> x # None /\ (x = d.channel \/ \E k \in Greetings(B) : k.sig = x)
            BY <3>1, SaidIs
          <6>2. \A x : x \in Said(z, B) <=> x # None /\ (x = z.channel \/ \E k \in Greetings(B) : k.sig = x)
            BY <4>2, SaidIs
          <6> QED
            BY <4>2, <6>1, <6>2
        <5> QED
          BY <3>1, <4>2, <5>1 DEF Mutual
      <4>5. f.object = z /\ f.sent = t /\ ~ f.closes /\ P \cup In(f.sent) = Q
        BY DEF Step, Q
      <4> HIDE DEF f
      <4>6. PhoneYields(c, p, P, B, s, m, f)
        BY <1>2, <3>5, <3>7, <3>8, <4>2, <4>3, <4>4, <4>5 DEF PhoneYields
      <4>7. r = Step(z, t)
        BY <1>1, <1>5, <2>4, <3>10
      <4> QED
        BY <4>6, <4>7 DEF f
    <3>11. CASE m.sig # None /\ ~ PhoneCompletes(p.n, m)
      <4>1. m.sig # <<p.n, m.eph>> /\ m.sig \in Keys
        BY <1>2, <3>11 DEF PhoneCompletes, Transcript
      <4>2. m.sig[2] = m.eph /\ m.sig[1] \in 1 .. p.n
        BY <1>2, <3>11 DEF Agreed, Shapes
      <4>3. m.sig = <<m.sig[1], m.sig[2]>>
        BY <4>1, KeyIsPair
      <4>4. m.sig[1] # p.n
        BY <4>1, <4>2, <4>3
      <4>5. p.n > 1
        BY <1>3, <4>2, <4>4
      <4>6. PhoneYields(c, p, P, B, s, m, Finished(d, t, "pin-mismatch"))
        BY <3>1, <3>5, <3>7, <3>8, <4>5, FinishingYields DEF Q
      <4>7. r = Finished(d, t, "pin-mismatch")
        BY <1>1, <1>5, <2>4, <3>11
      <4> QED
        BY <4>6, <4>7
    <3> QED
      BY <3>9, <3>10, <3>11
  <2> QED
    BY <2>3, <2>4
<1> QED
  BY <1>4, <1>5

\* Every message that the phone reads.
LEMMA PhoneReadingYields ==
  ASSUME NEW c \in Connector, NEW p \in Phone, NEW P \in SUBSET Frames, NEW B \in SUBSET Frames,
         NEW s, Agreed(c, p, P, B, s), p.n # 0, NEW m \in Msg, Frame(m) => m \in B,
         p.phase \in {"registering", "handshaking", "sealed"},
         p.ended \in {"pin-mismatch", "routing-collision"} => p.n > 1,
         m = Error("routing-id-taken") => p.n > 1
  PROVE  PhoneYields(c, p, P, B, s, m, OnMessage(p, m))
<1> DEFINE r == OnMessage(p, m)
<1>1. <<>> \in Seq(Msg) /\ In(<<>>) = {}
  BY Emptied
<1>2. P \cup In(<<>>) = P /\ SameSession(p, p)
  BY <1>1 DEF SameSession
<1>3. PhoneYields(c, p, P, B, s, m, Finished(p, <<>>, "retry"))
  BY <1>1, <1>2, FinishingYields
<1>4. ~ Ends(m) => PhoneYields(c, p, P, B, s, m, Step(p, <<>>))
  BY <1>2, StandingYields
<1>5. CASE m \in Greeting
  <2>1. m.type = "relay/handshake" /\ Frame(m) /\ ~ Ends(m)
    BY <1>5 DEF Greeting, Frame, Ends
  <2>2. m \in Greetings(B)
    BY <2>1 DEF Greetings
  <2>3. PhoneYields(c, p, P, B, s, m, OnHandshakeFrame(p, m))
    BY <2>1, <2>2, PhoneGreetedYields
  <2>4. r = OnHandshakeFrame(p, m)
    BY <2>1, OnMessageIs
  <2> QED
    BY <2>3, <2>4
<1>6. CASE m \in Record
  <2>1. m.type = "relay/data" /\ Frame(m) /\ ~ Ends(m)
    BY <1>6 DEF Record, Frame, Ends
  <2> DEFINE q == OnTunnelMessage(p, m)
  <2>2. q \in Phone /\ SameSession(p, q) /\ q.ended = p.ended
    BY <1>6, OnTunnelMessageIs
  <2> HIDE DEF q
  <2>3. PhoneYields(c, p, P, B, s, m, Step(q, <<>>))
    BY <2>1, <2>2, StandingYields
  <2>4. r \in {Step(p, <<>>), Finished(p, <<>>, "retry"), Step(q, <<>>)}
    BY <2>1, OnMessageIs DEF q
  <2> HIDE DEF r
  <2>5. PhoneYields(c, p, P, B, s, m, r)
    BY <1>3, <1>4, <2>1, <2>3, <2>4
  <2> QED
    BY <2>5 DEF r
<1>7. CASE m \in Notice
  <2>1. ~ Frame(m)
    BY <1>7, NoticeIs
  <2>2. CASE m \in {Registered, PeerOnline}
    <3>1. ~ Ends(m) /\ r = PhoneBeginSeal(p)
      BY <1>7, <2>2, NoticeIs, OnMessageIs
    <3>2. CASE p.channel = None
      <4>1. PhoneYields(c, p, P, B, s, m, PhoneBeginSeal(p))
        BY <3>1, <3>2, PhoneBegunYields
      <4> QED
        BY <3>1, <4>1
    <3>3. CASE p.channel # None
      <4>1. PhoneBeginSeal(p) = Step(p, <<>>)
        BY <3>3 DEF PhoneBeginSeal
      <4> QED
        BY <1>4, <3>1, <4>1
    <3> QED
      BY <3>2, <3>3
  <2>3. CASE m \notin {Registered, PeerOnline}
    <3>1. \/ r = Finished(p, <<>>, "retry")
          \/ m = Error("routing-id-taken") /\ r = Finished(p, <<>>, "routing-collision")
      BY <2>1, <2>3, OnMessageIs
    <3>2. m = Error("routing-id-taken") =>
            PhoneYields(c, p, P, B, s, m, Finished(p, <<>>, "routing-collision"))
      BY <1>1, <1>2, FinishingYields
    <3> HIDE DEF r
    <3>3. PhoneYields(c, p, P, B, s, m, r)
      BY <1>3, <3>1, <3>2
    <3> QED
      BY <3>3 DEF r
  <2> QED
    BY <2>2, <2>3
<1> QED
  BY <1>5, <1>6, <1>7 DEF Msg

-----------------------------------------------------------------------------
\* What is on its way.

LEMMA FramesInAre ==
  ASSUME NEW q \in Seq(Msg), NEW u \in [Socket -> Seq(Msg)], NEW e
  PROVE  /\ FramesIn(q, u, e) \in SUBSET Frames
         /\ \A g : g \in FramesIn(q, u, e) <=>
                     Frame(g) /\ (g \in In(q) \/ \E x \in Socket : x[1] = e /\ g \in In(u[x]))
<1>1. \A g : g \in FramesIn(q, u, e) <=>
               Frame(g) /\ (g \in In(q) \/ \E x \in Socket : x[1] = e /\ g \in In(u[x]))
  BY DEF FramesIn
<1>2. \A t \in Seq(Msg) : In(t) \subseteq Msg
  BY DEF In
<1>3. FramesIn(q, u, e) \subseteq Frames
  BY <1>1, <1>2 DEF Frames
<1> QED
  BY <1>1, <1>3

LEMMA ClosingTail ==
  ASSUME NEW q \in Seq(Msg), q # <<>>, Head(q) # closed, Closing(q)
  PROVE  Closing(Tail(q))
<1>1. Len(q) > 0 /\ q[Len(q)] = closed
  BY ClosingIs
<1>2. /\ Len(q) \in Nat \ {0} /\ Head(q) = q[1]
      /\ Tail(q) \in Seq(Msg) /\ Len(Tail(q)) = Len(q) - 1
      /\ \A i \in 1 .. Len(Tail(q)) : Tail(q)[i] = q[i + 1]
  BY Headed
<1>3. Len(q) # 1
  BY <1>1, <1>2
<1>4. Len(q) - 1 \in 1 .. Len(Tail(q)) /\ (Len(q) - 1) + 1 = Len(q)
  BY <1>2, <1>3
<1>5. Tail(q)[Len(Tail(q))] = closed /\ Len(Tail(q)) > 0
  BY <1>1, <1>2, <1>4
<1> QED
  BY <1>2, <1>5, ClosingIs

LEMMA FreshTail ==
  ASSUME NEW q \in Seq(Msg), q # <<>>, ~ Ends(Head(q)), NEW a, FreshFrom(q, a)
  PROVE  /\ FreshFrom(Tail(q), a)
         /\ Frame(Head(q)) => FreshFrom(Tail(q), Epoch(Head(q)))
<1> DEFINE t == Tail(q)
<1>1. /\ Len(q) \in Nat \ {0} /\ Head(q) = q[1] /\ Len(t) = Len(q) - 1
      /\ \A i \in 1 .. Len(t) : t[i] = q[i + 1]
  BY Headed
<1> HIDE DEF t
<1>2. ASSUME NEW j \in 1 .. Len(t), Frame(t[j]), \A k \in 1 .. j - 1 : ~ Ends(t[k])
      PROVE  /\ Epoch(t[j]) >= a
             /\ \A i \in 1 .. j - 1 : Frame(t[i]) => Epoch(t[i]) <= Epoch(t[j])
             /\ Frame(q[1]) => Epoch(t[j]) >= Epoch(q[1])
  <2>1. j + 1 \in 1 .. Len(q) /\ t[j] = q[j + 1] /\ 1 \in 1 .. (j + 1) - 1
    BY <1>1
  <2>2. \A k \in 1 .. (j + 1) - 1 : ~ Ends(q[k])
    <3> SUFFICES ASSUME NEW k \in 1 .. (j + 1) - 1 PROVE ~ Ends(q[k])
      OBVIOUS
    <3>1. CASE k = 1
      BY <1>1, <3>1
    <3>2. CASE k # 1
      <4>1. k - 1 \in 1 .. j - 1 /\ k - 1 \in 1 .. Len(t) /\ (k - 1) + 1 = k
        BY <1>1, <3>2
      <4>2. t[k - 1] = q[k]
        BY <1>1, <4>1
      <4> QED
        BY <1>2, <4>1, <4>2
    <3> QED
      BY <3>1, <3>2
  <2>3. /\ Epoch(q[j + 1]) >= a
        /\ \A i \in 1 .. (j + 1) - 1 : Frame(q[i]) => Epoch(q[i]) <= Epoch(q[j + 1])
    BY <1>2, <2>1, <2>2 DEF FreshFrom
  <2>4. ASSUME NEW i \in 1 .. j - 1, Frame(t[i]) PROVE Epoch(t[i]) <= Epoch(t[j])
    <3>1. i + 1 \in 1 .. (j + 1) - 1 /\ i \in 1 .. Len(t)
      BY <1>1
    <3>2. t[i] = q[i + 1]
      BY <1>1, <3>1
    <3> QED
      BY <2>1, <2>3, <2>4, <3>1, <3>2
  <2>5. Frame(q[1]) => Epoch(q[1]) <= Epoch(q[j + 1])
    BY <2>1, <2>3
  <2>6. Epoch(q[1]) <= Epoch(q[j + 1]) => Epoch(q[j + 1]) >= Epoch(q[1])
    OBVIOUS
  <2> QED
    BY <2>1, <2>3, <2>4, <2>5, <2>6
<1> QED
  BY <1>1, <1>2 DEF FreshFrom, t

LEMMA FreshCut ==
  ASSUME NEW q \in Seq(Msg), NEW n \in 0 .. Len(q), NEW a, FreshFrom(q, a)
  PROVE  FreshFrom(SubSeq(q, 1, n), a)
<1> DEFINE t == SubSeq(q, 1, n)
<1>1. Len(q) \in Nat /\ n \in Nat /\ n <= Len(q) /\ Len(t) = n /\ \A i \in 1 .. n : t[i] = q[i]
  BY Cut, LenProperties
<1> HIDE DEF t
<1>2. ASSUME NEW j \in 1 .. Len(t), Frame(t[j]), \A k \in 1 .. j - 1 : ~ Ends(t[k])
      PROVE  /\ Epoch(t[j]) >= a
             /\ \A i \in 1 .. j - 1 : Frame(t[i]) => Epoch(t[i]) <= Epoch(t[j])
  <2>1. j \in 1 .. Len(q) /\ t[j] = q[j] /\ \A k \in 1 .. j - 1 : k \in 1 .. n
    BY <1>1
  <2>2. \A k \in 1 .. j - 1 : t[k] = q[k]
    BY <1>1, <2>1
  <2> QED
    BY <1>2, <2>1, <2>2 DEF FreshFrom
<1> QED
  BY <1>2 DEF FreshFrom, t

LEMMA FreshJoin ==
  ASSUME NEW q \in Seq(Msg), NEW r \in Seq(Msg), NEW a, FreshFrom(q, a),
         \/ \A m \in In(r) : ~ Frame(m)
         \/ /\ Len(r) = 1
            /\ NoEnds(q) => /\ Epoch(r[1]) >= a
                            /\ \A m \in In(q) : Frame(m) => Epoch(m) <= Epoch(r[1])
  PROVE  FreshFrom(q \o r, a)
<1> DEFINE t == q \o r
<1>1. /\ Len(t) = Len(q) + Len(r) /\ Len(q) \in Nat /\ Len(r) \in Nat
      /\ \A i \in 1 .. Len(q) : t[i] = q[i]
      /\ \A i \in 1 .. Len(r) : t[Len(q) + i] = r[i]
  BY Joined
<1> HIDE DEF t
<1>2. ASSUME NEW j \in 1 .. Len(t), Frame(t[j]), \A k \in 1 .. j - 1 : ~ Ends(t[k])
      PROVE  /\ Epoch(t[j]) >= a
             /\ \A i \in 1 .. j - 1 : Frame(t[i]) => Epoch(t[i]) <= Epoch(t[j])
  <2>1. CASE j <= Len(q)
    <3>1. j \in 1 .. Len(q) /\ t[j] = q[j] /\ \A k \in 1 .. j - 1 : k \in 1 .. Len(q)
      BY <1>1, <2>1
    <3>2. \A k \in 1 .. j - 1 : t[k] = q[k]
      BY <1>1, <3>1
    <3> QED
      BY <1>2, <3>1, <3>2 DEF FreshFrom
  <2>2. CASE ~ (j <= Len(q))
    <3>1. j - Len(q) \in 1 .. Len(r) /\ Len(q) + (j - Len(q)) = j
      BY <1>1, <2>2
    <3>2. t[j] = r[j - Len(q)] /\ t[j] \in In(r)
      BY <1>1, <3>1 DEF In
    <3>3. Len(r) = 1 /\ t[j] = r[1] /\ j = Len(q) + 1
      BY <1>1, <1>2, <3>1, <3>2
    <3>4. \A k \in 1 .. Len(q) : k \in 1 .. j - 1 /\ t[k] = q[k]
      BY <1>1, <3>3
    <3>5. NoEnds(q)
      BY <1>2, <3>4 DEF NoEnds, In
    <3>6. Epoch(r[1]) >= a /\ \A m \in In(q) : Frame(m) => Epoch(m) <= Epoch(r[1])
      BY <1>2, <3>2, <3>5
    <3>7. \A i \in 1 .. j - 1 : i \in 1 .. Len(q)
      BY <1>1, <3>3
    <3> QED
      BY <3>3, <3>4, <3>6, <3>7 DEF In
  <2> QED
    BY <2>1, <2>2
<1> QED
  BY <1>2 DEF FreshFrom, t

LEMMA FreshEmpty ==
  ASSUME NEW a
  PROVE  FreshFrom(<<>>, a)
BY Emptied DEF FreshFrom

LEMMA NoEndsIn ==
  ASSUME NEW q, NEW r, In(q) \subseteq In(r), NoEnds(r)
  PROVE  NoEnds(q)
BY DEF NoEnds

LEMMA HeardChain ==
  ASSUME RelayTypeOK, NEW e \in End, NEW ms \in Seq(Msg), NEW R, Chain(down[e], R), Chain(ms, R),
         \A x \in In(down[e]), y \in In(ms) : <<x, y>> \in R
  PROVE  Chain(Heard(e, ms), R)
<1>1. down[e] \in Seq(Msg)
  BY DEF RelayTypeOK
<1>2. Closes(ms) \in Seq(Msg) /\ In(Closes(ms)) \subseteq In(ms)
      /\ Closes(ms) \in {<<>>, <<closed>>}
  BY ClosingIs
<1>3. closed \in Msg
  BY NoticesDiffer, NoticeIs
<1>4. Chain(Closes(ms), R)
  BY <1>2, <1>3, Emptied, Single
<1>5. Chain(down[e] \o ms, R)
  BY <1>1, Joined
<1>6. \A x \in In(down[e]), y \in In(Closes(ms)) : <<x, y>> \in R
  BY <1>2
<1> DEFINE cs == Closes(ms)
<1> HIDE DEF cs
<1>7. Chain(down[e] \o cs, R)
  BY <1>1, <1>2, <1>4, <1>6, Joined DEF cs
<1>8. Heard(e, ms) \in {down[e], down[e] \o ms, down[e] \o cs}
  BY DEF Heard, Push, cs
<1> QED
  BY <1>5, <1>7, <1>8

LEMMA HeardFresh ==
  ASSUME RelayTypeOK, NEW ms \in Seq(Msg), NEW a, FreshFrom(down["phone"], a),
         \/ \A m \in In(ms) : ~ Frame(m)
         \/ /\ Len(ms) = 1
            /\ Hears(Session) /\ NoEnds(down["phone"]) =>
                 /\ Epoch(ms[1]) >= a
                 /\ \A m \in In(down["phone"]) : Frame(m) => Epoch(m) <= Epoch(ms[1])
  PROVE  FreshFrom(Heard("phone", ms), a)
<1> DEFINE q == down["phone"]
<1>1. q \in Seq(Msg) /\ "phone" \in End
  BY DEF RelayTypeOK, End
<1>2. /\ ~ Hears(Session) => Heard("phone", ms) = q
      /\ ms = <<>> \/ Closing(q) => Heard("phone", ms) = q
      /\ Hears(Session) /\ ~ Closing(q) => Heard("phone", ms) = q \o ms
  BY <1>1, HeardIs, OwnIs
<1> HIDE DEF q
<1>3. CASE Hears(Session) /\ ~ Closing(q)
  <2>1. FreshFrom(q \o ms, a)
    BY <1>1, <1>3, FreshJoin DEF q
  <2> QED
    BY <1>2, <1>3, <2>1
<1>4. CASE ~ Hears(Session) \/ Closing(q)
  BY <1>2, <1>4 DEF q
<1> QED
  BY <1>3, <1>4

\* What the relay's messages make of the two inboxes.
LEMMA ToPhone ==
  ASSUME RelayTypeOK, NEW s \in Socket, NEW ms \in Seq(Msg), NEW ns \in Seq(Msg)
  PROVE  LET D == Delivered(s, ms, ns)
         IN  /\ D \in [End -> Seq(Msg)]
             /\ s = Session => D["phone"] = Heard("phone", ms)
             /\ s[1] = "phone" /\ s # Session => D["phone"] = down["phone"]
             /\ s[1] = "bridge" => D["phone"] = IF peers["phone"] = Session
                                                THEN Heard("phone", ns) ELSE down["phone"]
             /\ s = Dialled => D["bridge"] = Heard("bridge", ms)
             /\ s[1] = "bridge" /\ s # Dialled => D["bridge"] = down["bridge"]
             /\ s[1] = "phone" => D["bridge"] = IF peers["bridge"] = Dialled
                                                THEN Heard("bridge", ns) ELSE down["bridge"]
<1>1. /\ Delivered(s, ms, ns) \in [End -> Seq(Msg)] /\ "phone" \in End /\ "bridge" \in End
      /\ Delivered(s, ms, ns)["phone"] = Heard("phone", Brought("phone", s, ms, ns))
      /\ Delivered(s, ms, ns)["bridge"] = Heard("bridge", Brought("bridge", s, ms, ns))
  BY DeliveredIs DEF End
<1>2. <<>> \in Seq(Msg)
  BY Emptied
<1>3. Heard("phone", <<>>) = down["phone"] /\ Heard("bridge", <<>>) = down["bridge"]
  BY <1>1, <1>2, HeardIs
<1>4. Own("bridge") = Dialled /\ Own("phone") = Session /\ Dialled[1] = "bridge" /\ Session[1] = "phone"
  BY OwnIs
<1>5. s[1] = "phone" => /\ Brought("phone", s, ms, ns) = IF s = Session THEN ms ELSE <<>>
                        /\ Brought("bridge", s, ms, ns) = IF peers["bridge"] = Dialled THEN ns ELSE <<>>
  BY <1>4 DEF Brought
<1>6. s[1] = "bridge" => /\ Brought("bridge", s, ms, ns) = IF s = Dialled THEN ms ELSE <<>>
                         /\ Brought("phone", s, ms, ns) = IF peers["phone"] = Session THEN ns ELSE <<>>
  BY <1>4 DEF Brought
<1> QED
  BY <1>1, <1>3, <1>4, <1>5, <1>6

LEMMA InPhone ==
  ASSUME RelayTypeOK, NEW ms \in Seq(Msg)
  PROVE  LET q == Heard("phone", ms)
         IN  /\ q \in Seq(Msg) /\ In(down["phone"]) \subseteq In(q)
             /\ In(q) \subseteq In(down["phone"]) \cup In(ms)
             /\ ~ Hears(Session) => q = down["phone"]
             /\ Hears(Session) => Closing(down["phone"]) \/ In(ms) \subseteq In(q)
<1>1. "phone" \in End /\ Own("phone") = Session /\ (HearsClose(Session) <=> Hears(Session))
      /\ down["phone"] \in Seq(Msg)
  BY OwnIs DEF End, RelayTypeOK
<1>2. In(down["phone"] \o ms) = In(down["phone"]) \cup In(ms)
  BY <1>1, JoinedIn
<1> QED
  BY <1>1, <1>2, HeardIs

LEMMA InBridge ==
  ASSUME RelayTypeOK, NEW ms \in Seq(Msg)
  PROVE  LET q == Heard("bridge", ms)
         IN  /\ q \in Seq(Msg) /\ In(down["bridge"]) \subseteq In(q)
             /\ In(q) \subseteq In(down["bridge"]) \cup In(ms)
             /\ ~ Hears(Dialled) => In(q) \subseteq In(down["bridge"]) \cup {closed}
             /\ ~ HearsClose(Dialled) => q = down["bridge"]
             /\ Hears(Dialled) => Closing(down["bridge"]) \/ In(ms) \subseteq In(q)
<1>1. "bridge" \in End /\ Own("bridge") = Dialled /\ down["bridge"] \in Seq(Msg)
  BY OwnIs DEF End, RelayTypeOK
<1>2. In(down["bridge"] \o ms) = In(down["bridge"]) \cup In(ms)
  BY <1>1, Joined
<1>3. Hears(Dialled) => HearsClose(Dialled)
  BY DEF HearsClose
<1>4. LET q == Heard("bridge", ms)
      IN  /\ q \in Seq(Msg) /\ In(down["bridge"]) \subseteq In(q)
          /\ In(q) \subseteq In(down["bridge"]) \cup In(ms)
          /\ Hears(Dialled) /\ ~ Closing(down["bridge"]) => q = down["bridge"] \o ms
  BY <1>1, HeardIs
<1>5. /\ ~ Hears(Dialled) => In(Heard("bridge", ms)) \subseteq In(down["bridge"]) \cup {closed}
      /\ ~ HearsClose(Dialled) => Heard("bridge", ms) = down["bridge"]
  BY <1>1, <1>3, HeardIs
<1> QED
  BY <1>2, <1>4, <1>5

LEMMA TakenIs ==
  ASSUME RelayTypeOK, NEW s \in Socket, NEW q \in Seq(Msg), up' = [up EXCEPT ![s] = q]
  PROVE  up' \in [Socket -> Seq(Msg)] /\ up'[s] = q /\ \A x \in Socket : x # s => up'[x] = up[x]
BY DEF RelayTypeOK

-----------------------------------------------------------------------------
\* The relay's messages keep the invariant. A message of the relay leaves the two objects,
\* and with them the sessions, as they are.

LEMMA Standing ==
  ASSUME connector' = connector, phone' = phone
  PROVE  Dialled' = Dialled /\ Session' = Session /\ (Live' <=> Live) /\ Live' = Live
BY DEF Dialled, Session, Live

LEMMA LiveIs ==
  ASSUME RelayTypeOK
  PROVE  /\ Live <=> Hears(Session)
         /\ Live => Session \in Socket
BY OwnIs DEF Live, RelayTypeOK, Phone, Phases

\* The oldest message of a socket.
LEMMA HeadIs ==
  ASSUME RelayTypeOK, Queues, NEW s \in Socket, up[s] # <<>>
  PROVE  LET q == up[s]
         IN  /\ q \in Seq(Msg) /\ Head(q) \in Msg /\ Head(q) \in In(q)
             /\ Tail(q) \in Seq(Msg) /\ In(Tail(q)) \subseteq In(q)
             /\ In(q) = {Head(q)} \cup In(Tail(q))
             /\ \A R : Chain(q, R) => Chain(Tail(q), R)
             /\ \A R : Chain(q, R) => \A m \in In(Tail(q)) : <<Head(q), m>> \in R
             /\ Register \notin In(Tail(q))
             /\ Head(q) # Register => /\ Register \notin In(q)
                                      /\ \A m \in In(q) : Frame(m) => peers[s[1]] = s
             /\ Head(q) = Register => peers[s[1]] # s
<1> DEFINE q == up[s]
<1>1. q \in Seq(Msg) /\ q # <<>>
  BY DEF RelayTypeOK
<1>2. /\ Chain(q, NotRegister) /\ (Register \in In(q) => peers[s[1]] # s)
      /\ \A m \in In(q) : Frame(m) => \/ peers[s[1]] = s
                                      \/ (s[1] = "bridge" /\ m.type = "relay/data" /\ Register \in In(q))
  BY DEF Queues
<1> HIDE DEF q
<1>3. /\ Head(q) \in Msg /\ Head(q) \in In(q)
      /\ Tail(q) \in Seq(Msg) /\ In(Tail(q)) \subseteq In(q)
      /\ In(q) = {Head(q)} \cup In(Tail(q))
  BY <1>1, Headed
<1>4. \A R : /\ Chain(q, R) => Chain(Tail(q), R)
             /\ Chain(q, R) => \A m \in In(Tail(q)) : <<Head(q), m>> \in R
  BY <1>1, Headed
<1>5. Register \notin In(Tail(q))
  <2>1. \A m \in In(Tail(q)) : <<Head(q), m>> \in NotRegister
    BY <1>2, <1>4
  <2> QED
    BY <2>1 DEF NotRegister
<1> QED
  BY <1>2, <1>3, <1>4, <1>5 DEF q

\* The sessions and the transcripts stand when frames are only moved or lost.
LEMMA MovedAgree ==
  ASSUME RelayTypeOK, RelayTypeOK', connector' = connector, phone' = phone,
         PhoneSent' \subseteq PhoneSent, BridgeSent' \subseteq BridgeSent,
         NEW s, Agreed(connector, phone, PhoneSent, BridgeSent, s)
  PROVE  Agreed(connector, phone, PhoneSent, BridgeSent, s)'
<1>1. connector \in Connector /\ phone \in Phone
  BY DEF RelayTypeOK
<1>2. PhoneSent \in SUBSET Frames /\ BridgeSent \in SUBSET Frames
  <2>1. /\ up \in [Socket -> Seq(Msg)] /\ down["bridge"] \in Seq(Msg) /\ down["phone"] \in Seq(Msg)
    BY EndIs DEF RelayTypeOK
  <2> QED
    BY <2>1, FramesInAre DEF PhoneSent, BridgeSent
<1>3. SameCore(connector, connector) /\ SameSession(phone, phone)
  BY DEF SameCore, SameSession
<1>4. Agreed(connector, phone, PhoneSent', BridgeSent', s)
  BY <1>1, <1>2, <1>3, FewerAgree
<1> QED
  BY <1>4

LEMMA FewerMutual ==
  ASSUME NEW c, NEW p \in Phone, NEW P, NEW Q, NEW B \in SUBSET Frames, NEW C \in SUBSET B, Mutual(c, p, P, B),
         \A g \in P : g = Handshake(p.n, <<p.n, p.peerEphemeral>>) => g \in Q
  PROVE  Mutual(c, p, Q, C)
<1>1. C \in SUBSET Frames
  OBVIOUS
<1>2. \A x \in Said(p, C) : x \in Said(p, B)
  <2>1. \A x : x \in Said(p, B) <=> x # None /\ (x = p.channel \/ \E k \in Greetings(B) : k.sig = x)
    BY SaidIs
  <2>2. \A x : x \in Said(p, C) <=> x # None /\ (x = p.channel \/ \E k \in Greetings(C) : k.sig = x)
    BY <1>1, SaidIs
  <2>3. Greetings(C) \subseteq Greetings(B)
    BY DEF Greetings
  <2> QED
    BY <2>1, <2>2, <2>3
<1> QED
  BY <1>2 DEF Mutual

\* What every message of the relay has in common: what becomes
\* of the sockets and the peers,
PeersMove(s) ==
  /\ open' \subseteq open
  /\ \A e \in End : peers'[e] # None => peers'[e] \in open' /\ peers'[e][1] = e
  /\ \/ peers' = peers
     \/ peers' = [peers EXCEPT ![s[1]] = None] /\ peers[s[1]] = s
     \/ peers' = [peers EXCEPT ![s[1]] = s] /\ peers[s[1]] = None /\ Register \notin In(up'[s])
  /\ Live /\ peers'["phone"] = Session => peers["phone"] = Session \/ phone.phase = "registering"

\* of what the sockets bring,
QueuesMove(s) ==
  /\ \A x \in Socket : x # s => up'[x] = up[x]
  /\ In(up'[s]) \subseteq In(up[s]) \cup {closed}
  /\ Chain(up'[s], NotRegister) /\ (s[1] = "bridge" => Chain(up'[s], Newer))
  /\ \A m \in In(up'[s]) : Frame(m) => peers'[s[1]] = s \/ Register \in In(up'[s])

\* of the two inboxes,
InboxesMove(s) ==
  /\ ~ HearsClose(Dialled) => down'["bridge"] = down["bridge"]
  /\ ~ Hears(Dialled) => In(down'["bridge"]) \subseteq In(down["bridge"]) \cup {closed}
  /\ ~ Hears(Session) => down'["phone"] = down["phone"]
  /\ Chain(down'["bridge"], Later)
  /\ \A m \in In(down'["bridge"]) : Frame(m) =>
       m \in In(down["bridge"]) \/ (s[1] = "phone" /\ m \in In(up[s]) /\ peers["phone"] = s)
  /\ \A m \in In(down'["phone"]) : Frame(m) =>
       m \in In(down["phone"]) \/ (s[1] = "bridge" /\ m \in In(up[s]))
  /\ peers'["phone"] = Session /\ PeerOffline \in In(down'["bridge"]) =>
       PeerOffline \in In(down["bridge"])
  /\ peers'["phone"] = Session /\ Chain(down["bridge"], Staying(phone.n)) =>
       Chain(down'["bridge"], Staying(phone.n))
  /\ Error("routing-id-taken") \in In(down'["phone"]) =>
       Error("routing-id-taken") \in In(down["phone"]) \/ phone.n > 1

\* and of the two ends, when they still face each other.
FacingMoves ==
  Facing' => /\ Facing \/ Mutual(connector, phone, PhoneSent, BridgeSent)
             /\ \A g \in In(down["bridge"]) \cup In(up[Session]) :
                  Frame(g) => g \in In(down'["bridge"]) \cup In(up'[Session])

LEMMA AfterRelay ==
  ASSUME RelayInv, RelayTypeOK', connector' = connector, phone' = phone, NEW s \in Socket,
         PeersMove(s), QueuesMove(s), InboxesMove(s), FacingMoves,
         BridgeTold', PhoneTold', Fresh'
  PROVE  RelayInv'
<1>0. /\ \A x \in Socket : x # s => up'[x] = up[x]
      /\ In(up'[s]) \subseteq In(up[s]) \cup {closed}
      /\ Chain(up'[s], NotRegister) /\ (s[1] = "bridge" => Chain(up'[s], Newer))
      /\ \A m \in In(up'[s]) : Frame(m) => peers'[s[1]] = s \/ Register \in In(up'[s])
  BY DEF QueuesMove
<1>1. RelayTypeOK /\ Sockets /\ Queues /\ Ordered /\ Accusing
  BY DEF RelayInv
<1>2. /\ up \in [Socket -> Seq(Msg)] /\ up' \in [Socket -> Seq(Msg)]
      /\ down \in [End -> Seq(Msg)] /\ down' \in [End -> Seq(Msg)]
      /\ peers \in [End -> Socket \cup {None}] /\ connector \in Connector /\ phone \in Phone
  BY <1>1 DEF RelayTypeOK
<1>3. Dialled' = Dialled /\ Session' = Session /\ Live' = Live
  BY Standing
<1>4. \A x \in Socket : \A m \in In(up'[x]) : Frame(m) => m \in In(up[x])
  <2>1. ~ Frame(closed)
    BY NoticesDiffer, NoticeIs
  <2> QED
    BY <1>0, <2>1
<1>5. "phone" \in End /\ "bridge" \in End /\ s[1] \in End /\ s # None /\ Register # closed
  BY SocketIs, NoticesDiffer DEF End
<1>6. Sockets'
  <2>1. /\ Own("bridge") = Dialled /\ Own("phone") = Session
        /\ Hears(Dialled) <=> connector.link = "open" /\ ~ connector.stopped
        /\ Hears(Session) <=> phone.phase \notin {"idle", "opening", "closed"}
        /\ HearsClose(Dialled) <=> connector.link \in {"open", "closing"} /\ ~ connector.stopped
    BY <1>1, OwnIs
  <2>2. \A x \in open' : x[2] <= Own(x[1])'[2]
    <3>1. \A x \in open : x[2] <= Own(x[1])[2]
      BY <1>1 DEF Sockets
    <3>2. \A e : Own(e)' = Own(e)
      BY <1>3 DEF Own
    <3> QED
      BY <3>1, <3>2 DEF PeersMove
  <2>3. /\ connector.link \in {"none", "dialing"} => Dialled \notin open' /\ down'["bridge"] = <<>>
        /\ connector.link = "closing" => In(down'["bridge"]) \subseteq {closed}
        /\ connector.stopped => connector.link \in {"closing", "closed"}
        /\ phone.phase \in {"idle", "opening"} => Session \notin open'
        /\ phone.phase \in {"idle", "opening", "closed"} => down'["phone"] = <<>>
    BY <1>1, <2>1 DEF Sockets, PeersMove, InboxesMove
  <2> QED
    BY <1>3, <2>2, <2>3 DEF Sockets, PeersMove
<1>7. Queues'
  <2> SUFFICES ASSUME NEW x \in Socket
               PROVE  /\ Chain(up'[x], NotRegister)
                      /\ Register \in In(up'[x]) => peers'[x[1]] # x
                      /\ \A m \in In(up'[x]) : Frame(m) =>
                           /\ \/ peers'[x[1]] = x
                              \/ x[1] = "bridge" /\ m.type = "relay/data" /\ Register \in In(up'[x])
                           /\ x[1] = "phone" => Author(m) = x[2]
    BY DEF Queues
  <2>1. /\ Chain(up[x], NotRegister)
        /\ Register \in In(up[x]) => peers[x[1]] # x
        /\ \A m \in In(up[x]) : Frame(m) =>
             /\ \/ peers[x[1]] = x
                \/ x[1] = "bridge" /\ m.type = "relay/data" /\ Register \in In(up[x])
             /\ x[1] = "phone" => Author(m) = x[2]
    BY <1>1 DEF Queues
  <2>2. x[1] \in End /\ x # None
    BY SocketIs
  <2>3. CASE x = s
    <3>1. Register \in In(up'[s]) => peers'[s[1]] # s
      <4>1. Register \in In(up'[s]) => Register \in In(up[s])
        BY <1>0, <1>5
      <4> QED
        BY <1>2, <1>5, <2>1, <2>3, <4>1 DEF PeersMove
    <3>2. ASSUME NEW m \in In(up'[s]), Frame(m)
          PROVE  /\ \/ peers'[s[1]] = s
                    \/ s[1] = "bridge" /\ m.type = "relay/data" /\ Register \in In(up'[s])
                 /\ s[1] = "phone" => Author(m) = s[2]
      <4>1. m \in In(up[s])
        BY <1>4, <3>2
      <4>2. Register \in In(up'[s]) => peers[s[1]] # s
        BY <1>0, <1>5, <2>1, <2>3
      <4> QED
        BY <1>0, <2>1, <2>3, <3>2, <4>1, <4>2
    <3> QED
      BY <1>0, <2>3, <3>1, <3>2
  <2>4. CASE x # s
    <3>1. up'[x] = up[x]
      BY <1>0, <2>4
    <3>2. peers'[x[1]] = x <=> peers[x[1]] = x
      BY <1>2, <1>5, <2>2, <2>4 DEF PeersMove
    <3> QED
      BY <2>1, <3>1, <3>2
  <2> QED
    BY <2>3, <2>4
<1>8. Ordered'
  <2>1. \A x \in Socket : x[1] = "bridge" => Chain(up'[x], Newer)
    BY <1>0, <1>1 DEF Ordered
  <2>2. ASSUME NEW x \in Socket, x[1] = "phone", NEW m \in In(up'[x]), NEW k \in In(down'["bridge"]),
               Frame(m), Frame(k)
        PROVE  Author(k) <= x[2]
    <3>1. m \in In(up[x])
      BY <1>4, <2>2
    <3>2. CASE k \in In(down["bridge"])
      BY <1>1, <2>2, <3>1, <3>2 DEF Ordered
    <3>3. CASE s[1] = "phone" /\ k \in In(up[s]) /\ peers["phone"] = s
      <4>1. Author(k) = s[2]
        BY <1>1, <2>2, <3>3 DEF Queues
      <4>2. peers[x[1]] = x
        BY <1>1, <2>2, <3>1 DEF Queues
      <4>3. x = s /\ s[2] \in Nat
        <5>1. x = s
          BY <2>2, <3>3, <4>2
        <5> QED
          BY <5>1, SocketIs, <3>3
      <4> QED
        BY <4>1, <4>3
    <3> QED
      BY <2>2, <3>2, <3>3 DEF InboxesMove
  <2> QED
    BY <2>1, <2>2 DEF Ordered, InboxesMove
<1>9. PhoneSent' \subseteq PhoneSent /\ BridgeSent' \subseteq BridgeSent
  <2>1. \A g : g \in PhoneSent <=>
                 Frame(g) /\ (g \in In(down["bridge"]) \/ \E x \in Socket : x[1] = "phone" /\ g \in In(up[x]))
    BY DEF PhoneSent, FramesIn
  <2>2. \A g : g \in BridgeSent <=>
                 Frame(g) /\ (g \in In(down["phone"]) \/ \E x \in Socket : x[1] = "bridge" /\ g \in In(up[x]))
    BY DEF BridgeSent, FramesIn
  <2> DEFINE a == down'["bridge"]
             b == down'["phone"]
             u == up'
  <2>9. PhoneSent' = FramesIn(a, u, "phone") /\ BridgeSent' = FramesIn(b, u, "bridge")
    BY DEF PhoneSent, BridgeSent, FramesIn
  <2> HIDE DEF a, b, u
  <2>3. \A g : g \in FramesIn(a, u, "phone") <=>
                 Frame(g) /\ (g \in In(a) \/ \E x \in Socket : x[1] = "phone" /\ g \in In(u[x]))
    BY DEF FramesIn
  <2>4. \A g : g \in FramesIn(b, u, "bridge") <=>
                 Frame(g) /\ (g \in In(b) \/ \E x \in Socket : x[1] = "bridge" /\ g \in In(u[x]))
    BY DEF FramesIn
  <2>5. PhoneSent' \subseteq PhoneSent
    BY <1>4, <2>1, <2>3, <2>9 DEF a, u, InboxesMove
  <2>6. BridgeSent' \subseteq BridgeSent
    BY <1>4, <2>2, <2>4, <2>9 DEF b, u, InboxesMove
  <2> QED
    BY <2>5, <2>6
<1>10. Accusing'
  BY <1>1 DEF Accusing, InboxesMove
<1>11. PICK t \in 0 .. MaxSessions : Agreed(connector, phone, PhoneSent, BridgeSent, t) /\ Present(t)
  BY DEF RelayInv
<1>12. Agreed(connector, phone, PhoneSent, BridgeSent, t)'
  BY <1>1, <1>9, <1>11, MovedAgree
<1>13. Present(t)'
  <2> SUFFICES ASSUME Live, peers'["phone"] = Session
               PROVE  /\ t = phone.n => PeerOffline \notin In(down'["bridge"])
                      /\ Chain(down'["bridge"], Staying(phone.n))
    BY <1>3 DEF Present
  <2>1. CASE peers["phone"] = Session
    <3>1. /\ t = phone.n => PeerOffline \notin In(down["bridge"])
          /\ Chain(down["bridge"], Staying(phone.n))
      BY <1>11, <2>1 DEF Present
    <3> QED
      BY <3>1 DEF InboxesMove
  <2>2. CASE peers["phone"] # Session /\ phone.phase = "registering"
    <3>1. t < phone.n /\ \A m \in PhoneSent : Author(m) # phone.n
      BY <1>11, <2>2 DEF Agreed, Answered
    <3>2. t # phone.n
      BY <1>2, <3>1, RelayAssumption DEF Phone
    <3>3. \A g \in In(down["bridge"]) : Frame(g) => Author(g) # phone.n
      BY <3>1 DEF PhoneSent, FramesIn
    <3>4. Chain(down["bridge"], Staying(phone.n))
      <4>1. \A i \in 1 .. Len(down["bridge"]) : down["bridge"][i] \in In(down["bridge"])
        BY DEF In
      <4>2. \A i \in 1 .. Len(down["bridge"]) : down["bridge"][i] \in Msg
        BY <1>2, <1>5
      <4> QED
        BY <3>3, <4>1, <4>2 DEF Chain, Staying
    <3> QED
      BY <2>2, <3>2, <3>4 DEF InboxesMove
  <2> QED
    BY <2>1, <2>2 DEF PeersMove
<1>14. Paired'
  <2> SUFFICES ASSUME Facing'
               PROVE  Mutual(connector, phone, PhoneSent', BridgeSent')
    <3>1. Mutual(connector, phone, PhoneSent, BridgeSent)' =
            Mutual(connector, phone, PhoneSent', BridgeSent')
      OBVIOUS
    <3> QED
      BY <3>1 DEF Paired
  <2>1. Mutual(connector, phone, PhoneSent, BridgeSent)
    BY DEF RelayInv, Paired, FacingMoves
  <2>2. BridgeSent \in SUBSET Frames /\ PhoneSent \in SUBSET Frames
    BY <1>2, <1>5, FramesInAre DEF BridgeSent, PhoneSent
  <2>3. ASSUME NEW g \in PhoneSent, g = Handshake(phone.n, <<phone.n, phone.peerEphemeral>>)
        PROVE  g \in PhoneSent'
    <3>1. phone.n \in Nat /\ <<phone.n, phone.peerEphemeral>> \in Keys \cup {None}
      BY <1>2, RelayAssumption DEF Phone, Keys
    <3>2. Frame(g) /\ Author(g) = phone.n
      BY <2>3, <3>1, GreetingIs
    <3>3. g \in In(down["bridge"]) \/ \E x \in Socket : x[1] = "phone" /\ g \in In(up[x])
      BY DEF PhoneSent, FramesIn
    <3>4. g \in In(down["bridge"]) \cup In(up[Session])
      <4> SUFFICES ASSUME NEW x \in Socket, x[1] = "phone", g \in In(up[x])
                   PROVE  g \in In(up[Session])
        BY <3>3
      <4>1. x[2] = phone.n
        BY <1>1, <3>2 DEF Queues
      <4>2. x = Session
        BY <4>1, SocketIs DEF Session
      <4> QED
        BY <4>2
    <3>5. g \in In(down'["bridge"]) \cup In(up'[Session])
      BY <3>2, <3>4 DEF FacingMoves
    <3>6. Live
      BY <1>3 DEF Facing
    <3>7. Session \in Socket /\ Session[1] = "phone"
      BY <1>1, <3>6, LiveIs, OwnIs
    <3> QED
      BY <3>2, <3>5, <3>7 DEF PhoneSent, FramesIn
  <2> DEFINE P == PhoneSent'
             B == BridgeSent'
  <2>4. B \in SUBSET BridgeSent /\ \A g \in PhoneSent :
          g = Handshake(phone.n, <<phone.n, phone.peerEphemeral>>) => g \in P
    BY <1>9, <2>3
  <2> HIDE DEF P, B
  <2>5. Mutual(connector, phone, P, B)
    BY <1>2, <2>1, <2>2, <2>4, FewerMutual
  <2> QED
    BY <2>5 DEF P, B
<1> QED
  BY <1>6, <1>7, <1>8, <1>10, <1>11, <1>12, <1>13, <1>14 DEF RelayInv

LEMMA InboxesAre ==
  ASSUME RelayTypeOK, NEW s \in Socket, NEW ms \in Seq(Msg), NEW ns \in Seq(Msg),
         down' = Delivered(s, ms, ns)
  PROVE  /\ down' \in [End -> Seq(Msg)]
         /\ ~ HearsClose(Dialled) => down'["bridge"] = down["bridge"]
         /\ ~ Hears(Dialled) => In(down'["bridge"]) \subseteq In(down["bridge"]) \cup {closed}
         /\ ~ Hears(Session) => down'["phone"] = down["phone"]
         /\ In(down["bridge"]) \subseteq In(down'["bridge"])
         /\ In(down["phone"]) \subseteq In(down'["phone"])
         /\ In(down'["bridge"]) \subseteq In(down["bridge"]) \cup
              (IF s = Dialled THEN In(ms)
               ELSE IF s[1] = "phone" /\ peers["bridge"] = Dialled THEN In(ns) ELSE {})
         /\ In(down'["phone"]) \subseteq In(down["phone"]) \cup
              (IF s = Session THEN In(ms)
               ELSE IF s[1] = "bridge" /\ peers["phone"] = Session THEN In(ns) ELSE {})
         /\ Hears(Session) /\ ~ Closing(down["phone"]) =>
              /\ s = Session => In(ms) \subseteq In(down'["phone"])
              /\ s[1] = "bridge" /\ peers["phone"] = Session => In(ns) \subseteq In(down'["phone"])
         /\ Hears(Dialled) /\ ~ Closing(down["bridge"]) /\ s[1] = "phone" /\ peers["bridge"] = Dialled =>
              In(ns) \subseteq In(down'["bridge"])
         /\ \A R : /\ Chain(down["bridge"], R)
                   /\ s = Dialled => Chain(ms, R) /\ \A x \in In(down["bridge"]), y \in In(ms) : <<x, y>> \in R
                   /\ s[1] = "phone" /\ peers["bridge"] = Dialled =>
                        Chain(ns, R) /\ \A x \in In(down["bridge"]), y \in In(ns) : <<x, y>> \in R
                   => Chain(down'["bridge"], R)
         /\ \A a : /\ FreshFrom(down["phone"], a)
                   /\ s = Session => \A m \in In(ms) : ~ Frame(m)
                   /\ s[1] = "bridge" /\ peers["phone"] = Session =>
                        \/ \A m \in In(ns) : ~ Frame(m)
                        \/ /\ Len(ns) = 1
                           /\ Hears(Session) /\ NoEnds(down["phone"]) =>
                                /\ Epoch(ns[1]) >= a
                                /\ \A m \in In(down["phone"]) : Frame(m) => Epoch(m) <= Epoch(ns[1])
                   => FreshFrom(down'["phone"], a)
<1> DEFINE D == down'
           b == Heard("bridge", IF s = Dialled THEN ms ELSE ns)
           f == Heard("phone", IF s = Session THEN ms ELSE ns)
           fromBridge == s[1] = "bridge" /\ peers["phone"] = Session
           fromPhone  == s[1] = "phone" /\ peers["bridge"] = Dialled
<1>1. /\ D \in [End -> Seq(Msg)]
      /\ s = Session => D["phone"] = Heard("phone", ms)
      /\ s[1] = "phone" /\ s # Session => D["phone"] = down["phone"]
      /\ s[1] = "bridge" => D["phone"] = IF peers["phone"] = Session
                                         THEN Heard("phone", ns) ELSE down["phone"]
      /\ s = Dialled => D["bridge"] = Heard("bridge", ms)
      /\ s[1] = "bridge" /\ s # Dialled => D["bridge"] = down["bridge"]
      /\ s[1] = "phone" => D["bridge"] = IF peers["bridge"] = Dialled
                                         THEN Heard("bridge", ns) ELSE down["bridge"]
  BY ToPhone
<1>2. /\ s[1] \in {"bridge", "phone"} /\ (s = Session => s[1] = "phone") /\ (s = Dialled => s[1] = "bridge")
      /\ (Hears(Dialled) => HearsClose(Dialled)) /\ "bridge" \in End /\ "phone" \in End
  BY SocketIs, OwnIs DEF End, HearsClose
<1> HIDE DEF D
<1>3. /\ D["bridge"] = IF s = Dialled \/ fromPhone THEN b ELSE down["bridge"]
      /\ D["phone"] = IF s = Session \/ fromBridge THEN f ELSE down["phone"]
  BY <1>1, <1>2
<1>4. /\ In(down["bridge"]) \subseteq In(b)
      /\ In(b) \subseteq In(down["bridge"]) \cup In(IF s = Dialled THEN ms ELSE ns)
      /\ ~ Hears(Dialled) => In(b) \subseteq In(down["bridge"]) \cup {closed}
      /\ ~ HearsClose(Dialled) => b = down["bridge"]
      /\ Hears(Dialled) => Closing(down["bridge"]) \/ In(IF s = Dialled THEN ms ELSE ns) \subseteq In(b)
  BY InBridge
<1>5. /\ In(down["phone"]) \subseteq In(f)
      /\ In(f) \subseteq In(down["phone"]) \cup In(IF s = Session THEN ms ELSE ns)
      /\ ~ Hears(Session) => f = down["phone"]
      /\ Hears(Session) => Closing(down["phone"]) \/ In(IF s = Session THEN ms ELSE ns) \subseteq In(f)
  BY InPhone
<1>6. ASSUME NEW R, Chain(down["bridge"], R),
             s = Dialled => Chain(ms, R) /\ \A x \in In(down["bridge"]), y \in In(ms) : <<x, y>> \in R,
             fromPhone => Chain(ns, R) /\ \A x \in In(down["bridge"]), y \in In(ns) : <<x, y>> \in R
      PROVE  Chain(D["bridge"], R)
  <2>1. CASE s = Dialled
    <3>1. Chain(Heard("bridge", ms), R)
      BY <1>2, <1>6, <2>1, HeardChain
    <3> QED
      BY <1>1, <2>1, <3>1
  <2>2. CASE fromPhone
    <3>1. Chain(Heard("bridge", ns), R)
      BY <1>2, <1>6, <2>2, HeardChain
    <3> QED
      BY <1>1, <2>2, <3>1
  <2>3. CASE s # Dialled /\ ~ fromPhone
    BY <1>3, <1>6, <2>3
  <2> QED
    BY <2>1, <2>2, <2>3
<1>7. ASSUME NEW a, FreshFrom(down["phone"], a), s = Session => \A m \in In(ms) : ~ Frame(m),
             fromBridge =>
               \/ \A m \in In(ns) : ~ Frame(m)
               \/ /\ Len(ns) = 1
                  /\ Hears(Session) /\ NoEnds(down["phone"]) =>
                       /\ Epoch(ns[1]) >= a
                       /\ \A m \in In(down["phone"]) : Frame(m) => Epoch(m) <= Epoch(ns[1])
      PROVE  FreshFrom(D["phone"], a)
  <2>1. CASE s = Session
    <3>1. FreshFrom(Heard("phone", ms), a)
      BY <1>7, <2>1, HeardFresh
    <3> QED
      BY <1>1, <2>1, <3>1
  <2>2. CASE fromBridge
    <3>1. FreshFrom(Heard("phone", ns), a)
      BY <1>7, <2>2, HeardFresh
    <3> QED
      BY <1>1, <2>2, <3>1
  <2>3. CASE s # Session /\ ~ fromBridge
    BY <1>3, <1>7, <2>3
  <2> QED
    BY <2>1, <2>2, <2>3
<1> HIDE DEF b, f
<1>8. /\ ~ HearsClose(Dialled) => D["bridge"] = down["bridge"]
      /\ ~ Hears(Dialled) => In(D["bridge"]) \subseteq In(down["bridge"]) \cup {closed}
      /\ ~ Hears(Session) => D["phone"] = down["phone"]
      /\ In(down["bridge"]) \subseteq In(D["bridge"]) /\ In(down["phone"]) \subseteq In(D["phone"])
  BY <1>2, <1>3, <1>4, <1>5
<1>9. /\ In(D["bridge"]) \subseteq In(down["bridge"]) \cup
           (IF s = Dialled THEN In(ms) ELSE IF fromPhone THEN In(ns) ELSE {})
      /\ In(D["phone"]) \subseteq In(down["phone"]) \cup
           (IF s = Session THEN In(ms) ELSE IF fromBridge THEN In(ns) ELSE {})
  BY <1>2, <1>3, <1>4, <1>5
<1>10. /\ Hears(Session) /\ ~ Closing(down["phone"]) =>
            /\ s = Session => In(ms) \subseteq In(D["phone"])
            /\ fromBridge => In(ns) \subseteq In(D["phone"])
       /\ Hears(Dialled) /\ ~ Closing(down["bridge"]) /\ fromPhone => In(ns) \subseteq In(D["bridge"])
  BY <1>2, <1>3, <1>4, <1>5
<1> QED
  BY <1>1, <1>6, <1>7, <1>8, <1>9, <1>10 DEF D

\* Facts about the messages of the relay, used by every case.
LEMMA RelaySays ==
  /\ \A m \in {closed, Register, Registered, PeerOnline, PeerOffline, Error("routing-id-taken"),
               Error("quota-exceeded"), Error("peer-offline")} : m \in Msg /\ ~ Frame(m)
  /\ Ends(closed) /\ Ends(PeerOffline) /\ ~ Ends(Registered) /\ ~ Ends(PeerOnline)
  /\ \A c \in {"routing-id-taken", "quota-exceeded", "peer-offline"} : Ends(Error(c))
  /\ \A R : \A x \in Msg, y \in Msg : ~ Frame(y) => <<x, y>> \in Later /\ <<x, y>> \in Newer
BY NoticesDiffer, NoticeIs DEF Later, Newer

\* relay/register of a routing id that is taken.
LEMMA RefusedKeeps ==
  ASSUME RelayInv, NEW s \in open, up[s] # <<>>, Head(up[s]) = Register, peers[s[1]] # None,
         open' = open \ {s}, up' = [up EXCEPT ![s] = <<>>],
         down' = Delivered(s, <<Error("routing-id-taken"), closed>>, <<>>), peers' = peers,
         connector' = connector, phone' = phone,
         backend' = backend, greeted' = greeted, carriedOver' = carriedOver,
         faults' = faults, overQuota' = overQuota
  PROVE  RelayInv'
<1> DEFINE taken == Error("routing-id-taken")
           ms == <<taken, closed>>
<1>1. RelayTypeOK /\ Sockets /\ Queues /\ BridgeTold /\ PhoneTold /\ Ordered /\ Fresh /\ Paired /\ Accusing
  BY DEF RelayInv
<1>2. /\ up \in [Socket -> Seq(Msg)] /\ down \in [End -> Seq(Msg)] /\ open \subseteq Socket
      /\ peers \in [End -> Socket \cup {None}] /\ connector \in Connector /\ phone \in Phone
      /\ s \in Socket /\ s[1] \in End /\ s # None
  BY <1>1, SocketIs DEF RelayTypeOK
<1>3. /\ taken \in Msg /\ closed \in Msg /\ ~ Frame(taken) /\ ~ Frame(closed) /\ Ends(closed)
      /\ taken # PeerOffline /\ closed # PeerOffline
      /\ <<>> \in Seq(Msg) /\ In(<<>>) = {} /\ (\A R : Chain(<<>>, R))
  BY RelaySays, NoticesDiffer, Emptied
<1>4. ms \in Seq(Msg) /\ In(ms) = {taken, closed}
  <2> HIDE DEF taken
  <2> QED
    BY <1>3, Two
<1>5. \A R : <<taken, closed>> \in R => Chain(ms, R)
  <2> HIDE DEF taken
  <2> QED
    BY <1>3, Two
<1> HIDE DEF ms, taken
<1>6. down' = Delivered(s, ms, <<>>)
  BY DEF ms, taken
<1> DEFINE a == down'["bridge"]
           b == down'["phone"]
<1>7. /\ down' \in [End -> Seq(Msg)]
      /\ ~ HearsClose(Dialled) => a = down["bridge"]
      /\ ~ Hears(Dialled) => In(a) \subseteq In(down["bridge"]) \cup {closed}
      /\ ~ Hears(Session) => b = down["phone"]
      /\ In(down["bridge"]) \subseteq In(a) /\ In(down["phone"]) \subseteq In(b)
      /\ In(a) \subseteq In(down["bridge"]) \cup (IF s = Dialled THEN In(ms) ELSE {})
      /\ In(b) \subseteq In(down["phone"]) \cup (IF s = Session THEN In(ms) ELSE {})
      /\ Hears(Session) /\ ~ Closing(down["phone"]) /\ s = Session => In(ms) \subseteq In(b)
  BY <1>1, <1>2, <1>3, <1>4, <1>6, InboxesAre
<1>8. \A R : Chain(down["bridge"], R) /\ Chain(ms, R)
             /\ (\A x \in In(down["bridge"]), y \in In(ms) : <<x, y>> \in R) => Chain(a, R)
  BY <1>1, <1>2, <1>3, <1>4, <1>6, InboxesAre
<1>9. \A e : FreshFrom(down["phone"], e) => FreshFrom(b, e)
  <2>1. (\A m \in In(ms) : ~ Frame(m)) /\ \A m \in In(<<>>) : ~ Frame(m)
    BY <1>3, <1>4
  <2> QED
    BY <1>1, <1>2, <1>3, <1>4, <1>6, <2>1, InboxesAre
<1>10. up' \in [Socket -> Seq(Msg)] /\ up'[s] = <<>> /\ \A x \in Socket : x # s => up'[x] = up[x]
  BY <1>1, <1>2, <1>3, TakenIs
<1>11. peers[s[1]] # s /\ \A e \in End : peers[e] # None => peers[e] \in open /\ peers[e][1] = e
  BY <1>1, <1>2, HeadIs DEF Sockets
<1>12. RelayTypeOK'
  BY <1>1, <1>2, <1>7, <1>10 DEF RelayTypeOK
<1>13. Dialled' = Dialled /\ Session' = Session /\ Live' = Live
  BY Standing
<1>14. \A e \in End : peers[e] # s
  BY <1>2, <1>11
<1>15. s[1] = "phone" \/ s[1] = "bridge"
  BY <1>2 DEF End
<1>16. (Live <=> Hears(Session)) /\ (s = Session => s[1] = "phone") /\ (s = Dialled => s[1] = "bridge")
  BY <1>1, LiveIs, OwnIs
<1>17. In(down["bridge"]) \subseteq Msg /\ In(down["phone"]) \subseteq Msg
  BY <1>2 DEF In, End
<1>18. BridgeTold'
  <2> SUFFICES ASSUME connector.link = "open", Dialled \in open'
               PROVE  /\ peers["bridge"] = Dialled \/ Register \in In(up'[Dialled]) \/ Closing(up'[Dialled])
                      /\ \A m \in In(a) : m = closed \/ peers["bridge"] = Dialled
                      /\ closed \in In(a) => Closing(up'[Dialled])
    BY <1>13 DEF BridgeTold
  <2>1. s # Dialled /\ Dialled \in open /\ up'[Dialled] = up[Dialled]
    BY <1>2, <1>10
  <2> QED
    BY <1>1, <1>7, <2>1 DEF BridgeTold
<1>19. PhoneTold'
  <2> SUFFICES ASSUME Live
               PROVE  IF Session \in open'
                      THEN /\ phone.phase # "registering" => peers["phone"] = Session
                           /\ \A m \in In(b) : m = closed \/ peers["phone"] = Session
                      ELSE closed \in In(b)
    BY <1>13 DEF PhoneTold
  <2>1. CASE s = Session
    <3>1. Closing(down["phone"]) => closed \in In(down["phone"])
      BY <1>2, ClosingIs DEF End
    <3>2. closed \in In(b)
      BY <1>4, <1>7, <1>16, <2>1, <3>1
    <3> QED
      BY <2>1, <3>2
  <2>2. CASE s # Session
    BY <1>1, <1>7, <2>2 DEF PhoneTold
  <2> QED
    BY <2>1, <2>2
<1>20. Fresh'
  <2>1. FreshFrom(b, phone.peerEphemeral)
    BY <1>1, <1>9 DEF Fresh
  <2>2. ASSUME Live, peers["phone"] = Session, NoEnds(b)
        PROVE  IF peers["bridge"] = None
               THEN phone.peerEphemeral = 0 /\ \A m \in In(b) : ~ Frame(m)
               ELSE \A m \in In(up'[peers["bridge"]]) : Frame(m) =>
                      /\ Epoch(m) >= phone.peerEphemeral
                      /\ \A k \in In(b) : Frame(k) => Epoch(k) <= Epoch(m)
    <3>1. s # Session /\ NoEnds(down["phone"]) /\ In(b) \subseteq In(down["phone"])
      BY <1>7, <1>14, <2>2, NoEndsIn DEF End
    <3>2. peers["bridge"] # None => up'[peers["bridge"]] = up[peers["bridge"]]
      BY <1>2, <1>10, <1>14 DEF End
    <3> QED
      BY <1>1, <2>2, <3>1, <3>2 DEF Fresh
  <2> QED
    BY <1>13, <2>1, <2>2 DEF Fresh
<1>21. ASSUME Facing'
       PROVE  /\ Facing
              /\ \A g \in In(down["bridge"]) \cup In(up[Session]) :
                   Frame(g) => g \in In(a) \cup In(up'[Session])
  <2>1. /\ Live /\ ~ Closing(up'[Session]) /\ NoEnds(b)
        /\ connector.link = "open" /\ peers["bridge"] = Dialled /\ ~ Closing(up'[Dialled])
    BY <1>13, <1>21 DEF Facing
  <2>2. s # Session
    <3>1. SUFFICES ASSUME s = Session PROVE FALSE
      OBVIOUS
    <3>2. Closing(down["phone"]) => closed \in In(down["phone"])
      BY <1>2, ClosingIs DEF End
    <3>3. closed \in In(b)
      BY <1>4, <1>7, <1>16, <2>1, <3>1, <3>2
    <3> QED
      BY <1>3, <2>1, <3>3 DEF NoEnds
  <2>3. s # Dialled
    BY <1>14, <2>1 DEF End
  <2>4. Session \in Socket /\ Dialled \in Socket
    BY <1>1, <2>1, LiveIs, OwnIs
  <2>5. up'[Session] = up[Session] /\ up'[Dialled] = up[Dialled]
    BY <1>10, <2>2, <2>3, <2>4
  <2>6. NoEnds(down["phone"])
    BY <1>7, <2>1, NoEndsIn
  <2> QED
    BY <1>7, <2>1, <2>5, <2>6 DEF Facing
<1>22. taken \in In(b) => taken \in In(down["phone"]) \/ phone.n > 1
  <2> SUFFICES ASSUME s = Session PROVE phone.n > 1
    BY <1>7
  <2>1. peers["phone"] \in open /\ peers["phone"][1] = "phone" /\ peers["phone"] # Session
    BY <1>11, <1>14, <1>16 DEF End
  <2>2. peers["phone"] \in Socket
    BY <1>2, <2>1
  <2>3. peers["phone"][2] <= phone.n /\ peers["phone"][2] \in Nat \ {0}
    <3>1. \A x \in open : x[2] <= Own(x[1])[2]
      BY <1>1 DEF Sockets
    <3>2. Own("phone")[2] = phone.n
      BY DEF Own, Session
    <3> QED
      BY <2>1, <2>2, <3>1, <3>2, SocketIs
  <2>4. peers["phone"][2] # phone.n
    BY <2>1, <2>2, SocketIs DEF Session
  <2> DEFINE k == peers["phone"][2]
             n == phone.n
  <2>5. n \in Nat /\ k <= n /\ k \in Nat \ {0} /\ k # n
    BY <1>2, <2>3, <2>4, RelayAssumption DEF Phone
  <2> HIDE DEF k, n
  <2>6. n > 1
    BY <2>5
  <2> QED
    BY <2>6 DEF n
<1>23. /\ Chain(a, Later)
       /\ PeerOffline \in In(a) => PeerOffline \in In(down["bridge"])
       /\ Chain(down["bridge"], Staying(phone.n)) => Chain(a, Staying(phone.n))
       /\ \A m \in In(a) : Frame(m) => m \in In(down["bridge"])
       /\ \A m \in In(b) : Frame(m) => m \in In(down["phone"])
  <2>1. \A x \in Msg, y \in {taken, closed} : <<x, y>> \in Later /\ <<x, y>> \in Staying(phone.n)
    BY <1>3, RelaySays DEF Later, Staying
  <2>2. Chain(down["bridge"], Later)
    BY <1>1 DEF Ordered
  <2>3. Chain(ms, Later) /\ Chain(ms, Staying(phone.n))
    BY <1>3, <1>5, <2>1
  <2>4. \A x \in In(down["bridge"]), y \in In(ms) : <<x, y>> \in Later /\ <<x, y>> \in Staying(phone.n)
    BY <1>4, <1>17, <2>1
  <2>5. Chain(a, Later)
    BY <1>8, <2>2, <2>3, <2>4
  <2>6. Chain(down["bridge"], Staying(phone.n)) => Chain(a, Staying(phone.n))
    BY <1>8, <2>3, <2>4
  <2> QED
    BY <1>3, <1>4, <1>7, <2>5, <2>6
<1>24. /\ In(up'[s]) \subseteq In(up[s]) \cup {closed} /\ Chain(up'[s], NotRegister)
       /\ Chain(up'[s], Newer) /\ \A m \in In(up'[s]) : Frame(m) => peers[s[1]] = s
  BY <1>3, <1>10
<1>25. open' \subseteq open /\ \A e \in End : peers[e] # None => peers[e] \in open' /\ peers[e][1] = e
  BY <1>11, <1>14
<1>26. PeersMove(s)
  BY <1>25 DEF PeersMove
<1>27. QueuesMove(s)
  BY <1>10, <1>24 DEF QueuesMove
<1>28. InboxesMove(s)
  BY <1>7, <1>22, <1>23 DEF InboxesMove, a, b, taken
<1>29. FacingMoves
  BY <1>21 DEF FacingMoves
<1> QED
  BY <1>2, <1>12, <1>18, <1>19, <1>20, <1>26, <1>27, <1>28, <1>29, AfterRelay

\* relay/register of a routing id that is free.
LEMMA RegisteredKeeps ==
  ASSUME RelayInv, NEW s \in open, up[s] # <<>>, Head(up[s]) = Register, peers[s[1]] = None,
         peers' = [peers EXCEPT ![s[1]] = s], up' = [up EXCEPT ![s] = Tail(up[s])],
         down' = Delivered(s, IF peers[Other(s[1])] = None THEN <<Registered>>
                              ELSE <<Registered, PeerOnline>>, <<PeerOnline>>), open' = open,
         connector' = connector, phone' = phone,
         backend' = backend, greeted' = greeted, carriedOver' = carriedOver,
         faults' = faults, overQuota' = overQuota
  PROVE  RelayInv'
<1> DEFINE taken == Error("routing-id-taken")
           ms == IF peers[Other(s[1])] = None THEN <<Registered>> ELSE <<Registered, PeerOnline>>
           ns == <<PeerOnline>>
           q == Tail(up[s])
<1>1. RelayTypeOK /\ Sockets /\ Queues /\ BridgeTold /\ PhoneTold /\ Ordered /\ Fresh /\ Paired /\ Accusing
  BY DEF RelayInv
<1>2. /\ up \in [Socket -> Seq(Msg)] /\ down \in [End -> Seq(Msg)] /\ open \subseteq Socket
      /\ peers \in [End -> Socket \cup {None}] /\ connector \in Connector /\ phone \in Phone
      /\ s \in Socket /\ s[1] \in End /\ s # None
  BY <1>1, SocketIs DEF RelayTypeOK
<1>3. /\ Registered \in Msg /\ PeerOnline \in Msg /\ ~ Frame(Registered) /\ ~ Frame(PeerOnline)
      /\ ~ Ends(PeerOnline) /\ closed \notin {Registered, PeerOnline, Register}
      /\ PeerOffline \notin {Registered, PeerOnline} /\ taken \notin {Registered, PeerOnline}
  BY RelaySays, NoticesDiffer
<1>4. /\ ms \in Seq(Msg) /\ In(ms) \subseteq {Registered, PeerOnline}
      /\ ns \in Seq(Msg) /\ In(ns) = {PeerOnline}
  BY <1>3, Two, Single
<1>5. \A R : <<Registered, PeerOnline>> \in R => Chain(ms, R) /\ Chain(ns, R)
  BY <1>3, Two, Single
<1> HIDE DEF ms, ns, taken
<1>6. down' = Delivered(s, ms, ns)
  BY DEF ms, ns
<1> DEFINE a == down'["bridge"]
           b == down'["phone"]
<1>7. /\ down' \in [End -> Seq(Msg)]
      /\ ~ HearsClose(Dialled) => a = down["bridge"]
      /\ ~ Hears(Dialled) => In(a) \subseteq In(down["bridge"]) \cup {closed}
      /\ ~ Hears(Session) => b = down["phone"]
      /\ In(down["bridge"]) \subseteq In(a) /\ In(down["phone"]) \subseteq In(b)
      /\ In(a) \subseteq In(down["bridge"]) \cup
           (IF s = Dialled THEN In(ms)
            ELSE IF s[1] = "phone" /\ peers["bridge"] = Dialled THEN In(ns) ELSE {})
      /\ In(b) \subseteq In(down["phone"]) \cup
           (IF s = Session THEN In(ms)
            ELSE IF s[1] = "bridge" /\ peers["phone"] = Session THEN In(ns) ELSE {})
  BY <1>1, <1>2, <1>4, <1>6, InboxesAre
<1>8. \A R : Chain(down["bridge"], R) /\ Chain(ms, R) /\ Chain(ns, R)
             /\ (\A x \in In(down["bridge"]), y \in In(ms) \cup In(ns) : <<x, y>> \in R) => Chain(a, R)
  BY <1>1, <1>2, <1>4, <1>6, InboxesAre
<1>9. \A e : FreshFrom(down["phone"], e) => FreshFrom(b, e)
  <2>1. (\A m \in In(ms) : ~ Frame(m)) /\ \A m \in In(ns) : ~ Frame(m)
    BY <1>3, <1>4
  <2> QED
    BY <1>1, <1>2, <1>4, <1>6, <2>1, InboxesAre
<1>10. /\ q \in Seq(Msg) /\ In(q) \subseteq In(up[s]) /\ Register \notin In(q)
       /\ \A R : Chain(up[s], R) => Chain(q, R)
       /\ up[s] \in Seq(Msg) /\ (Closing(up[s]) => Closing(q))
  BY <1>1, <1>2, <1>3, HeadIs, ClosingTail
<1>11. up' \in [Socket -> Seq(Msg)] /\ up'[s] = q /\ \A x \in Socket : x # s => up'[x] = up[x]
  BY <1>1, <1>2, <1>10, TakenIs
<1> HIDE DEF q
<1>12. /\ peers' \in [End -> Socket \cup {None}] /\ peers'[s[1]] = s
       /\ \A e \in End : e # s[1] => peers'[e] = peers[e]
  BY <1>2
<1>13. RelayTypeOK'
  BY <1>1, <1>2, <1>7, <1>11, <1>12 DEF RelayTypeOK
<1>14. Dialled' = Dialled /\ Session' = Session /\ Live' = Live
  BY Standing
<1>15. s[1] = "phone" \/ s[1] = "bridge"
  BY <1>2 DEF End
<1>16. /\ (Live <=> Hears(Session)) /\ (s = Session => s[1] = "phone") /\ (s = Dialled => s[1] = "bridge")
       /\ (Live => Session \in Socket) /\ (connector.link = "open" => Dialled \in Socket)
       /\ "phone" \in End /\ "bridge" \in End /\ Dialled # None /\ Session # None
  BY <1>1, LiveIs, OwnIs, SocketIs DEF End, Dialled, Session
<1>17. In(down["bridge"]) \subseteq Msg /\ In(down["phone"]) \subseteq Msg
  BY <1>2, <1>16 DEF In
<1>18. /\ s[1] = "phone" => peers["phone"] = None /\ peers'["phone"] = s /\ peers'["bridge"] = peers["bridge"]
       /\ s[1] = "bridge" => peers["bridge"] = None /\ peers'["bridge"] = s /\ peers'["phone"] = peers["phone"]
  BY <1>12, <1>16
<1>19. BridgeTold'
  <2> SUFFICES ASSUME connector.link = "open", Dialled \in open
               PROVE  /\ peers'["bridge"] = Dialled \/ Register \in In(up'[Dialled]) \/ Closing(up'[Dialled])
                      /\ \A m \in In(a) : m = closed \/ peers'["bridge"] = Dialled
                      /\ closed \in In(a) => Closing(up'[Dialled])
    BY <1>14 DEF BridgeTold
  <2>1. /\ peers["bridge"] = Dialled \/ Register \in In(up[Dialled]) \/ Closing(up[Dialled])
        /\ \A m \in In(down["bridge"]) : m = closed \/ peers["bridge"] = Dialled
        /\ closed \in In(down["bridge"]) => Closing(up[Dialled])
    BY <1>1 DEF BridgeTold
  <2>2. CASE s = Dialled
    <3>1. peers'["bridge"] = Dialled
      BY <1>16, <1>18, <2>2
    <3>2. closed \in In(a) => closed \in In(down["bridge"])
      BY <1>3, <1>4, <1>7, <2>2
    <3> QED
      BY <1>10, <1>11, <2>1, <2>2, <3>1, <3>2
  <2>3. CASE s # Dialled /\ s[1] = "bridge"
    BY <1>7, <1>11, <1>16, <1>18, <2>1, <2>3
  <2>4. CASE s[1] = "phone"
    <3>1. up'[Dialled] = up[Dialled]
      BY <1>11, <1>16, <2>4
    <3>2. closed \in In(a) => closed \in In(down["bridge"])
      BY <1>3, <1>4, <1>7, <1>16, <2>4
    <3>3. \A m \in In(a) : m \in In(down["bridge"]) \/ peers["bridge"] = Dialled
      BY <1>7, <1>16, <2>4
    <3> QED
      BY <1>18, <2>1, <2>4, <3>1, <3>2, <3>3
  <2> QED
    BY <1>15, <2>2, <2>3, <2>4
<1>20. Live => IF Session \in open
               THEN /\ phone.phase # "registering" => peers["phone"] = Session
                    /\ \A m \in In(down["phone"]) : m = closed \/ peers["phone"] = Session
               ELSE closed \in In(down["phone"])
  BY <1>1 DEF PhoneTold
<1>21. PhoneTold'
  <2> SUFFICES ASSUME Live
               PROVE  IF Session \in open
                      THEN /\ phone.phase # "registering" => peers'["phone"] = Session
                           /\ \A m \in In(b) : m = closed \/ peers'["phone"] = Session
                      ELSE closed \in In(b)
    BY <1>14 DEF PhoneTold
  <2>1. CASE s = Session
    BY <1>16, <1>18, <2>1
  <2>2. CASE s # Session /\ s[1] = "phone"
    BY <1>7, <1>16, <1>18, <1>20, <2>2
  <2>3. CASE s[1] = "bridge"
    <3>1. \A m \in In(b) : m \in In(down["phone"]) \/ peers["phone"] = Session
      BY <1>7, <1>16, <2>3
    <3> QED
      BY <1>7, <1>18, <1>20, <2>3, <3>1
  <2> QED
    BY <1>15, <2>1, <2>2, <2>3
\* A phone whose socket is not registered yet has seen nothing.
<1>22. ASSUME Live, peers["phone"] # Session, NoEnds(down["phone"])
       PROVE  /\ phone.phase = "registering" /\ phone.peerEphemeral = 0 /\ ~ phone.signed
              /\ In(down["phone"]) = {} /\ phone.channel = None
  <2>1. Session \in open
    BY <1>20, <1>22, RelaySays DEF NoEnds
  <2>2. phone.phase = "registering" /\ \A m \in In(down["phone"]) : m = closed
    BY <1>20, <1>22, <2>1
  <2>3. PICK t \in 0 .. MaxSessions : Agreed(connector, phone, PhoneSent, BridgeSent, t)
    BY DEF RelayInv
  <2> QED
    BY <1>22, <2>2, <2>3, RelaySays DEF Agreed, Theirs, NoEnds
<1>23. Fresh'
  <2>1. FreshFrom(b, phone.peerEphemeral)
    BY <1>1, <1>9 DEF Fresh
  <2>2. ASSUME Live, peers'["phone"] = Session, NoEnds(b)
        PROVE  IF peers'["bridge"] = None
               THEN phone.peerEphemeral = 0 /\ \A m \in In(b) : ~ Frame(m)
               ELSE \A m \in In(up'[peers'["bridge"]]) : Frame(m) =>
                      /\ Epoch(m) >= phone.peerEphemeral
                      /\ \A k \in In(b) : Frame(k) => Epoch(k) <= Epoch(m)
    <3>1. NoEnds(down["phone"])
      BY <1>7, <2>2, NoEndsIn
    <3>2. \A m \in In(b) : Frame(m) => m \in In(down["phone"])
      BY <1>3, <1>4, <1>7
    <3>3. phone.peerEphemeral = 0 /\ \A m \in In(b) : ~ Frame(m)
      <4>1. CASE s[1] = "phone"
        BY <1>18, <1>22, <1>16, <2>2, <3>1, <3>2, <4>1
      <4>2. CASE s[1] = "bridge"
        BY <1>1, <1>18, <2>2, <3>1, <3>2, <4>2 DEF Fresh
      <4> QED
        BY <1>15, <4>1, <4>2
    <3>4. \A x \in Socket : \A m \in In(up'[x]) : Frame(m) => Epoch(m) >= 0
      <4> SUFFICES ASSUME NEW x \in Socket, NEW m \in In(up'[x]), Frame(m) PROVE Epoch(m) >= 0
        OBVIOUS
      <4>1. m \in Msg
        BY <1>11 DEF In
      <4>2. Epoch(m) \in Nat
        BY <4>1, FrameIs
      <4> QED
        BY <4>2
    <3>5. peers'["bridge"] \in Socket \cup {None}
      BY <1>12, <1>16
    <3> QED
      BY <3>3, <3>4, <3>5
  <2> QED
    BY <1>14, <2>1, <2>2 DEF Fresh
<1>24. ASSUME Facing'
       PROVE  /\ Facing \/ Mutual(connector, phone, PhoneSent, BridgeSent)
              /\ \A g \in In(down["bridge"]) \cup In(up[Session]) :
                   Frame(g) => g \in In(a) \cup In(up'[Session])
  <2>1. /\ Live /\ ~ Closing(up'[Session]) /\ NoEnds(b)
        /\ connector.link = "open" /\ peers'["bridge"] = Dialled /\ ~ Closing(up'[Dialled])
    BY <1>14, <1>24 DEF Facing
  <2>2. NoEnds(down["phone"]) /\ Session \in Socket /\ Dialled \in Socket
    BY <1>7, <1>16, <2>1, NoEndsIn
  <2>3. ~ Closing(up[Session]) /\ ~ Closing(up[Dialled])
    BY <1>10, <1>11, <2>1, <2>2
  <2>4. In(up[Session]) \subseteq In(up'[Session]) \cup {Register}
    <3>1. In(up[s]) = {Register} \cup In(q)
      BY <1>1, <1>2, HeadIs DEF q
    <3> QED
      BY <1>11, <2>2, <3>1
  <2>5. \A g \in In(down["bridge"]) \cup In(up[Session]) : Frame(g) => g \in In(a) \cup In(up'[Session])
    BY <1>7, <2>4, RelaySays
  <2>6. CASE s[1] = "phone"
    BY <1>18, <2>1, <2>2, <2>3, <2>5, <2>6 DEF Facing
  <2>7. CASE s[1] = "bridge"
    <3>1. PICK t \in 0 .. MaxSessions : Agreed(connector, phone, PhoneSent, BridgeSent, t)
      BY DEF RelayInv
    <3>2. ~ phone.signed
      <4>1. CASE peers["phone"] = Session
        <5>1. phone.peerEphemeral = 0
          BY <1>1, <1>18, <2>1, <2>2, <2>7, <4>1 DEF Fresh
        <5> QED
          BY <3>1, <5>1 DEF Agreed, Theirs
      <4>2. CASE peers["phone"] # Session
        BY <1>22, <2>1, <2>2, <4>2
      <4> QED
        BY <4>1, <4>2
    <3>3. \A x \in Said(phone, BridgeSent) : x[1] # phone.n
      <4>1. CASE phone.phase = "registering"
        <5>1. t < phone.n /\ t \in 0 .. phone.n /\ \A x \in Said(phone, BridgeSent) : x[1] <= t
          BY <3>1, <4>1 DEF Agreed, Answered
        <5>2. BridgeSent \in SUBSET Frames
          BY <1>2, <1>16, FramesInAre DEF BridgeSent
        <5>3. \A x \in Said(phone, BridgeSent) : x[1] \in Nat
          BY <1>2, <5>2, SaidIs, KeyIsPair
        <5>4. phone.n \in Nat /\ t \in Nat
          BY <1>2, RelayAssumption DEF Phone
        <5> QED
          BY <5>1, <5>3, <5>4
      <4>2. CASE phone.phase # "registering"
        <5>1. peers["phone"] = Session
          BY <1>22, <2>1, <2>2, <4>2
        <5>2. phone.channel = None
          BY <3>1, <3>2 DEF Agreed, Theirs
        <5>3. \A m \in In(down["phone"]) : ~ Frame(m)
          BY <1>1, <1>18, <2>1, <2>2, <2>7, <5>1 DEF Fresh
        <5>4. \A x \in Socket : x[1] = "bridge" => \A m \in In(up[x]) : m.type # "relay/handshake"
          <6> SUFFICES ASSUME NEW x \in Socket, x[1] = "bridge", NEW m \in In(up[x]),
                              m.type = "relay/handshake"
                       PROVE  FALSE
            OBVIOUS
          <6>1. peers["bridge"] = x
            BY <1>1 DEF Queues, Frame
          <6> QED
            BY <1>18, <2>7, <6>1, SocketIs
        <5>5. Greetings(BridgeSent) = {}
          BY <5>3, <5>4 DEF Greetings, BridgeSent, FramesIn
        <5>6. Said(phone, BridgeSent) = {}
          BY <5>2, <5>5 DEF Said
        <5> QED
          BY <5>6
      <4> QED
        BY <4>1, <4>2
    <3>4. Mutual(connector, phone, PhoneSent, BridgeSent)
      BY <3>2, <3>3 DEF Mutual
    <3> QED
      BY <2>5, <3>4
  <2> QED
    BY <1>15, <2>6, <2>7
<1>25. /\ Chain(a, Later)
       /\ PeerOffline \in In(a) => PeerOffline \in In(down["bridge"])
       /\ Chain(down["bridge"], Staying(phone.n)) => Chain(a, Staying(phone.n))
       /\ \A m \in In(a) : Frame(m) => m \in In(down["bridge"])
       /\ \A m \in In(b) : Frame(m) => m \in In(down["phone"])
       /\ taken \in In(b) => taken \in In(down["phone"])
  <2>1. \A x \in Msg, y \in {Registered, PeerOnline} : <<x, y>> \in Later /\ <<x, y>> \in Staying(phone.n)
    BY <1>3, RelaySays DEF Later, Staying
  <2>2. Chain(down["bridge"], Later)
    BY <1>1 DEF Ordered
  <2>3. Chain(ms, Later) /\ Chain(ms, Staying(phone.n)) /\ Chain(ns, Later) /\ Chain(ns, Staying(phone.n))
    BY <1>3, <1>5, <2>1
  <2>4. \A x \in In(down["bridge"]), y \in In(ms) \cup In(ns) :
          <<x, y>> \in Later /\ <<x, y>> \in Staying(phone.n)
    BY <1>4, <1>17, <2>1
  <2>5. Chain(a, Later)
    BY <1>8, <2>2, <2>3, <2>4
  <2>6. Chain(down["bridge"], Staying(phone.n)) => Chain(a, Staying(phone.n))
    BY <1>8, <2>3, <2>4
  <2> QED
    BY <1>3, <1>4, <1>7, <2>5, <2>6
<1>26. PeersMove(s)
  <2>1. \A e \in End : peers'[e] # None => peers'[e] \in open /\ peers'[e][1] = e
    BY <1>1, <1>2, <1>12 DEF Sockets
  <2>2. Live /\ peers'["phone"] = Session => peers["phone"] = Session \/ phone.phase = "registering"
    <3> SUFFICES ASSUME Live, peers'["phone"] = Session, s[1] = "phone"
                 PROVE  phone.phase = "registering"
      BY <1>15, <1>18
    <3> QED
      BY <1>2, <1>16, <1>18, <1>20
  <2> QED
    BY <1>10, <1>11, <2>1, <2>2 DEF PeersMove
<1>27. QueuesMove(s)
  <2>1. Chain(up[s], NotRegister) /\ (s[1] = "bridge" => Chain(up[s], Newer))
    BY <1>1, <1>2 DEF Queues, Ordered
  <2> QED
    BY <1>10, <1>11, <1>12, <2>1 DEF QueuesMove
<1>28. InboxesMove(s)
  BY <1>7, <1>25 DEF InboxesMove, a, b, taken
<1>29. FacingMoves
  BY <1>24 DEF FacingMoves
<1> QED
  BY <1>2, <1>13, <1>19, <1>21, <1>23, <1>26, <1>27, <1>28, <1>29, AfterRelay

\* A frame over the quota, or for a peer that is not there.
LEMMA RejectedKeeps ==
  ASSUME RelayInv, NEW s \in open, up[s] # <<>>, Frame(Head(up[s])),
         NEW code \in {"quota-exceeded", "peer-offline"},
         up' = [up EXCEPT ![s] = Tail(up[s])], down' = Delivered(s, <<Error(code)>>, <<>>),
         peers' = peers, open' = open, connector' = connector, phone' = phone,
         backend' = backend, greeted' = greeted, carriedOver' = carriedOver,
         faults' \in Nat, overQuota' \in BOOLEAN
  PROVE  RelayInv'
<1> DEFINE taken == Error("routing-id-taken")
           no == Error(code)
           ms == <<no>>
           q == Tail(up[s])
<1>1. RelayTypeOK /\ Sockets /\ Queues /\ BridgeTold /\ PhoneTold /\ Ordered /\ Fresh /\ Paired /\ Accusing
  BY DEF RelayInv
<1>2. /\ up \in [Socket -> Seq(Msg)] /\ down \in [End -> Seq(Msg)] /\ open \subseteq Socket
      /\ peers \in [End -> Socket \cup {None}] /\ connector \in Connector /\ phone \in Phone
      /\ s \in Socket /\ s[1] \in End /\ s # None
  BY <1>1, SocketIs DEF RelayTypeOK
<1>3. /\ no \in Msg /\ ~ Frame(no) /\ Ends(no) /\ no \notin {taken, closed, PeerOffline, Register}
      /\ Ends(closed) /\ <<>> \in Seq(Msg) /\ In(<<>>) = {} /\ (\A R : Chain(<<>>, R))
  BY RelaySays, NoticesDiffer, Emptied
<1> HIDE DEF taken, no
<1>4. ms \in Seq(Msg) /\ In(ms) = {no} /\ \A R : Chain(ms, R)
  BY <1>3, Single
<1> HIDE DEF ms
<1>5. down' = Delivered(s, ms, <<>>)
  BY DEF ms, no
<1> DEFINE a == down'["bridge"]
           b == down'["phone"]
<1>6. /\ down' \in [End -> Seq(Msg)]
      /\ ~ HearsClose(Dialled) => a = down["bridge"]
      /\ ~ Hears(Dialled) => In(a) \subseteq In(down["bridge"]) \cup {closed}
      /\ ~ Hears(Session) => b = down["phone"]
      /\ In(down["bridge"]) \subseteq In(a) /\ In(down["phone"]) \subseteq In(b)
      /\ In(a) \subseteq In(down["bridge"]) \cup (IF s = Dialled THEN In(ms) ELSE {})
      /\ In(b) \subseteq In(down["phone"]) \cup (IF s = Session THEN In(ms) ELSE {})
      /\ Hears(Session) /\ ~ Closing(down["phone"]) /\ s = Session => In(ms) \subseteq In(b)
  BY <1>1, <1>2, <1>3, <1>4, <1>5, InboxesAre
<1>7. \A R : Chain(down["bridge"], R)
             /\ (\A x \in In(down["bridge"]), y \in In(ms) : <<x, y>> \in R) => Chain(a, R)
  BY <1>1, <1>2, <1>3, <1>4, <1>5, InboxesAre
<1>8. \A e : FreshFrom(down["phone"], e) => FreshFrom(b, e)
  <2>1. (\A m \in In(ms) : ~ Frame(m)) /\ \A m \in In(<<>>) : ~ Frame(m)
    BY <1>3, <1>4
  <2>2. ms \in Seq(Msg) /\ <<>> \in Seq(Msg)
    BY <1>3, <1>4
  <2> QED
    BY <1>1, <1>2, <1>5, <2>1, <2>2, InboxesAre
<1>9. Head(up[s]) # closed /\ Head(up[s]) # Register
  BY RelaySays
<1>10. /\ q \in Seq(Msg) /\ In(q) \subseteq In(up[s])
       /\ \A R : Chain(up[s], R) => Chain(q, R)
       /\ up[s] \in Seq(Msg) /\ (Closing(up[s]) => Closing(q))
       /\ Register \notin In(up[s]) /\ Head(up[s]) \in In(up[s])
       /\ \A m \in In(up[s]) : Frame(m) => peers[s[1]] = s
       /\ peers[s[1]] = s
  BY <1>1, <1>2, <1>9, HeadIs, ClosingTail
<1>11. up' \in [Socket -> Seq(Msg)] /\ up'[s] = q /\ \A x \in Socket : x # s => up'[x] = up[x]
  BY <1>1, <1>2, <1>10, TakenIs
<1> HIDE DEF q
<1>12. RelayTypeOK'
  BY <1>1, <1>2, <1>6, <1>11 DEF RelayTypeOK
<1>13. Dialled' = Dialled /\ Session' = Session /\ Live' = Live
  BY Standing
<1>14. s[1] = "phone" \/ s[1] = "bridge"
  BY <1>2 DEF End
<1>15. /\ (Live <=> Hears(Session)) /\ (s = Session => s[1] = "phone") /\ (s = Dialled => s[1] = "bridge")
       /\ (Live => Session \in Socket) /\ (connector.link = "open" => Dialled \in Socket)
       /\ "phone" \in End /\ "bridge" \in End
  BY <1>1, LiveIs, OwnIs DEF End
<1>16. In(down["bridge"]) \subseteq Msg
  BY <1>2, <1>15 DEF In
<1>17. BridgeTold'
  <2> SUFFICES ASSUME connector.link = "open", Dialled \in open
               PROVE  /\ peers["bridge"] = Dialled \/ Register \in In(up'[Dialled]) \/ Closing(up'[Dialled])
                      /\ \A m \in In(a) : m = closed \/ peers["bridge"] = Dialled
                      /\ closed \in In(a) => Closing(up'[Dialled])
    BY <1>13 DEF BridgeTold
  <2>1. /\ peers["bridge"] = Dialled \/ Register \in In(up[Dialled]) \/ Closing(up[Dialled])
        /\ \A m \in In(down["bridge"]) : m = closed \/ peers["bridge"] = Dialled
        /\ closed \in In(down["bridge"]) => Closing(up[Dialled])
    BY <1>1 DEF BridgeTold
  <2>2. closed \in In(a) => closed \in In(down["bridge"])
    BY <1>3, <1>4, <1>6
  <2>3. CASE s = Dialled
    BY <1>10, <1>11, <1>15, <2>1, <2>2, <2>3
  <2>4. CASE s # Dialled
    BY <1>6, <1>11, <1>15, <2>1, <2>2, <2>4
  <2> QED
    BY <2>3, <2>4
<1>18. PhoneTold'
  <2> SUFFICES ASSUME Live
               PROVE  IF Session \in open
                      THEN /\ phone.phase # "registering" => peers["phone"] = Session
                           /\ \A m \in In(b) : m = closed \/ peers["phone"] = Session
                      ELSE closed \in In(b)
    BY <1>13 DEF PhoneTold
  <2>1. CASE s = Session
    BY <1>10, <1>15, <2>1
  <2>2. CASE s # Session
    BY <1>1, <1>6, <2>2 DEF PhoneTold
  <2> QED
    BY <2>1, <2>2
\* A phone that is told so knows that its session is over.
<1>19. Live /\ NoEnds(b) => s # Session
  <2> SUFFICES ASSUME Live, s = Session PROVE ~ NoEnds(b)
    OBVIOUS
  <2>1. Closing(down["phone"]) => closed \in In(down["phone"])
    BY <1>2, <1>15, ClosingIs
  <2>2. closed \in In(b) \/ no \in In(b)
    BY <1>4, <1>6, <1>15, <2>1
  <2> QED
    BY <1>3, <2>2 DEF NoEnds
<1>20. Fresh'
  <2>1. FreshFrom(b, phone.peerEphemeral)
    BY <1>1, <1>8 DEF Fresh
  <2>2. ASSUME Live, peers["phone"] = Session, NoEnds(b)
        PROVE  IF peers["bridge"] = None
               THEN phone.peerEphemeral = 0 /\ \A m \in In(b) : ~ Frame(m)
               ELSE \A m \in In(up'[peers["bridge"]]) : Frame(m) =>
                      /\ Epoch(m) >= phone.peerEphemeral
                      /\ \A k \in In(b) : Frame(k) => Epoch(k) <= Epoch(m)
    <3>1. s # Session /\ NoEnds(down["phone"]) /\ In(b) \subseteq In(down["phone"])
      BY <1>6, <1>19, <2>2, NoEndsIn
    <3>2. peers["bridge"] # None => In(up'[peers["bridge"]]) \subseteq In(up[peers["bridge"]])
      BY <1>2, <1>10, <1>11, <1>15
    <3> QED
      BY <1>1, <2>2, <3>1, <3>2 DEF Fresh
  <2> QED
    BY <1>13, <2>1, <2>2 DEF Fresh
<1>21. ASSUME Facing'
       PROVE  /\ Facing
              /\ \A g \in In(down["bridge"]) \cup In(up[Session]) :
                   Frame(g) => g \in In(a) \cup In(up'[Session])
  <2>1. /\ Live /\ ~ Closing(up'[Session]) /\ NoEnds(b)
        /\ connector.link = "open" /\ peers["bridge"] = Dialled /\ ~ Closing(up'[Dialled])
    BY <1>13, <1>21 DEF Facing
  <2>2. s # Session /\ NoEnds(down["phone"]) /\ Session \in Socket /\ Dialled \in Socket
    BY <1>6, <1>15, <1>19, <2>1, NoEndsIn
  <2>3. up'[Session] = up[Session] /\ ~ Closing(up[Dialled])
    BY <1>10, <1>11, <2>1, <2>2
  <2> QED
    BY <1>6, <2>1, <2>2, <2>3 DEF Facing
<1>22. /\ Chain(a, Later)
       /\ PeerOffline \in In(a) => PeerOffline \in In(down["bridge"])
       /\ Chain(down["bridge"], Staying(phone.n)) => Chain(a, Staying(phone.n))
       /\ \A m \in In(a) : Frame(m) => m \in In(down["bridge"])
       /\ \A m \in In(b) : Frame(m) => m \in In(down["phone"])
       /\ taken \in In(b) => taken \in In(down["phone"])
  <2>1. \A x \in Msg : <<x, no>> \in Later /\ <<x, no>> \in Staying(phone.n)
    BY <1>3, RelaySays DEF Later, Staying
  <2>2. Chain(down["bridge"], Later)
    BY <1>1 DEF Ordered
  <2>3. \A x \in In(down["bridge"]), y \in In(ms) : <<x, y>> \in Later /\ <<x, y>> \in Staying(phone.n)
    BY <1>4, <1>16, <2>1
  <2>4. Chain(a, Later)
    BY <1>7, <2>2, <2>3
  <2>5. Chain(down["bridge"], Staying(phone.n)) => Chain(a, Staying(phone.n))
    BY <1>7, <2>3
  <2> QED
    BY <1>3, <1>4, <1>6, <2>4, <2>5
<1>23. PeersMove(s)
  BY <1>1 DEF PeersMove, Sockets
<1>24. QueuesMove(s)
  <2>1. Chain(up[s], NotRegister) /\ (s[1] = "bridge" => Chain(up[s], Newer))
    BY <1>1, <1>2 DEF Queues, Ordered
  <2> QED
    BY <1>10, <1>11, <2>1 DEF QueuesMove
<1>25. InboxesMove(s)
  BY <1>6, <1>22 DEF InboxesMove, a, b, taken
<1>26. FacingMoves
  BY <1>21 DEF FacingMoves
<1> QED
  BY <1>2, <1>12, <1>17, <1>18, <1>20, <1>23, <1>24, <1>25, <1>26, AfterRelay

\* A frame that the relay passes on.
LEMMA ForwardedKeeps ==
  ASSUME RelayInv, NEW s \in open, up[s] # <<>>, Frame(Head(up[s])),
         peers[Other(s[1])] # None,
         up' = [up EXCEPT ![s] = Tail(up[s])], down' = Delivered(s, <<>>, <<Head(up[s])>>),
         peers' = peers, open' = open, connector' = connector, phone' = phone,
         backend' = backend, greeted' = greeted, carriedOver' = carriedOver,
         faults' \in Nat, overQuota' \in BOOLEAN
  PROVE  RelayInv'
<1> DEFINE taken == Error("routing-id-taken")
           g == Head(up[s])
           ns == <<g>>
           q == Tail(up[s])
<1>1. RelayTypeOK /\ Sockets /\ Queues /\ BridgeTold /\ PhoneTold /\ Ordered /\ Fresh /\ Paired /\ Accusing
  BY DEF RelayInv
<1>2. /\ up \in [Socket -> Seq(Msg)] /\ down \in [End -> Seq(Msg)] /\ open \subseteq Socket
      /\ peers \in [End -> Socket \cup {None}] /\ connector \in Connector /\ phone \in Phone
      /\ s \in Socket /\ s[1] \in End /\ s # None
  BY <1>1, SocketIs DEF RelayTypeOK
<1>3. /\ <<>> \in Seq(Msg) /\ In(<<>>) = {} /\ (\A R : Chain(<<>>, R))
      /\ g \in Msg /\ g \in In(up[s]) /\ Frame(g) /\ Author(g) \in Nat /\ Epoch(g) \in Nat
      /\ In(up[s]) = {g} \cup In(q)
  BY <1>1, <1>2, Emptied, HeadIs, FrameIs
<1>4. g \notin {taken, closed, PeerOffline, Register} /\ ~ Ends(g) /\ Ends(closed)
  <2>1. ~ Ends(g)
    BY DEF Frame, Ends
  <2> QED
    BY <2>1, RelaySays
<1> HIDE DEF g, taken
<1>5. ns \in Seq(Msg) /\ In(ns) = {g} /\ Len(ns) = 1 /\ ns[1] = g /\ \A R : Chain(ns, R)
  BY <1>3, Single
<1> HIDE DEF ns
<1>6. down' = Delivered(s, <<>>, ns)
  BY DEF ns, g
<1> DEFINE a == down'["bridge"]
           b == down'["phone"]
<1>7. /\ down' \in [End -> Seq(Msg)]
      /\ ~ HearsClose(Dialled) => a = down["bridge"]
      /\ ~ Hears(Dialled) => In(a) \subseteq In(down["bridge"]) \cup {closed}
      /\ ~ Hears(Session) => b = down["phone"]
      /\ In(down["bridge"]) \subseteq In(a) /\ In(down["phone"]) \subseteq In(b)
      /\ In(a) \subseteq In(down["bridge"]) \cup
           (IF s[1] = "phone" /\ peers["bridge"] = Dialled THEN In(ns) ELSE {})
      /\ In(b) \subseteq In(down["phone"]) \cup
           (IF s[1] = "bridge" /\ peers["phone"] = Session THEN In(ns) ELSE {})
      /\ Hears(Dialled) /\ ~ Closing(down["bridge"]) /\ s[1] = "phone" /\ peers["bridge"] = Dialled =>
           In(ns) \subseteq In(a)
  <2>1. (s = Session => s[1] = "phone") /\ (s = Dialled => s[1] = "bridge")
    BY <1>1, OwnIs
  <2> QED
    BY <1>1, <1>2, <1>3, <1>5, <1>6, <2>1, InboxesAre
<1>8. \A R : Chain(down["bridge"], R)
             /\ (s[1] = "phone" => \A x \in In(down["bridge"]) : <<x, g>> \in R) => Chain(a, R)
  BY <1>1, <1>2, <1>3, <1>5, <1>6, InboxesAre
<1>9. Head(up[s]) # closed /\ Head(up[s]) # Register
  BY <1>4 DEF g
<1>10. /\ q \in Seq(Msg) /\ In(q) \subseteq In(up[s])
       /\ \A R : Chain(up[s], R) => Chain(q, R)
       /\ up[s] \in Seq(Msg) /\ (Closing(up[s]) => Closing(q))
       /\ Register \notin In(up[s]) /\ Head(up[s]) \in In(up[s])
       /\ \A m \in In(up[s]) : Frame(m) => peers[s[1]] = s
       /\ peers[s[1]] = s
  BY <1>1, <1>2, <1>9, HeadIs, ClosingTail
<1>11. up' \in [Socket -> Seq(Msg)] /\ up'[s] = q /\ \A x \in Socket : x # s => up'[x] = up[x]
  BY <1>1, <1>2, <1>10, TakenIs
<1> HIDE DEF q
<1>12. RelayTypeOK'
  BY <1>1, <1>2, <1>7, <1>11 DEF RelayTypeOK
<1>13. Dialled' = Dialled /\ Session' = Session /\ Live' = Live
  BY Standing
<1>14. s[1] = "phone" \/ s[1] = "bridge"
  BY <1>2 DEF End
<1>15. /\ (Live <=> Hears(Session)) /\ (s = Session => s[1] = "phone") /\ (s = Dialled => s[1] = "bridge")
       /\ (Live => Session \in Socket) /\ (connector.link = "open" => Dialled \in Socket)
       /\ "phone" \in End /\ "bridge" \in End
  BY <1>1, LiveIs, OwnIs DEF End
<1>16. In(down["bridge"]) \subseteq Msg
  BY <1>2, <1>15 DEF In
<1>17. BridgeTold'
  <2> SUFFICES ASSUME connector.link = "open", Dialled \in open
               PROVE  /\ peers["bridge"] = Dialled \/ Register \in In(up'[Dialled]) \/ Closing(up'[Dialled])
                      /\ \A m \in In(a) : m = closed \/ peers["bridge"] = Dialled
                      /\ closed \in In(a) => Closing(up'[Dialled])
    BY <1>13 DEF BridgeTold
  <2>1. /\ peers["bridge"] = Dialled \/ Register \in In(up[Dialled]) \/ Closing(up[Dialled])
        /\ \A m \in In(down["bridge"]) : m = closed \/ peers["bridge"] = Dialled
        /\ closed \in In(down["bridge"]) => Closing(up[Dialled])
    BY <1>1 DEF BridgeTold
  <2>2. closed \in In(a) => closed \in In(down["bridge"])
    BY <1>4, <1>5, <1>7
  <2>3. \A m \in In(a) : m = closed \/ peers["bridge"] = Dialled
    BY <1>7, <2>1
  <2>4. CASE s = Dialled
    BY <1>10, <1>11, <1>15, <2>1, <2>2, <2>3, <2>4
  <2>5. CASE s # Dialled
    BY <1>11, <1>15, <2>1, <2>2, <2>3, <2>5
  <2> QED
    BY <2>4, <2>5
<1>18. PhoneTold'
  <2>1. \A m \in In(b) : m \in In(down["phone"]) \/ peers["phone"] = Session
    BY <1>7
  <2> QED
    BY <1>1, <1>7, <1>13, <2>1 DEF PhoneTold
\* What the phone's bridge sends is of its newest handshakes.
<1>19. ASSUME Live, peers["phone"] = Session, NoEnds(down["phone"])
       PROVE  IF peers["bridge"] = None
              THEN phone.peerEphemeral = 0 /\ \A m \in In(down["phone"]) : ~ Frame(m)
              ELSE \A m \in In(up[peers["bridge"]]) : Frame(m) =>
                     /\ Epoch(m) >= phone.peerEphemeral
                     /\ \A k \in In(down["phone"]) : Frame(k) => Epoch(k) <= Epoch(m)
  BY <1>1, <1>19 DEF Fresh
<1>20. Fresh'
  <2>1. FreshFrom(b, phone.peerEphemeral)
    <3>1. FreshFrom(down["phone"], phone.peerEphemeral)
      BY <1>1 DEF Fresh
    <3>2. s[1] = "bridge" /\ peers["phone"] = Session /\ Hears(Session) /\ NoEnds(down["phone"]) =>
            /\ Epoch(g) >= phone.peerEphemeral
            /\ \A m \in In(down["phone"]) : Frame(m) => Epoch(m) <= Epoch(g)
      BY <1>2, <1>3, <1>10, <1>15, <1>19
    <3>3. /\ s = Session => b = Heard("phone", <<>>)
          /\ s[1] = "phone" /\ s # Session => b = down["phone"]
          /\ s[1] = "bridge" => b = IF peers["phone"] = Session
                                   THEN Heard("phone", ns) ELSE down["phone"]
      <4> DEFINE D == Delivered(s, <<>>, ns)
      <4>1. /\ s = Session => D["phone"] = Heard("phone", <<>>)
            /\ s[1] = "phone" /\ s # Session => D["phone"] = down["phone"]
            /\ s[1] = "bridge" => D["phone"] = IF peers["phone"] = Session
                                               THEN Heard("phone", ns) ELSE down["phone"]
        BY <1>1, <1>2, <1>3, <1>5, ToPhone
      <4>2. b = D["phone"]
        BY <1>6
      <4> HIDE DEF D, b
      <4> QED
        BY <4>1, <4>2
    <3>4. FreshFrom(Heard("phone", <<>>), phone.peerEphemeral)
      BY <1>1, <1>3, <3>1, HeardFresh
    <3>5. ASSUME s[1] = "bridge", peers["phone"] = Session
          PROVE  FreshFrom(Heard("phone", ns), phone.peerEphemeral)
      BY <1>1, <1>5, <3>1, <3>2, <3>5, HeardFresh
    <3> HIDE DEF b
    <3> QED
      BY <1>14, <3>1, <3>3, <3>4, <3>5
  <2>2. ASSUME Live, peers["phone"] = Session, NoEnds(b)
        PROVE  IF peers["bridge"] = None
               THEN phone.peerEphemeral = 0 /\ \A m \in In(b) : ~ Frame(m)
               ELSE \A m \in In(up'[peers["bridge"]]) : Frame(m) =>
                      /\ Epoch(m) >= phone.peerEphemeral
                      /\ \A k \in In(b) : Frame(k) => Epoch(k) <= Epoch(m)
    <3>1. NoEnds(down["phone"])
      BY <1>7, <2>2, NoEndsIn
    <3>2. CASE s[1] = "phone"
      <4>1. In(b) \subseteq In(down["phone"])
        BY <1>7, <3>2
      <4>2. peers["bridge"] # None => peers["bridge"][1] = "bridge" /\ peers["bridge"] \in Socket
        BY <1>1, <1>2, <1>15 DEF Sockets
      <4>3. peers["bridge"] # None => up'[peers["bridge"]] = up[peers["bridge"]]
        BY <1>11, <3>2, <4>2
      <4> QED
        BY <1>19, <2>2, <3>1, <4>1, <4>3
    <3>3. CASE s[1] = "bridge"
      <4>1. peers["bridge"] = s
        BY <1>10, <3>3
      <4>2. ASSUME NEW m \in In(q), Frame(m)
            PROVE  /\ Epoch(m) >= phone.peerEphemeral /\ Epoch(g) <= Epoch(m)
                   /\ \A k \in In(down["phone"]) : Frame(k) => Epoch(k) <= Epoch(m)
        <5>1. m \in In(up[s])
          BY <1>10
        <5>2. Chain(up[s], Newer)
          BY <1>1, <1>2, <3>3 DEF Ordered
        <5>3. <<g, m>> \in Newer
          BY <1>1, <1>2, <5>2, HeadIs DEF g, q
        <5>4. Epoch(g) <= Epoch(m)
          BY <1>3, <4>2, <5>3 DEF Newer
        <5> QED
          BY <1>2, <1>19, <2>2, <3>1, <4>1, <4>2, <5>1, <5>4
      <4>3. \A k \in In(b) : k \in In(down["phone"]) \/ k = g
        BY <1>5, <1>7
      <4> QED
        BY <1>2, <1>11, <4>1, <4>2, <4>3
    <3> QED
      BY <1>14, <3>2, <3>3
  <2> QED
    BY <1>13, <2>1, <2>2 DEF Fresh
<1>21. ASSUME Facing'
       PROVE  /\ Facing
              /\ \A f \in In(down["bridge"]) \cup In(up[Session]) :
                   Frame(f) => f \in In(a) \cup In(up'[Session])
  <2>1. /\ Live /\ ~ Closing(up'[Session]) /\ NoEnds(b)
        /\ connector.link = "open" /\ peers["bridge"] = Dialled /\ ~ Closing(up'[Dialled])
    BY <1>13, <1>21 DEF Facing
  <2>2. NoEnds(down["phone"]) /\ Session \in Socket /\ Dialled \in Socket
    BY <1>7, <1>15, <2>1, NoEndsIn
  <2>3. ~ Closing(up[Session]) /\ ~ Closing(up[Dialled])
    BY <1>10, <1>11, <2>1, <2>2
  <2>4. Facing
    BY <2>1, <2>2, <2>3 DEF Facing
  <2>5. CASE s # Session
    BY <1>7, <1>11, <2>2, <2>4, <2>5
  <2>6. CASE s = Session
    <3>1. Dialled \in open /\ ~ connector.stopped
      BY <1>1, <1>15, <2>1, SocketIs DEF Sockets
    <3>2. closed \notin In(down["bridge"])
      BY <1>1, <2>1, <2>3, <3>1 DEF BridgeTold
    <3>3. ~ Closing(down["bridge"])
      BY <1>2, <1>15, <3>2, ClosingIs
    <3>4. Hears(Dialled)
      BY <1>1, <2>1, <3>1, OwnIs
    <3>5. g \in In(a)
      BY <1>5, <1>7, <1>15, <2>1, <2>6, <3>3, <3>4
    <3> QED
      BY <1>3, <1>7, <1>11, <2>4, <2>6, <3>5
  <2> QED
    BY <2>5, <2>6
<1>22. /\ Chain(a, Later)
       /\ PeerOffline \in In(a) => PeerOffline \in In(down["bridge"])
       /\ Chain(down["bridge"], Staying(phone.n)) => Chain(a, Staying(phone.n))
       /\ \A m \in In(a) : Frame(m) => m \in In(down["bridge"])
            \/ (s[1] = "phone" /\ m \in In(up[s]) /\ peers["phone"] = s)
       /\ \A m \in In(b) : Frame(m) => m \in In(down["phone"]) \/ (s[1] = "bridge" /\ m \in In(up[s]))
       /\ taken \in In(b) => taken \in In(down["phone"])
  <2>1. \A x \in Msg : <<x, g>> \in Staying(phone.n)
    BY <1>3, <1>4 DEF Staying
  <2>2. Chain(down["bridge"], Later)
    BY <1>1 DEF Ordered
  <2>3. ASSUME s[1] = "phone", NEW x \in In(down["bridge"])
        PROVE  <<x, g>> \in Later
    <3>1. Author(g) = s[2]
      BY <1>1, <1>2, <1>3, <2>3 DEF Queues
    <3>2. Frame(x) => Author(x) <= s[2]
      BY <1>1, <1>2, <1>3, <2>3 DEF Ordered
    <3> QED
      BY <1>3, <1>16, <3>1, <3>2 DEF Later
  <2>4. Chain(a, Later)
    BY <1>8, <2>2, <2>3
  <2>5. Chain(down["bridge"], Staying(phone.n)) => Chain(a, Staying(phone.n))
    BY <1>8, <1>16, <2>1
  <2>6. s[1] = "phone" => peers["phone"] = s
    BY <1>10
  <2> QED
    BY <1>3, <1>4, <1>5, <1>7, <2>4, <2>5, <2>6
<1>23. PeersMove(s)
  BY <1>1 DEF PeersMove, Sockets
<1>24. QueuesMove(s)
  <2>1. Chain(up[s], NotRegister) /\ (s[1] = "bridge" => Chain(up[s], Newer))
    BY <1>1, <1>2 DEF Queues, Ordered
  <2> QED
    BY <1>10, <1>11, <2>1 DEF QueuesMove
<1>25. InboxesMove(s)
  BY <1>7, <1>22 DEF InboxesMove, a, b, taken
<1>26. FacingMoves
  BY <1>21 DEF FacingMoves
<1> QED
  BY <1>2, <1>12, <1>17, <1>18, <1>20, <1>23, <1>24, <1>25, <1>26, AfterRelay

\* A socket that the relay closes.
LEMMA ClosedKeeps ==
  ASSUME RelayInv, NEW s \in open, up[s] # <<>>, Head(up[s]) = closed,
         open' = open \ {s}, up' = [up EXCEPT ![s] = <<>>],
         peers' = IF peers[s[1]] = s THEN [peers EXCEPT ![s[1]] = None] ELSE peers,
         down' = Delivered(s, <<closed>>, IF peers[s[1]] = s THEN <<PeerOffline>> ELSE <<>>),
         connector' = connector, phone' = phone,
         backend' = backend, greeted' = greeted, carriedOver' = carriedOver,
         faults' = faults, overQuota' = overQuota
  PROVE  RelayInv'
<1> DEFINE taken == Error("routing-id-taken")
           registered == peers[s[1]] = s
           ms == <<closed>>
           ns == IF registered THEN <<PeerOffline>> ELSE <<>>
<1>1. RelayTypeOK /\ Sockets /\ Queues /\ BridgeTold /\ PhoneTold /\ Ordered /\ Fresh /\ Paired /\ Accusing
  BY DEF RelayInv
<1>2. /\ up \in [Socket -> Seq(Msg)] /\ down \in [End -> Seq(Msg)] /\ open \subseteq Socket
      /\ peers \in [End -> Socket \cup {None}] /\ connector \in Connector /\ phone \in Phone
      /\ s \in Socket /\ s[1] \in End /\ s # None
  BY <1>1, SocketIs DEF RelayTypeOK
<1>3. /\ closed \in Msg /\ PeerOffline \in Msg /\ ~ Frame(closed) /\ ~ Frame(PeerOffline)
      /\ Ends(closed) /\ Ends(PeerOffline) /\ closed # PeerOffline /\ taken \notin {closed, PeerOffline}
      /\ <<>> \in Seq(Msg) /\ In(<<>>) = {} /\ (\A R : Chain(<<>>, R))
  BY NoticesDiffer, NoticeIs, Emptied
<1> HIDE DEF taken
<1>4. /\ ms \in Seq(Msg) /\ In(ms) = {closed} /\ \A R : Chain(ms, R)
      /\ ns \in Seq(Msg) /\ In(ns) = (IF registered THEN {PeerOffline} ELSE {}) /\ \A R : Chain(ns, R)
  BY <1>3, Single
<1> HIDE DEF ms, ns
<1>5. down' = Delivered(s, ms, ns)
  BY DEF ms, ns
<1> DEFINE a == down'["bridge"]
           b == down'["phone"]
<1>6. /\ down' \in [End -> Seq(Msg)]
      /\ ~ HearsClose(Dialled) => a = down["bridge"]
      /\ ~ Hears(Dialled) => In(a) \subseteq In(down["bridge"]) \cup {closed}
      /\ ~ Hears(Session) => b = down["phone"]
      /\ In(down["bridge"]) \subseteq In(a) /\ In(down["phone"]) \subseteq In(b)
      /\ In(a) \subseteq In(down["bridge"]) \cup
           (IF s = Dialled THEN In(ms)
            ELSE IF s[1] = "phone" /\ peers["bridge"] = Dialled THEN In(ns) ELSE {})
      /\ In(b) \subseteq In(down["phone"]) \cup
           (IF s = Session THEN In(ms)
            ELSE IF s[1] = "bridge" /\ peers["phone"] = Session THEN In(ns) ELSE {})
      /\ Hears(Session) /\ ~ Closing(down["phone"]) =>
           /\ s = Session => In(ms) \subseteq In(b)
           /\ s[1] = "bridge" /\ peers["phone"] = Session => In(ns) \subseteq In(b)
  BY <1>1, <1>2, <1>4, <1>5, InboxesAre
<1>7. \A R : /\ Chain(down["bridge"], R)
             /\ \A x \in In(down["bridge"]), y \in In(ms) : <<x, y>> \in R
             /\ s[1] = "phone" => \A x \in In(down["bridge"]), y \in In(ns) : <<x, y>> \in R
             => Chain(a, R)
  BY <1>1, <1>2, <1>4, <1>5, InboxesAre
<1>8. \A e : FreshFrom(down["phone"], e) => FreshFrom(b, e)
  <2>1. (\A m \in In(ms) : ~ Frame(m)) /\ \A m \in In(ns) : ~ Frame(m)
    BY <1>3, <1>4
  <2> QED
    BY <1>1, <1>2, <1>4, <1>5, <2>1, InboxesAre
<1>9. up' \in [Socket -> Seq(Msg)] /\ up'[s] = <<>> /\ \A x \in Socket : x # s => up'[x] = up[x]
  BY <1>1, <1>2, <1>3, TakenIs
<1>10. /\ peers' \in [End -> Socket \cup {None}]
       /\ registered => peers' = [peers EXCEPT ![s[1]] = None] /\ peers'[s[1]] = None
       /\ ~ registered => peers' = peers
       /\ \A e \in End : e # s[1] => peers'[e] = peers[e]
  BY <1>2
<1>11. RelayTypeOK'
  BY <1>1, <1>2, <1>6, <1>9, <1>10 DEF RelayTypeOK
<1>12. Dialled' = Dialled /\ Session' = Session /\ Live' = Live
  BY Standing
<1>13. s[1] = "phone" \/ s[1] = "bridge"
  BY <1>2 DEF End
<1>14. /\ (Live <=> Hears(Session)) /\ (s = Session => s[1] = "phone") /\ (s = Dialled => s[1] = "bridge")
       /\ (Live => Session \in Socket) /\ (connector.link = "open" => Dialled \in Socket)
       /\ "phone" \in End /\ "bridge" \in End /\ Dialled # None /\ Session # None
  BY <1>1, LiveIs, OwnIs, SocketIs DEF End, Dialled, Session
<1>15. In(down["bridge"]) \subseteq Msg
  BY <1>2, <1>14 DEF In
\* The registration goes with its socket.
<1>16. /\ peers'[s[1]] # s
       /\ \A e \in End : peers'[e] \in {peers[e], None}
       /\ \A e \in End : peers'[e] # peers[e] => e = s[1] /\ registered
  BY <1>2, <1>10
<1> HIDE DEF registered
<1>17. BridgeTold'
  <2> SUFFICES ASSUME connector.link = "open", Dialled \in open, s # Dialled
               PROVE  /\ peers'["bridge"] = Dialled \/ Register \in In(up'[Dialled]) \/ Closing(up'[Dialled])
                      /\ \A m \in In(a) : m = closed \/ peers'["bridge"] = Dialled
                      /\ closed \in In(a) => Closing(up'[Dialled])
    BY <1>12 DEF BridgeTold
  <2>1. /\ peers["bridge"] = Dialled \/ Register \in In(up[Dialled]) \/ Closing(up[Dialled])
        /\ \A m \in In(down["bridge"]) : m = closed \/ peers["bridge"] = Dialled
        /\ closed \in In(down["bridge"]) => Closing(up[Dialled])
    BY <1>1 DEF BridgeTold
  <2>2. closed \in In(a) => closed \in In(down["bridge"])
    BY <1>3, <1>4, <1>6
  <2>3. peers["bridge"] = Dialled => peers'["bridge"] = Dialled
    BY <1>14, <1>16 DEF registered
  <2>4. \A m \in In(a) : m \in In(down["bridge"]) \/ peers["bridge"] = Dialled
    BY <1>6
  <2> QED
    BY <1>9, <1>14, <2>1, <2>2, <2>3, <2>4
\* A phone is told of the close, and of the end of its peer.
<1>18. Live => /\ s = Session => closed \in In(b)
               /\ s[1] = "bridge" /\ peers["phone"] = Session /\ registered => ~ NoEnds(b)
  <2>1. Closing(down["phone"]) => closed \in In(down["phone"])
    BY <1>2, <1>14, ClosingIs
  <2>2. closed \in In(b) \/ PeerOffline \in In(b) => ~ NoEnds(b)
    BY <1>3 DEF NoEnds
  <2> QED
    BY <1>4, <1>6, <1>14, <2>1, <2>2
<1>19. PhoneTold'
  <2> SUFFICES ASSUME Live
               PROVE  IF Session \in open'
                      THEN /\ phone.phase # "registering" => peers'["phone"] = Session
                           /\ \A m \in In(b) : m = closed \/ peers'["phone"] = Session
                      ELSE closed \in In(b)
    BY <1>12 DEF PhoneTold
  <2>1. CASE s = Session
    BY <1>18, <2>1
  <2>2. CASE s # Session
    <3>1. Session \in open' <=> Session \in open
      BY <2>2
    <3>2. peers["phone"] = Session => peers'["phone"] = Session
      BY <1>14, <1>16, <2>2 DEF registered
    <3>3. \A m \in In(b) : m \in In(down["phone"]) \/ peers["phone"] = Session
      BY <1>6, <2>2
    <3> QED
      BY <1>1, <1>6, <3>1, <3>2, <3>3 DEF PhoneTold
  <2> QED
    BY <2>1, <2>2
<1>20. ASSUME Live, NoEnds(b), peers'["phone"] = Session
       PROVE  /\ s # Session /\ NoEnds(down["phone"]) /\ In(b) \subseteq In(down["phone"])
              /\ peers["phone"] = Session /\ peers'["bridge"] = peers["bridge"] /\ peers["bridge"] # s
  <2>1. s # Session /\ NoEnds(down["phone"])
    BY <1>3, <1>6, <1>18, <1>20, NoEndsIn DEF NoEnds
  <2>2. peers["phone"] = Session
    BY <1>14, <1>16, <1>20
  <2>3. ~ (s[1] = "bridge" /\ registered)
    BY <1>18, <1>20, <2>2
  <2>4. peers["bridge"] = s => s[1] = "bridge"
    BY <1>1, <1>2, <1>14 DEF Sockets
  <2> QED
    BY <1>4, <1>6, <1>14, <1>16, <2>1, <2>2, <2>3, <2>4 DEF registered
<1>21. Fresh'
  <2>1. FreshFrom(b, phone.peerEphemeral)
    BY <1>1, <1>8 DEF Fresh
  <2>2. ASSUME Live, peers'["phone"] = Session, NoEnds(b)
        PROVE  IF peers'["bridge"] = None
               THEN phone.peerEphemeral = 0 /\ \A m \in In(b) : ~ Frame(m)
               ELSE \A m \in In(up'[peers'["bridge"]]) : Frame(m) =>
                      /\ Epoch(m) >= phone.peerEphemeral
                      /\ \A k \in In(b) : Frame(k) => Epoch(k) <= Epoch(m)
    <3>1. /\ NoEnds(down["phone"]) /\ In(b) \subseteq In(down["phone"])
          /\ peers["phone"] = Session /\ peers'["bridge"] = peers["bridge"] /\ peers["bridge"] # s
      BY <1>20, <2>2
    <3>2. peers["bridge"] # None => up'[peers["bridge"]] = up[peers["bridge"]]
      BY <1>2, <1>9, <1>14, <3>1
    <3> QED
      BY <1>1, <2>2, <3>1, <3>2 DEF Fresh
  <2> QED
    BY <1>12, <2>1, <2>2 DEF Fresh
<1>22. ASSUME Facing'
       PROVE  /\ Facing
              /\ \A g \in In(down["bridge"]) \cup In(up[Session]) :
                   Frame(g) => g \in In(a) \cup In(up'[Session])
  <2>1. /\ Live /\ ~ Closing(up'[Session]) /\ NoEnds(b)
        /\ connector.link = "open" /\ peers'["bridge"] = Dialled /\ ~ Closing(up'[Dialled])
    BY <1>12, <1>22 DEF Facing
  <2>2. NoEnds(down["phone"]) /\ closed \notin In(b)
    BY <1>3, <1>6, <2>1, NoEndsIn DEF NoEnds
  <2>3. s # Session /\ Session \in Socket /\ Dialled \in Socket
    BY <1>14, <1>18, <2>1, <2>2
  <2>4. peers["bridge"] = Dialled /\ s # Dialled
    BY <1>14, <1>16, <2>1
  <2>5. up'[Session] = up[Session] /\ up'[Dialled] = up[Dialled]
    BY <1>9, <2>3, <2>4
  <2> QED
    BY <1>6, <2>1, <2>2, <2>4, <2>5 DEF Facing
<1>23. /\ Chain(a, Later)
       /\ \A m \in In(a) : Frame(m) => m \in In(down["bridge"])
       /\ \A m \in In(b) : Frame(m) => m \in In(down["phone"])
       /\ taken \in In(b) => taken \in In(down["phone"])
       /\ peers'["phone"] = Session /\ PeerOffline \in In(a) => PeerOffline \in In(down["bridge"])
       /\ peers'["phone"] = Session /\ Chain(down["bridge"], Staying(phone.n)) =>
            Chain(a, Staying(phone.n))
  <2>1. \A x \in Msg : /\ <<x, closed>> \in Later /\ <<x, PeerOffline>> \in Later
                       /\ <<x, closed>> \in Staying(phone.n)
    BY <1>3 DEF Later, Staying
  <2>2. Chain(down["bridge"], Later)
    BY <1>1 DEF Ordered
  <2>3. /\ \A x \in In(down["bridge"]), y \in In(ms) : <<x, y>> \in Later /\ <<x, y>> \in Staying(phone.n)
        /\ \A x \in In(down["bridge"]), y \in In(ns) : <<x, y>> \in Later
    BY <1>4, <1>15, <2>1
  <2>4. Chain(a, Later)
    BY <1>7, <2>2, <2>3
  <2>5. peers'["phone"] = Session /\ s[1] = "phone" => In(ns) = {}
    BY <1>4, <1>10, <1>14 DEF registered
  <2>6. peers'["phone"] = Session /\ Chain(down["bridge"], Staying(phone.n)) =>
          Chain(a, Staying(phone.n))
    BY <1>7, <2>3, <2>5
  <2>7. peers'["phone"] = Session /\ PeerOffline \in In(a) => PeerOffline \in In(down["bridge"])
    BY <1>3, <1>4, <1>6, <2>5
  <2> QED
    BY <1>3, <1>4, <1>6, <2>4, <2>6, <2>7
<1>24. PeersMove(s)
  <2>1. \A e \in End : peers'[e] # None => peers'[e] \in open' /\ peers'[e][1] = e
    BY <1>1, <1>16 DEF Sockets
  <2>2. Live /\ peers'["phone"] = Session => peers["phone"] = Session
    BY <1>14, <1>16
  <2> QED
    BY <1>10, <2>1, <2>2 DEF PeersMove, registered
<1>25. QueuesMove(s)
  BY <1>3, <1>9 DEF QueuesMove
<1>26. InboxesMove(s)
  BY <1>6, <1>23 DEF InboxesMove, a, b, taken
<1>27. FacingMoves
  BY <1>22 DEF FacingMoves
<1> QED
  BY <1>2, <1>11, <1>17, <1>19, <1>21, <1>24, <1>25, <1>26, <1>27, AfterRelay

\* A queue that is cut off and closed.
LEMMA Severed ==
  ASSUME NEW q \in Seq(Msg), NEW i \in 0 .. Len(q)
  PROVE  LET r == SubSeq(q, 1, i) \o <<closed>>
         IN  /\ r \in Seq(Msg) /\ In(r) \subseteq In(q) \cup {closed} /\ closed \in In(r) /\ Closing(r)
             /\ \A R : Chain(q, R) /\ (\A x \in In(q) : <<x, closed>> \in R) => Chain(r, R)
             /\ \A a : FreshFrom(q, a) => FreshFrom(r, a)
             /\ Chain(q, NotRegister) /\ Register \in In(q) => In(r) = {closed} \/ Register \in In(r)
<1> DEFINE c == SubSeq(q, 1, i)
           one == <<closed>>
           r == c \o one
<1>1. closed \in Msg /\ ~ Frame(closed) /\ closed # Register
  BY NoticesDiffer, NoticeIs
<1>2. one \in Seq(Msg) /\ Len(one) = 1 /\ In(one) = {closed} /\ one[1] = closed /\ \A R : Chain(one, R)
  BY <1>1, Single
<1>3. /\ c \in Seq(Msg) /\ Len(c) = i /\ In(c) \subseteq In(q) /\ (\A k \in 1 .. i : c[k] = q[k])
      /\ \A R : Chain(q, R) => Chain(c, R)
  BY Cut
<1>4. \A a : FreshFrom(q, a) => FreshFrom(c, a)
  BY FreshCut
<1> HIDE DEF c, one
<1>5. /\ r \in Seq(Msg) /\ Len(r) = i + 1 /\ In(r) = In(c) \cup {closed} /\ r[i + 1] = closed
      /\ \A R : Chain(c, R) /\ Chain(one, R) /\ (\A m \in In(c), k \in In(one) : <<m, k>> \in R)
           => Chain(r, R)
  <2>0. c \in Seq(Msg) /\ one \in Seq(Msg)
    BY <1>2, <1>3
  <2>1. /\ r \in Seq(Msg) /\ Len(r) = Len(c) + Len(one) /\ In(r) = In(c) \cup In(one)
        /\ \A k \in 1 .. Len(one) : r[Len(c) + k] = one[k]
    BY <2>0, JoinedIn
  <2>2. \A R : Chain(c, R) /\ Chain(one, R) /\ (\A m \in In(c), k \in In(one) : <<m, k>> \in R)
                => Chain(r, R)
    BY <1>2, <1>3, Joined
  <2>3. 1 \in 1 .. Len(one)
    BY <1>2
  <2> HIDE DEF r
  <2> QED
    BY <1>2, <1>3, <2>1, <2>2, <2>3
<1>6. \A a : FreshFrom(q, a) => FreshFrom(r, a)
  BY <1>1, <1>2, <1>3, <1>4, FreshJoin
<1> HIDE DEF r
<1>7. Closing(r)
  BY <1>5, ClosingIs
<1>8. ASSUME NEW R, Chain(q, R), \A x \in In(q) : <<x, closed>> \in R PROVE Chain(r, R)
  BY <1>2, <1>3, <1>5, <1>8
\* Only the oldest message of a queue registers.
<1>9. ASSUME Chain(q, NotRegister), Register \in In(q) PROVE In(r) = {closed} \/ Register \in In(r)
  <2>1. PICK k \in 1 .. Len(q) : q[k] = Register
    BY <1>9 DEF In
  <2>2. k = 1
    <3>1. ~ (1 < k)
      <4> SUFFICES ASSUME 1 < k PROVE FALSE
        OBVIOUS
      <4>1. 1 \in 1 .. Len(q) /\ <<q[1], q[k]>> \in NotRegister
        BY <1>9, <2>1 DEF Chain
      <4> QED
        BY <2>1, <4>1 DEF NotRegister
    <3> QED
      BY <2>1, <3>1
  <2>3. CASE i = 0
    <3>1. In(c) = {}
      BY <1>3, <2>3 DEF In
    <3> QED
      BY <1>5, <3>1
  <2>4. CASE i # 0
    <3>1. 1 \in 1 .. i
      BY <2>4
    <3>2. c[1] = Register /\ 1 \in 1 .. Len(c)
      BY <1>3, <2>1, <2>2, <3>1
    <3>3. Register \in In(c)
      BY <3>2 DEF In
    <3> QED
      BY <1>5, <3>3
  <2> QED
    BY <2>3, <2>4
<1>10. closed \in In(r) /\ In(r) \subseteq In(q) \cup {closed}
  BY <1>3, <1>5
<1> QED
  BY <1>5, <1>6, <1>7, <1>8, <1>9, <1>10 DEF r, c, one

\* A connection that dies.
LEMMA DiesKeeps ==
  ASSUME RelayInv, NEW s \in open, NEW i \in 0 .. Len(up[s]), NEW j \in 0 .. Len(down[s[1]]),
         up' = [up EXCEPT ![s] = SubSeq(up[s], 1, i) \o <<closed>>],
         down' = IF HearsClose(s)
                 THEN [down EXCEPT ![s[1]] = SubSeq(down[s[1]], 1, j) \o <<closed>>] ELSE down,
         peers' = peers, open' = open, connector' = connector, phone' = phone,
         backend' = backend, greeted' = greeted, carriedOver' = carriedOver,
         faults' \in Nat, overQuota' = overQuota
  PROVE  RelayInv'
<1> DEFINE q == SubSeq(up[s], 1, i) \o <<closed>>
           d == SubSeq(down[s[1]], 1, j) \o <<closed>>
           a == down'["bridge"]
           b == down'["phone"]
           taken == Error("routing-id-taken")
<1>1. RelayTypeOK /\ Sockets /\ Queues /\ BridgeTold /\ PhoneTold /\ Ordered /\ Fresh /\ Paired /\ Accusing
  BY DEF RelayInv
<1>2. /\ up \in [Socket -> Seq(Msg)] /\ down \in [End -> Seq(Msg)] /\ open \subseteq Socket
      /\ peers \in [End -> Socket \cup {None}] /\ connector \in Connector /\ phone \in Phone
      /\ s \in Socket /\ s[1] \in End /\ s # None /\ up[s] \in Seq(Msg) /\ down[s[1]] \in Seq(Msg)
  BY <1>1, SocketIs DEF RelayTypeOK
<1>3. /\ closed \in Msg /\ ~ Frame(closed) /\ Ends(closed) /\ closed \notin {Register, PeerOffline, taken}
  BY NoticesDiffer, NoticeIs
<1> HIDE DEF taken
<1>4. /\ q \in Seq(Msg) /\ In(q) \subseteq In(up[s]) \cup {closed} /\ closed \in In(q) /\ Closing(q)
      /\ \A R : Chain(up[s], R) /\ (\A x \in In(up[s]) : <<x, closed>> \in R) => Chain(q, R)
      /\ Chain(up[s], NotRegister) /\ Register \in In(up[s]) => In(q) = {closed} \/ Register \in In(q)
  BY <1>2, Severed
<1>5. /\ d \in Seq(Msg) /\ In(d) \subseteq In(down[s[1]]) \cup {closed} /\ closed \in In(d)
      /\ \A R : Chain(down[s[1]], R) /\ (\A x \in In(down[s[1]]) : <<x, closed>> \in R) => Chain(d, R)
      /\ \A e : FreshFrom(down[s[1]], e) => FreshFrom(d, e)
  BY <1>2, Severed
<1>6. up' = [up EXCEPT ![s] = q] /\ down' = IF HearsClose(s) THEN [down EXCEPT ![s[1]] = d] ELSE down
  OBVIOUS
<1> HIDE DEF q, d
<1>7. /\ up' \in [Socket -> Seq(Msg)] /\ up'[s] = q /\ \A x \in Socket : x # s => up'[x] = up[x]
  BY <1>1, <1>2, <1>4, <1>6, TakenIs
<1>8. /\ Dialled' = Dialled /\ Session' = Session /\ Live' = Live
  BY Standing
<1>9. /\ (Live <=> Hears(Session)) /\ (s = Session => s[1] = "phone") /\ (s = Dialled => s[1] = "bridge")
      /\ (Live => Session \in Socket) /\ (connector.link = "open" => Dialled \in Socket)
      /\ "phone" \in End /\ "bridge" \in End /\ (Hears(Dialled) => HearsClose(Dialled))
      /\ (HearsClose(Session) <=> Hears(Session)) /\ (HearsClose(s) => s = Dialled \/ s = Session)
  BY <1>1, <1>2, LiveIs, OwnIs DEF End, HearsClose
<1>10. /\ down' \in [End -> Seq(Msg)]
       /\ a = down["bridge"] \/ (a = d /\ s = Dialled /\ HearsClose(Dialled))
       /\ b = down["phone"] \/ (b = d /\ s = Session /\ Hears(Session))
  <2>1. CASE ~ HearsClose(s)
    BY <1>2, <1>6, <2>1
  <2>2. CASE s = Dialled /\ HearsClose(s)
    <3>1. s[1] = "bridge"
      BY <1>9, <2>2
    <3> QED
      BY <1>2, <1>5, <1>6, <1>9, <2>2, <3>1
  <2>3. CASE s = Session /\ HearsClose(s)
    <3>1. s[1] = "phone"
      BY <1>9, <2>3
    <3> QED
      BY <1>2, <1>5, <1>6, <1>9, <2>3, <3>1
  <2> QED
    BY <1>9, <2>1, <2>2, <2>3
<1>11. /\ In(a) \subseteq In(down["bridge"]) \cup {closed} /\ In(b) \subseteq In(down["phone"]) \cup {closed}
       /\ s # Dialled => a = down["bridge"]
       /\ s # Session => b = down["phone"]
       /\ b = down["phone"] \/ closed \in In(b)
       /\ \A R : Chain(down["bridge"], R) /\ (\A x \in In(down["bridge"]) : <<x, closed>> \in R) => Chain(a, R)
       /\ \A e : FreshFrom(down["phone"], e) => FreshFrom(b, e)
  BY <1>5, <1>9, <1>10
<1> HIDE DEF a, b
<1>12. RelayTypeOK'
  BY <1>1, <1>2, <1>7, <1>10 DEF RelayTypeOK
<1>13. In(down["bridge"]) \subseteq Msg /\ In(up[s]) \subseteq Msg
  BY <1>2, <1>9 DEF In
<1>14. BridgeTold'
  <2> SUFFICES ASSUME connector.link = "open", Dialled \in open
               PROVE  /\ peers["bridge"] = Dialled \/ Register \in In(up'[Dialled]) \/ Closing(up'[Dialled])
                      /\ \A m \in In(a) : m = closed \/ peers["bridge"] = Dialled
                      /\ closed \in In(a) => Closing(up'[Dialled])
    BY <1>8 DEF BridgeTold, a
  <2>1. /\ peers["bridge"] = Dialled \/ Register \in In(up[Dialled]) \/ Closing(up[Dialled])
        /\ \A m \in In(down["bridge"]) : m = closed \/ peers["bridge"] = Dialled
        /\ closed \in In(down["bridge"]) => Closing(up[Dialled])
    BY <1>1 DEF BridgeTold
  <2>2. CASE s = Dialled
    BY <1>4, <1>7, <1>11, <2>1, <2>2
  <2>3. CASE s # Dialled
    BY <1>7, <1>9, <1>11, <2>1, <2>3
  <2> QED
    BY <2>2, <2>3
<1>15. PhoneTold'
  <2> SUFFICES ASSUME Live
               PROVE  IF Session \in open
                      THEN /\ phone.phase # "registering" => peers["phone"] = Session
                           /\ \A m \in In(b) : m = closed \/ peers["phone"] = Session
                      ELSE closed \in In(b)
    BY <1>8 DEF PhoneTold, b
  <2> QED
    BY <1>1, <1>11 DEF PhoneTold
<1>16. \A x \in Socket : \A m \in In(up'[x]) : Frame(m) => m \in In(up[x])
  BY <1>3, <1>4, <1>7
<1>17. Fresh'
  <2>1. FreshFrom(b, phone.peerEphemeral)
    BY <1>1, <1>11 DEF Fresh
  <2>2. ASSUME Live, peers["phone"] = Session, NoEnds(b)
        PROVE  IF peers["bridge"] = None
               THEN phone.peerEphemeral = 0 /\ \A m \in In(b) : ~ Frame(m)
               ELSE \A m \in In(up'[peers["bridge"]]) : Frame(m) =>
                      /\ Epoch(m) >= phone.peerEphemeral
                      /\ \A k \in In(b) : Frame(k) => Epoch(k) <= Epoch(m)
    <3>1. b = down["phone"]
      BY <1>3, <1>11, <2>2 DEF NoEnds
    <3>2. IF peers["bridge"] = None
          THEN phone.peerEphemeral = 0 /\ \A m \in In(b) : ~ Frame(m)
          ELSE \A m \in In(up[peers["bridge"]]) : Frame(m) =>
                 /\ Epoch(m) >= phone.peerEphemeral
                 /\ \A k \in In(b) : Frame(k) => Epoch(k) <= Epoch(m)
      BY <1>1, <2>2, <3>1 DEF Fresh
    <3>3. peers["bridge"] # None => peers["bridge"] \in Socket
      BY <1>2, <1>9
    <3> QED
      BY <1>16, <3>2, <3>3
  <2> QED
    BY <1>8, <2>1, <2>2 DEF Fresh, b
<1>18. ASSUME Facing'
       PROVE  /\ Facing
              /\ \A g \in In(down["bridge"]) \cup In(up[Session]) :
                   Frame(g) => g \in In(a) \cup In(up'[Session])
  <2>1. /\ Live /\ ~ Closing(up'[Session]) /\ NoEnds(b)
        /\ connector.link = "open" /\ peers["bridge"] = Dialled /\ ~ Closing(up'[Dialled])
    BY <1>8, <1>18 DEF Facing, b
  <2>2. s # Session /\ s # Dialled /\ Session \in Socket /\ Dialled \in Socket
    BY <1>4, <1>7, <1>9, <2>1
  <2>3. up'[Session] = up[Session] /\ up'[Dialled] = up[Dialled]
    BY <1>7, <2>2
  <2>4. a = down["bridge"] /\ b = down["phone"]
    BY <1>11, <2>2
  <2> QED
    BY <2>1, <2>3, <2>4 DEF Facing
<1>19. /\ Chain(a, Later)
       /\ \A m \in In(a) : Frame(m) => m \in In(down["bridge"])
       /\ \A m \in In(b) : Frame(m) => m \in In(down["phone"])
       /\ taken \in In(b) => taken \in In(down["phone"])
       /\ PeerOffline \in In(a) => PeerOffline \in In(down["bridge"])
       /\ Chain(down["bridge"], Staying(phone.n)) => Chain(a, Staying(phone.n))
  <2>1. \A x \in Msg : <<x, closed>> \in Later /\ <<x, closed>> \in Staying(phone.n)
    BY <1>3 DEF Later, Staying
  <2>2. Chain(down["bridge"], Later)
    BY <1>1 DEF Ordered
  <2> QED
    BY <1>3, <1>11, <1>13, <2>1, <2>2
<1>20. PeersMove(s)
  BY <1>1 DEF PeersMove, Sockets
<1>21. QueuesMove(s)
  <2>1. Chain(up[s], NotRegister) /\ (s[1] = "bridge" => Chain(up[s], Newer))
    BY <1>1, <1>2 DEF Queues, Ordered
  <2>2. \A x \in Msg : <<x, closed>> \in NotRegister /\ <<x, closed>> \in Newer
    BY <1>3 DEF NotRegister, Newer
  <2>3. Chain(q, NotRegister) /\ (s[1] = "bridge" => Chain(q, Newer))
    BY <1>4, <1>13, <2>1, <2>2
  <2>4. ASSUME NEW m \in In(q), Frame(m) PROVE peers[s[1]] = s \/ Register \in In(q)
    <3>1. m \in In(up[s])
      BY <1>3, <1>4, <2>4
    <3>2. peers[s[1]] = s \/ Register \in In(up[s])
      BY <1>1, <1>2, <2>4, <3>1 DEF Queues
    <3>3. In(q) # {closed}
      BY <1>3, <2>4
    <3> QED
      BY <1>4, <2>1, <3>2, <3>3
  <2> QED
    BY <1>4, <1>7, <2>3, <2>4 DEF QueuesMove
<1>22. InboxesMove(s)
  <2>1. ~ HearsClose(Dialled) => a = down["bridge"]
    BY <1>10 DEF a
  <2>2. ~ Hears(Session) => b = down["phone"]
    BY <1>10 DEF b
  <2> QED
    BY <1>11, <1>19, <2>1, <2>2 DEF InboxesMove, a, b, taken
<1>23. FacingMoves
  BY <1>18 DEF FacingMoves, a
<1> QED
  BY <1>2, <1>12, <1>14, <1>15, <1>17, <1>20, <1>21, <1>22, <1>23, AfterRelay

\* What the relay does with what it reads, and a connection that dies.
LEMMA RelayReadsKeeps ==
  ASSUME RelayInv, NEW s \in Socket, RelayReads(s)
  PROVE  RelayInv'
<1> DEFINE m == Head(up[s])
<1>1. /\ s \in open /\ up[s] # <<>> /\ faults \in Nat /\ overQuota \in BOOLEAN
      /\ connector' = connector /\ phone' = phone /\ backend' = backend /\ greeted' = greeted
      /\ carriedOver' = carriedOver
  BY DEF RelayReads, RelayInv, RelayTypeOK
<1>2. CASE m = Register /\ RelayRegisters(s) /\ UNCHANGED <<faults, overQuota>>
  <2>1. CASE peers[s[1]] # None
    <3>1. /\ open' = open \ {s} /\ up' = [up EXCEPT ![s] = <<>>]
          /\ down' = Delivered(s, <<Error("routing-id-taken"), closed>>, <<>>) /\ peers' = peers
      BY <1>2, <2>1 DEF RelayRegisters
    <3> QED
      BY <1>1, <1>2, <2>1, <3>1, RefusedKeeps
  <2>2. CASE peers[s[1]] = None
    <3>1. /\ peers' = [peers EXCEPT ![s[1]] = s] /\ up' = [up EXCEPT ![s] = Tail(up[s])]
          /\ down' = Delivered(s, IF peers[Other(s[1])] = None THEN <<Registered>>
                                  ELSE <<Registered, PeerOnline>>, <<PeerOnline>>)
          /\ open' = open
      BY <1>2, <2>2 DEF RelayRegisters
    <3> QED
      BY <1>1, <1>2, <2>2, <3>1, RegisteredKeeps
  <2> QED
    BY <2>1, <2>2
<1>3. CASE m = closed /\ RelayCloses(s) /\ UNCHANGED <<faults, overQuota>>
  <2>1. /\ open' = open \ {s} /\ up' = [up EXCEPT ![s] = <<>>]
        /\ peers' = IF peers[s[1]] = s THEN [peers EXCEPT ![s[1]] = None] ELSE peers
        /\ down' = Delivered(s, <<closed>>, IF peers[s[1]] = s THEN <<PeerOffline>> ELSE <<>>)
    BY <1>3 DEF RelayCloses
  <2> QED
    BY <1>1, <1>3, <2>1, ClosedKeeps
<1>4. ASSUME m.type \in {"relay/handshake", "relay/data"}, NEW exceeded \in BOOLEAN,
             RelayForwards(s, exceeded)
      PROVE  RelayInv'
  <2>1. /\ up' = [up EXCEPT ![s] = Tail(up[s])] /\ peers' = peers /\ open' = open
        /\ faults' \in Nat /\ overQuota' \in BOOLEAN /\ Frame(m)
    BY <1>1, <1>4 DEF RelayForwards, Frame
  <2>2. CASE exceeded
    <3>1. down' = Delivered(s, <<Error("quota-exceeded")>>, <<>>)
      BY <1>4, <2>2 DEF RelayForwards
    <3> QED
      BY <1>1, <2>1, <3>1, RejectedKeeps
  <2>3. CASE ~ exceeded /\ peers[Other(s[1])] = None
    <3>1. down' = Delivered(s, <<Error("peer-offline")>>, <<>>)
      BY <1>4, <2>3 DEF RelayForwards
    <3> QED
      BY <1>1, <2>1, <3>1, RejectedKeeps
  <2>4. CASE ~ exceeded /\ peers[Other(s[1])] # None
    <3>1. down' = Delivered(s, <<>>, <<Head(up[s])>>)
      BY <1>4, <2>4 DEF RelayForwards
    <3> QED
      BY <1>1, <2>1, <2>4, <3>1, ForwardedKeeps
  <2> QED
    BY <1>4, <2>2, <2>3, <2>4
<1>5. \/ m = Register /\ RelayRegisters(s) /\ UNCHANGED <<faults, overQuota>>
      \/ m = closed /\ RelayCloses(s) /\ UNCHANGED <<faults, overQuota>>
      \/ /\ m.type \in {"relay/handshake", "relay/data"}
         /\ \E exceeded \in BOOLEAN : RelayForwards(s, exceeded)
  BY DEF RelayReads
<1> QED
  BY <1>2, <1>3, <1>4, <1>5

LEMMA ConnectionDiesKeeps ==
  ASSUME RelayInv, NEW s \in Socket, ConnectionDies(s)
  PROVE  RelayInv'
<1>1. /\ s \in open /\ faults' \in Nat
      /\ connector' = connector /\ phone' = phone /\ backend' = backend /\ greeted' = greeted
      /\ peers' = peers /\ open' = open /\ overQuota' = overQuota /\ carriedOver' = carriedOver
  BY DEF ConnectionDies, RelayInv, RelayTypeOK
<1>2. PICK i \in 0 .. Len(up[s]) : up' = [up EXCEPT ![s] = SubSeq(up[s], 1, i) \o <<closed>>]
  BY DEF ConnectionDies
<1>3. \E j \in 0 .. Len(down[s[1]]) :
        down' = IF HearsClose(s)
                THEN [down EXCEPT ![s[1]] = SubSeq(down[s[1]], 1, j) \o <<closed>>] ELSE down
  <2>1. 0 \in 0 .. Len(down[s[1]])
    <3>1. s[1] \in End /\ down \in [End -> Seq(Msg)]
      BY SocketIs DEF RelayInv, RelayTypeOK
    <3>2. Len(down[s[1]]) \in Nat
      BY <3>1
    <3> QED
      BY <3>2
  <2>2. CASE HearsClose(s)
    BY <2>2 DEF ConnectionDies
  <2>3. CASE ~ HearsClose(s)
    <3>1. down' = down
      BY <2>3 DEF ConnectionDies
    <3> QED
      BY <2>1, <2>3, <3>1
  <2> QED
    BY <2>2, <2>3
<1>4. PICK j \in 0 .. Len(down[s[1]]) :
        down' = IF HearsClose(s)
                THEN [down EXCEPT ![s[1]] = SubSeq(down[s[1]], 1, j) \o <<closed>>] ELSE down
  BY <1>3
<1> QED
  BY <1>1, <1>2, <1>4, DiesKeeps

-----------------------------------------------------------------------------
\* What the two ends do.

\* What is on its way, before a step and after it.
LEMMA OnTheirWay ==
  ASSUME RelayTypeOK
  PROVE  /\ PhoneSent \in SUBSET Frames /\ BridgeSent \in SUBSET Frames
         /\ \A g : g \in PhoneSent <=>
              Frame(g) /\ (g \in In(down["bridge"]) \/ \E x \in Socket : x[1] = "phone" /\ g \in In(up[x]))
         /\ \A g : g \in BridgeSent <=>
              Frame(g) /\ (g \in In(down["phone"]) \/ \E x \in Socket : x[1] = "bridge" /\ g \in In(up[x]))
<1>1. /\ up \in [Socket -> Seq(Msg)] /\ down["bridge"] \in Seq(Msg) /\ down["phone"] \in Seq(Msg)
  BY EndIs DEF RelayTypeOK
<1> QED
  BY <1>1, FramesInAre DEF PhoneSent, BridgeSent

LEMMA OnTheirWayNext ==
  ASSUME RelayTypeOK'
  PROVE  /\ PhoneSent' \in SUBSET Frames /\ BridgeSent' \in SUBSET Frames
         /\ \A g : g \in PhoneSent' <=>
              Frame(g) /\ (g \in In(down'["bridge"]) \/ \E x \in Socket : x[1] = "phone" /\ g \in In(up'[x]))
         /\ \A g : g \in BridgeSent' <=>
              Frame(g) /\ (g \in In(down'["phone"]) \/ \E x \in Socket : x[1] = "bridge" /\ g \in In(up'[x]))
<1> DEFINE a == down'["bridge"]
           b == down'["phone"]
           u == up'
<1>1. u \in [Socket -> Seq(Msg)] /\ a \in Seq(Msg) /\ b \in Seq(Msg)
  BY EndIs DEF RelayTypeOK
<1>2. PhoneSent' = FramesIn(a, u, "phone") /\ BridgeSent' = FramesIn(b, u, "bridge")
  BY DEF PhoneSent, BridgeSent, FramesIn
<1> HIDE DEF a, b, u
<1>3. /\ FramesIn(a, u, "phone") \in SUBSET Frames
      /\ \A g : g \in FramesIn(a, u, "phone") <=>
           Frame(g) /\ (g \in In(a) \/ \E x \in Socket : x[1] = "phone" /\ g \in In(u[x]))
  BY <1>1, FramesInAre
<1>4. /\ FramesIn(b, u, "bridge") \in SUBSET Frames
      /\ \A g : g \in FramesIn(b, u, "bridge") <=>
           Frame(g) /\ (g \in In(b) \/ \E x \in Socket : x[1] = "bridge" /\ g \in In(u[x]))
  BY <1>1, FramesInAre
<1> QED
  BY <1>2, <1>3, <1>4 DEF a, b, u

\* What an end sends.
LEMMA Sending ==
  ASSUME RelayTypeOK, Queues, peers' = peers, NEW s, s \in open => s \in Socket,
         NEW ms \in Seq(Msg), up' = Sent(s, ms), Register \notin In(ms),
         s \in open /\ ~ Closing(up[s]) => \A g \in In(ms) : Frame(g) =>
           /\ \/ peers[s[1]] = s
              \/ s[1] = "bridge" /\ g.type = "relay/data" /\ Register \in In(up[s])
           /\ s[1] = "phone" => Author(g) = s[2]
  PROVE  /\ up' \in [Socket -> Seq(Msg)] /\ Queues'
         /\ \A x \in Socket : /\ In(up[x]) \subseteq In(up'[x])
                              /\ Closing(up[x]) \/ x # s \/ s \notin open => up'[x] = up[x]
                              /\ \A g \in In(up'[x]) : g \in In(up[x]) \/
                                   (x = s /\ s \in open /\ ~ Closing(up[s]) /\ g \in In(ms))
         /\ s \in open /\ ~ Closing(up[s]) => In(ms) \subseteq In(up'[s])
         /\ \A R : s \in open /\ Chain(up[s], R) /\ Chain(ms, R)
                   /\ (\A x \in In(up[s]), y \in In(ms) : <<x, y>> \in R) => Chain(up'[s], R)
<1>1. /\ up \in [Socket -> Seq(Msg)] /\ up' \in [Socket -> Seq(Msg)]
      /\ \A x \in Socket : x # s => up'[x] = up[x]
      /\ s \in open => up'[s] = Push(up[s], ms)
      /\ s \notin open => up' = up
  BY SentIs DEF RelayTypeOK
<1>2. s \in open /\ Closing(up[s]) => up'[s] = up[s]
  BY <1>1, PushIs
<1>3. s \in open /\ ~ Closing(up[s]) => up'[s] = up[s] \o ms /\ In(up'[s]) = In(up[s]) \cup In(ms)
  <2> SUFFICES ASSUME s \in open, ~ Closing(up[s])
               PROVE  up'[s] = up[s] \o ms /\ In(up'[s]) = In(up[s]) \cup In(ms)
    OBVIOUS
  <2>1. up[s] \in Seq(Msg) /\ up'[s] = Push(up[s], ms)
    BY <1>1
  <2>2. Push(up[s], ms) = up[s] \o ms /\ In(Push(up[s], ms)) = In(up[s]) \cup In(ms)
    BY <2>1, PushIs
  <2> QED
    BY <2>1, <2>2
<1>4. ASSUME NEW R, s \in open, Chain(up[s], R), Chain(ms, R),
             \A x \in In(up[s]), y \in In(ms) : <<x, y>> \in R
      PROVE  Chain(up'[s], R)
  <2>1. up[s] \in Seq(Msg)
    BY <1>1, <1>4
  <2>2. Chain(up[s] \o ms, R)
    BY <1>4, <2>1, Joined
  <2> QED
    BY <1>2, <1>3, <1>4, <2>2
<1>5. ASSUME NEW x \in Socket
      PROVE  /\ In(up[x]) \subseteq In(up'[x])
             /\ Closing(up[x]) \/ x # s \/ s \notin open => up'[x] = up[x]
             /\ \A g \in In(up'[x]) : g \in In(up[x]) \/
                  (x = s /\ s \in open /\ ~ Closing(up[s]) /\ g \in In(ms))
  BY <1>1, <1>2, <1>3
<1>6. Queues'
  <2> SUFFICES ASSUME NEW x \in Socket
               PROVE  /\ Chain(up'[x], NotRegister)
                      /\ Register \in In(up'[x]) => peers[x[1]] # x
                      /\ \A m \in In(up'[x]) : Frame(m) =>
                           /\ \/ peers[x[1]] = x
                              \/ x[1] = "bridge" /\ m.type = "relay/data" /\ Register \in In(up'[x])
                           /\ x[1] = "phone" => Author(m) = x[2]
    BY DEF Queues
  <2>1. /\ Chain(up[x], NotRegister)
        /\ Register \in In(up[x]) => peers[x[1]] # x
        /\ \A m \in In(up[x]) : Frame(m) =>
             /\ \/ peers[x[1]] = x
                \/ x[1] = "bridge" /\ m.type = "relay/data" /\ Register \in In(up[x])
             /\ x[1] = "phone" => Author(m) = x[2]
    BY DEF Queues
  <2>2. CASE x # s \/ s \notin open
    BY <1>1, <2>1, <2>2
  <2>3. CASE x = s /\ s \in open
    <3>1. Chain(up'[s], NotRegister)
      <4>1. In(ms) \subseteq Msg /\ In(up[s]) \subseteq Msg
        BY <1>1, <2>3 DEF In
      <4>2. Chain(ms, NotRegister) /\ \A y \in In(up[s]), z \in In(ms) : <<y, z>> \in NotRegister
        <5>1. \A i \in 1 .. Len(ms) : ms[i] \in In(ms)
          BY DEF In
        <5> QED
          BY <4>1, <5>1 DEF Chain, NotRegister
      <4> QED
        BY <1>4, <2>1, <2>3, <4>2
    <3>2. Register \in In(up'[s]) => Register \in In(up[s])
      BY <1>5, <2>3
    <3>3. ASSUME NEW m \in In(up'[s]), Frame(m)
          PROVE  /\ \/ peers[s[1]] = s
                    \/ s[1] = "bridge" /\ m.type = "relay/data" /\ Register \in In(up'[s])
                 /\ s[1] = "phone" => Author(m) = s[2]
      BY <1>5, <2>1, <2>3, <3>3
    <3> QED
      BY <2>1, <2>3, <3>1, <3>2, <3>3
  <2> QED
    BY <2>2, <2>3
<1> QED
  BY <1>1, <1>3, <1>4, <1>5, <1>6

\* What the steps of the connector have in common, but for its dials.
LEMMA AfterConnector ==
  ASSUME RelayInv, RelayTypeOK', phone' = phone, peers' = peers, open' = open,
         connector'.n = connector.n, connector'.ephemerals >= connector.ephemerals,
         connector'.link = connector.link \/ connector'.link \in {"closing", "closed"},
         connector'.stopped => connector'.link \in {"closing", "closed"},
         connector'.link = "closing" => In(down'["bridge"]) \subseteq {closed},
         down'["phone"] = down["phone"], In(down'["bridge"]) \subseteq In(down["bridge"]),
         \A R : Chain(down["bridge"], R) => Chain(down'["bridge"], R),
         NEW C \in SUBSET Frames, BridgeSent \subseteq C,
         NEW ms \in Seq(Msg), up' = Sent(Dialled, ms),
         \A g \in In(ms) : g = closed \/ (Frame(g) /\ Epoch(g) = connector'.ephemerals /\ g \in C),
         Dialled \in open /\ ~ Closing(up[Dialled]) => \A g \in In(ms) : Frame(g) =>
           peers["bridge"] = Dialled \/ (g.type = "relay/data" /\ Register \in In(up[Dialled])),
         NEW Q \in SUBSET Frames, PhoneSent' \subseteq Q,
         NEW t \in 0 .. MaxSessions, Agreed(connector', phone, Q, C, t), Present(t)',
         Facing' => Mutual(connector', phone, Q, C) /\ Q \subseteq PhoneSent'
  PROVE  RelayInv'
<1> DEFINE d == connector'
           a == down'["bridge"]
<1>1. RelayTypeOK /\ Sockets /\ Queues /\ BridgeTold /\ PhoneTold /\ Ordered /\ Fresh /\ Accusing
  BY DEF RelayInv
<1>2. /\ up \in [Socket -> Seq(Msg)] /\ down \in [End -> Seq(Msg)] /\ open \subseteq Socket
      /\ peers \in [End -> Socket \cup {None}] /\ connector \in Connector /\ phone \in Phone
      /\ d \in Connector /\ a \in Seq(Msg)
      /\ connector.ephemerals \in Nat /\ d.ephemerals \in Nat /\ phone.peerEphemeral \in Nat
  BY <1>1, EndIs DEF RelayTypeOK, Connector, Phone
<1>3. /\ Dialled' = Dialled /\ Session' = Session /\ Live' = Live /\ \A e : Own(e)' = Own(e)
  BY DEF Dialled, Session, Live, Own
<1>4. /\ Dialled # Session /\ Dialled[1] = "bridge" /\ Session[1] = "phone" /\ Dialled # None
      /\ (connector.link = "open" => Dialled \in Socket) /\ (Live => Session \in Socket)
      /\ "phone" \in End /\ "bridge" \in End /\ (Dialled \in open => Dialled \in Socket)
  BY <1>1, <1>2, OwnIs, LiveIs, SocketIs DEF End, Dialled
<1>5. closed # Register /\ ~ Frame(closed) /\ ~ Frame(Register)
  BY NoticesDiffer, NoticeIs
<1>6. /\ up' \in [Socket -> Seq(Msg)] /\ Queues'
      /\ \A x \in Socket : /\ In(up[x]) \subseteq In(up'[x])
                           /\ Closing(up[x]) \/ x # Dialled \/ Dialled \notin open => up'[x] = up[x]
                           /\ \A g \in In(up'[x]) : g \in In(up[x]) \/
                                (x = Dialled /\ Dialled \in open /\ ~ Closing(up[Dialled]) /\ g \in In(ms))
      /\ \A R : Dialled \in open /\ Chain(up[Dialled], R) /\ Chain(ms, R)
                /\ (\A x \in In(up[Dialled]), y \in In(ms) : <<x, y>> \in R) => Chain(up'[Dialled], R)
  <2>1. Register \notin In(ms)
    BY <1>5
  <2>2. Dialled \in open /\ ~ Closing(up[Dialled]) => \A g \in In(ms) : Frame(g) =>
           /\ \/ peers[Dialled[1]] = Dialled
              \/ Dialled[1] = "bridge" /\ g.type = "relay/data" /\ Register \in In(up[Dialled])
           /\ Dialled[1] = "phone" => Author(g) = Dialled[2]
    BY <1>4
  <2> QED
    BY <1>1, <1>4, <2>1, <2>2, Sending
<1>7. /\ \A g : g \in PhoneSent <=>
           Frame(g) /\ (g \in In(down["bridge"]) \/ \E x \in Socket : x[1] = "phone" /\ g \in In(up[x]))
      /\ \A g : g \in BridgeSent <=>
           Frame(g) /\ (g \in In(down["phone"]) \/ \E x \in Socket : x[1] = "bridge" /\ g \in In(up[x]))
      /\ PhoneSent \in SUBSET Frames /\ BridgeSent \in SUBSET Frames
  BY <1>1, OnTheirWay
<1>8. /\ \A g : g \in BridgeSent' <=>
           Frame(g) /\ (g \in In(down'["phone"]) \/ \E x \in Socket : x[1] = "bridge" /\ g \in In(up'[x]))
      /\ PhoneSent' \in SUBSET Frames /\ BridgeSent' \in SUBSET Frames
  BY OnTheirWayNext
<1>9. BridgeSent' \subseteq C
  <2> SUFFICES ASSUME NEW g \in BridgeSent' PROVE g \in C
    OBVIOUS
  <2>1. Frame(g) /\ (g \in In(down["phone"]) \/ \E x \in Socket : x[1] = "bridge" /\ g \in In(up'[x]))
    BY <1>8
  <2>2. CASE g \in In(ms)
    BY <1>5, <2>1, <2>2
  <2>3. CASE g \notin In(ms)
    <3>1. g \in BridgeSent
      BY <1>6, <1>7, <2>1, <2>3
    <3> QED
      BY <3>1
  <2> QED
    BY <2>2, <2>3
<1>10. \A m \in BridgeSent : Epoch(m) \in 1 .. connector.ephemerals
  BY <1>1 DEF RelayInv, Agreed, Shapes
<1>11. phone.peerEphemeral <= d.ephemerals
  <2>1. phone.peerEphemeral \in 0 .. connector.ephemerals
    BY DEF RelayInv, Agreed, Theirs
  <2> QED
    BY <1>2, <2>1
<1> HIDE DEF d, a
<1>12. Sockets'
  <2>1. \A s \in open : s[2] <= Own(s[1])[2]
    BY <1>1 DEF Sockets
  <2>2. d.link \in {"none", "dialing"} => Dialled \notin open /\ a = <<>>
    <3> SUFFICES ASSUME d.link \in {"none", "dialing"} PROVE Dialled \notin open /\ a = <<>>
      OBVIOUS
    <3>1. Dialled \notin open /\ down["bridge"] = <<>>
      BY <1>1 DEF Sockets, d
    <3>2. In(a) \subseteq {}
      BY <3>1, Emptied DEF a
    <3>3. a # <<>> => Head(a) \in In(a)
      BY <1>2, Headed
    <3> QED
      BY <3>1, <3>2, <3>3
  <2>3. /\ d.link = "closing" => In(a) \subseteq {closed}
        /\ d.stopped => d.link \in {"closing", "closed"}
    BY DEF d, a
  <2> QED
    BY <1>1, <1>3, <2>1, <2>2, <2>3 DEF Sockets, d, a
<1>13. BridgeTold'
  <2> SUFFICES ASSUME d.link = "open", Dialled \in open
               PROVE  /\ peers["bridge"] = Dialled \/ Register \in In(up'[Dialled]) \/ Closing(up'[Dialled])
                      /\ \A m \in In(a) : m = closed \/ peers["bridge"] = Dialled
                      /\ closed \in In(a) => Closing(up'[Dialled])
    BY <1>3 DEF BridgeTold, d, a
  <2>1. connector.link = "open"
    BY DEF d
  <2>2. /\ peers["bridge"] = Dialled \/ Register \in In(up[Dialled]) \/ Closing(up[Dialled])
        /\ \A m \in In(down["bridge"]) : m = closed \/ peers["bridge"] = Dialled
        /\ closed \in In(down["bridge"]) => Closing(up[Dialled])
    BY <1>1, <2>1 DEF BridgeTold
  <2>3. In(up[Dialled]) \subseteq In(up'[Dialled]) /\ (Closing(up[Dialled]) => Closing(up'[Dialled]))
    BY <1>4, <1>6, <2>1
  <2> QED
    BY <2>2, <2>3 DEF a
<1>14. PhoneTold'
  BY <1>1, <1>3 DEF PhoneTold
<1>15. Ordered'
  <2>1. Chain(a, Later)
    BY <1>1 DEF Ordered, a
  <2>2. \A s \in Socket : s[1] = "phone" =>
          \A m \in In(up'[s]), k \in In(a) : Frame(m) /\ Frame(k) => Author(k) <= s[2]
    <3>1. \A s \in Socket : s[1] = "phone" => up'[s] = up[s]
      BY <1>4, <1>6
    <3> QED
      BY <1>1, <3>1 DEF Ordered, a
  <2>3. ASSUME NEW s \in Socket, s[1] = "bridge" PROVE Chain(up'[s], Newer)
    <3>1. Chain(up[s], Newer)
      BY <1>1, <2>3 DEF Ordered
    <3>2. CASE s # Dialled \/ Dialled \notin open
      BY <1>6, <3>1, <3>2
    <3>3. CASE s = Dialled /\ Dialled \in open
      <4>1. In(ms) \subseteq Msg /\ In(up[Dialled]) \subseteq Msg
        BY <1>2, <1>4, <3>3 DEF In
      <4>2. \A y \in In(up[Dialled]) : Frame(y) => Epoch(y) \in Nat /\ Epoch(y) <= d.ephemerals
        <5>1. \A y \in In(up[Dialled]) : Frame(y) => y \in BridgeSent
          BY <1>4, <1>7, <3>3
        <5>2. \A y \in BridgeSent : Epoch(y) \in 1 .. connector.ephemerals
          BY <1>10
        <5> QED
          BY <1>2, <5>1, <5>2 DEF d
      <4>3. \A y \in In(ms) : Frame(y) => Epoch(y) = d.ephemerals
        BY <1>5 DEF d
      <4>4. \A y \in In(up[Dialled]), z \in In(ms) : <<y, z>> \in Newer
        BY <4>1, <4>2, <4>3 DEF Newer
      <4>5. \A y \in In(ms), z \in In(ms) : <<y, z>> \in Newer
        BY <1>2, <4>1, <4>3 DEF Newer
      <4>6. Chain(ms, Newer)
        <5>1. \A i \in 1 .. Len(ms) : ms[i] \in In(ms)
          BY DEF In
        <5> QED
          BY <4>5, <5>1 DEF Chain
      <4> QED
        BY <1>6, <3>1, <3>3, <4>4, <4>6
    <3> QED
      BY <3>2, <3>3
  <2> QED
    BY <2>1, <2>2, <2>3 DEF Ordered, a
<1>16. Fresh'
  <2>1. FreshFrom(down["phone"], phone.peerEphemeral)
    BY <1>1 DEF Fresh
  <2>2. ASSUME Live, peers["phone"] = Session, NoEnds(down["phone"])
        PROVE  IF peers["bridge"] = None
               THEN phone.peerEphemeral = 0 /\ \A m \in In(down["phone"]) : ~ Frame(m)
               ELSE \A m \in In(up'[peers["bridge"]]) : Frame(m) =>
                      /\ Epoch(m) >= phone.peerEphemeral
                      /\ \A k \in In(down["phone"]) : Frame(k) => Epoch(k) <= Epoch(m)
    <3>1. IF peers["bridge"] = None
          THEN phone.peerEphemeral = 0 /\ \A m \in In(down["phone"]) : ~ Frame(m)
          ELSE \A m \in In(up[peers["bridge"]]) : Frame(m) =>
                 /\ Epoch(m) >= phone.peerEphemeral
                 /\ \A k \in In(down["phone"]) : Frame(k) => Epoch(k) <= Epoch(m)
      BY <1>1, <2>2 DEF Fresh
    <3>2. \A k \in In(down["phone"]) : Frame(k) => Epoch(k) <= d.ephemerals
      <4>1. \A k \in In(down["phone"]) : Frame(k) => Epoch(k) \in 1 .. connector.ephemerals
        BY <1>7, <1>10
      <4> QED
        BY <1>2, <4>1 DEF d
    <3>3. \A m \in In(ms) : Frame(m) => Epoch(m) = d.ephemerals
      BY <1>5 DEF d
    <3>4. d.ephemerals >= phone.peerEphemeral
      BY <1>2, <1>11
    <3>5. peers["bridge"] # None => peers["bridge"] \in Socket
      BY <1>2, <1>4
    <3>6. peers["bridge"] # None =>
            \A m \in In(up'[peers["bridge"]]) : m \in In(up[peers["bridge"]]) \/ m \in In(ms)
      BY <1>6, <3>5
    <3> QED
      BY <3>1, <3>2, <3>3, <3>4, <3>6
  <2> QED
    BY <1>3, <2>1, <2>2 DEF Fresh
<1>17. Accusing'
  BY <1>1 DEF Accusing
<1> DEFINE P == PhoneSent'
           B == BridgeSent'
<1>19. P \in SUBSET Q /\ B \in SUBSET C
  BY <1>9
<1> HIDE DEF P, B
<1>20. Agreed(d, phone, P, B, t)
  <2>1. SameCore(d, d) /\ SameSession(phone, phone)
    BY DEF SameCore, SameSession
  <2>2. Agreed(d, phone, Q, C, t)
    BY DEF d
  <2> QED
    BY <1>2, <1>19, <2>1, <2>2, FewerAgree
<1>21. Facing' => Mutual(d, phone, P, B)
  <2> SUFFICES ASSUME Facing' PROVE Mutual(d, phone, P, B)
    OBVIOUS
  <2>1. Mutual(d, phone, Q, C) /\ Q \subseteq P
    BY DEF d, P
  <2>2. \A g \in Q : g = Handshake(phone.n, <<phone.n, phone.peerEphemeral>>) => g \in P
    BY <2>1
  <2> QED
    BY <1>2, <1>19, <2>1, <2>2, FewerMutual
<1>22. Paired'
  BY <1>21 DEF Paired, P, B, d
<1>23. Agreed(connector, phone, PhoneSent, BridgeSent, t)'
  BY <1>20 DEF P, B, d
<1> QED
  BY <1>6, <1>12, <1>13, <1>14, <1>15, <1>16, <1>17, <1>22, <1>23 DEF RelayInv

\* The variables that the invariant only types.
RestTyped ==
  /\ backend' \subseteq Work /\ greeted' \subseteq Nat
  /\ faults' \in Nat /\ overQuota' \in BOOLEAN /\ carriedOver' \in BOOLEAN

\* A step of the connector takes nothing from the phone but what it reads.
LEMMA PhoneStillSent ==
  ASSUME RelayTypeOK, RelayTypeOK', NEW ms \in Seq(Msg), up' = Sent(Dialled, ms),
         In(down'["bridge"]) \subseteq In(down["bridge"])
  PROVE  /\ PhoneSent' \subseteq PhoneSent
         /\ \A m \in PhoneSent : m \in PhoneSent' \/ m \in In(down["bridge"])
         /\ In(down["bridge"]) \subseteq In(down'["bridge"]) => PhoneSent \subseteq PhoneSent'
         /\ \A x \in Socket : x # Dialled => up'[x] = up[x]
         /\ Dialled \in Socket /\ ~ Closing(up'[Dialled]) => ~ Closing(up[Dialled])
<1>1. \A g : g \in PhoneSent <=>
           Frame(g) /\ (g \in In(down["bridge"]) \/ \E x \in Socket : x[1] = "phone" /\ g \in In(up[x]))
  BY OnTheirWay
<1>2. \A g : g \in PhoneSent' <=>
           Frame(g) /\ (g \in In(down'["bridge"]) \/ \E x \in Socket : x[1] = "phone" /\ g \in In(up'[x]))
  BY OnTheirWayNext
<1>3. Dialled[1] = "bridge" /\ (Dialled \in open => Dialled \in Socket) /\ up \in [Socket -> Seq(Msg)]
  BY OwnIs DEF RelayTypeOK
<1>4. /\ \A x \in Socket : x # Dialled => up'[x] = up[x]
      /\ Dialled \in open => up'[Dialled] = Push(up[Dialled], ms)
      /\ Dialled \notin open => up' = up
  BY <1>3, SentIs
<1>5. \A x \in Socket : x[1] = "phone" => up'[x] = up[x]
  BY <1>3, <1>4
<1>6. Dialled \in Socket /\ ~ Closing(up'[Dialled]) => ~ Closing(up[Dialled])
  BY <1>3, <1>4, PushIs
<1> QED
  BY <1>1, <1>2, <1>4, <1>5, <1>6

\* The connector seals a message, if it has a channel; what it knows of its streams may
\* change.
LEMMA ConnectorSealsKeeps ==
  ASSUME RelayInv, RestTyped, connector' \in Connector,
         phone' = phone, peers' = peers, open' = open, down' = down,
         KeepsSocket(connector, connector'), SameCore(connector, connector'),
         connector'.signed = connector.signed,
         NEW k \in Kinds, NEW i \in Nat, NEW n \in Nat,
         NEW ms, ms = <<>> \/ ms = SendTunnel(connector, Tunnel(k, i, n)), up' = Sent(Dialled, ms)
  PROVE  RelayInv'
<1> DEFINE d == connector'
           C == BridgeSent \cup In(ms)
<1>1. RelayTypeOK /\ Sockets /\ BridgeTold /\ Paired
  BY DEF RelayInv
<1>2. PICK s \in 0 .. MaxSessions : Agreed(connector, phone, PhoneSent, BridgeSent, s) /\ Present(s)
  BY DEF RelayInv
<1>3. /\ connector \in Connector /\ phone \in Phone /\ d \in Connector /\ connector.ephemerals \in Nat
      /\ down \in [End -> Seq(Msg)] /\ (Dialled \in open => Dialled \in Socket)
  BY <1>1 DEF RelayTypeOK, Connector
<1>4. PhoneSent \in SUBSET Frames /\ BridgeSent \in SUBSET Frames
  BY <1>1, OnTheirWay
<1>5. Yields(connector, phone, PhoneSent, PhoneSent, BridgeSent, {s}, Step(d, ms), Facing)
  <2>1. Registered.type # "relay/handshake"
    BY DEF Registered
  <2>2. PhoneSent \subseteq PhoneSent \cup {Registered} /\ PhoneSent \in SUBSET PhoneSent
    OBVIOUS
  <2>3. \/ ms = <<>>
        \/ \E k_1 \in Kinds, i_1 \in Nat, n_1 \in Nat : ms = SendTunnel(connector, Tunnel(k_1, i_1, n_1))
    OBVIOUS
  <2> QED
    BY <1>2, <1>3, <1>4, <2>1, <2>2, <2>3, QuietYields
<1>6. /\ ms \in Seq(Msg) /\ C \in SUBSET Frames /\ \A g \in In(ms) : Frame(g) /\ Epoch(g) = d.ephemerals
      /\ Agreed(d, phone, PhoneSent, C, s)
      /\ Mutual(connector, phone, PhoneSent, BridgeSent) /\ Facing => Mutual(d, phone, PhoneSent, C)
  BY <1>5 DEF Yields, Step
<1>0. RelayTypeOK'
  <2>1. up' \in [Socket -> Seq(Msg)]
    BY <1>1, <1>3, <1>6, SentIs
  <2> QED
    BY <1>1, <1>3, <2>1 DEF RelayTypeOK, RestTyped, KeepsSocket
<1>7. /\ PhoneSent' \subseteq PhoneSent /\ PhoneSent \subseteq PhoneSent'
      /\ \A x \in Socket : x # Dialled => up'[x] = up[x]
      /\ Dialled \in Socket /\ ~ Closing(up'[Dialled]) => ~ Closing(up[Dialled])
  BY <1>0, <1>1, <1>6, PhoneStillSent
<1>8. /\ Dialled' = Dialled /\ Session' = Session /\ Live' = Live
      /\ d.n = connector.n /\ d.link = connector.link /\ d.stopped = connector.stopped
      /\ d.ephemerals = connector.ephemerals
  BY DEF Dialled, Session, Live, KeepsSocket, SameCore
<1>9. /\ Dialled # Session /\ (connector.link = "open" => Dialled \in Socket) /\ (Live => Session \in Socket)
  BY <1>1, OwnIs, LiveIs
<1>10. Facing' => Facing
  BY <1>7, <1>8, <1>9 DEF Facing
<1>11. Facing' => Mutual(d, phone, PhoneSent, C) /\ PhoneSent \subseteq PhoneSent'
  BY <1>1, <1>6, <1>7, <1>10 DEF Paired
<1>12. Dialled \in open /\ ~ Closing(up[Dialled]) => \A g \in In(ms) : Frame(g) =>
         peers["bridge"] = Dialled \/ (g.type = "relay/data" /\ Register \in In(up[Dialled]))
  <2>1. CASE ms = <<>>
    BY <2>1, Emptied
  <2>2. CASE ms # <<>>
    <3> DEFINE g == Data(connector.channel, Tunnel(k, i, n))
    <3>1. ms = <<g>> /\ g \in Record /\ connector.link = "open"
      BY <1>3, <2>2, SendTunnelIs
    <3> HIDE DEF g
    <3>2. g.type = "relay/data" /\ g \in Msg
      BY <3>1 DEF Record, Msg
    <3>3. \A x \in In(ms) : x.type = "relay/data"
      BY <3>1, <3>2, Single DEF Msg
    <3> QED
      BY <1>1, <3>1, <3>3 DEF BridgeTold
  <2> QED
    BY <2>1, <2>2
<1>13. Present(s)'
  BY <1>2, <1>8 DEF Present
<1>14. /\ d.ephemerals >= connector.ephemerals
       /\ d.stopped => d.link \in {"closing", "closed"}
       /\ d.link = "closing" => In(down'["bridge"]) \subseteq {closed}
  BY <1>1, <1>3, <1>8 DEF Sockets
<1>15. \A g \in In(ms) : g = closed \/ (Frame(g) /\ Epoch(g) = d.ephemerals /\ g \in C)
  BY <1>6
<1> HIDE DEF C
<1>16. BridgeSent \subseteq C
  BY DEF C
<1> QED
  BY <1>0, <1>4, <1>6, <1>7, <1>8, <1>11, <1>12, <1>13, <1>14, <1>15, <1>16, AfterConnector

\* The connector gives up its channel and its socket.
LEMMA ConnectorDropsKeeps ==
  ASSUME RelayInv, RestTyped, connector' \in Connector, connector.n # 0,
         phone' = phone, peers' = peers, open' = open,
         connector'.n = connector.n, connector'.ephemerals = connector.ephemerals,
         connector'.channel = None, connector'.handshake = 0,
         connector'.link \in {"closing", "closed"},
         down' = down \/ down' = [down EXCEPT !["bridge"] = <<>>],
         connector'.link = "closing" => down' = [down EXCEPT !["bridge"] = <<>>],
         NEW ms \in {<<>>, <<closed>>}, up' = Sent(Dialled, ms)
  PROVE  RelayInv'
<1> DEFINE d == connector'
<1>1. RelayTypeOK /\ Sockets
  BY DEF RelayInv
<1>2. PICK s \in 0 .. MaxSessions : Agreed(connector, phone, PhoneSent, BridgeSent, s) /\ Present(s)
  BY DEF RelayInv
<1>3. /\ connector \in Connector /\ phone \in Phone /\ d \in Connector /\ connector.ephemerals \in Nat
      /\ down \in [End -> Seq(Msg)] /\ "bridge" \in End /\ "phone" \in End
      /\ (Dialled \in open => Dialled \in Socket)
  BY <1>1, EndIs DEF RelayTypeOK, Connector
<1>4. PhoneSent \in SUBSET Frames /\ BridgeSent \in SUBSET Frames
  BY <1>1, OnTheirWay
<1>5. ms \in Seq(Msg) /\ In(ms) \subseteq {closed} /\ In(<<>>) = {} /\ <<>> \in Seq(Msg) /\ \A R : Chain(<<>>, R)
  <2>1. closed \in Msg
    BY NoticesDiffer, NoticeIs
  <2>2. <<>> \in Seq(Msg) /\ In(<<>>) = {} /\ \A R : Chain(<<>>, R)
    BY Emptied
  <2>3. <<closed>> \in Seq(Msg) /\ In(<<closed>>) = {closed}
    BY <2>1, Single
  <2> QED
    BY <2>2, <2>3
<1>6. /\ down'["phone"] = down["phone"]
      /\ down'["bridge"] = down["bridge"] \/ down'["bridge"] = <<>>
      /\ d.link = "closing" => down'["bridge"] = <<>>
  BY <1>3
<1>7. /\ In(down'["bridge"]) \subseteq In(down["bridge"])
      /\ d.link = "closing" => In(down'["bridge"]) \subseteq {closed}
      /\ \A R : Chain(down["bridge"], R) => Chain(down'["bridge"], R)
  BY <1>5, <1>6
<1>0. RelayTypeOK'
  <2>1. up' \in [Socket -> Seq(Msg)]
    BY <1>1, <1>3, <1>5, SentIs
  <2>2. down' \in [End -> Seq(Msg)]
    BY <1>3, <1>5
  <2> QED
    BY <1>1, <1>3, <2>1, <2>2 DEF RelayTypeOK, RestTyped
<1>8. PhoneSent' \subseteq PhoneSent
  BY <1>0, <1>1, <1>5, <1>7, PhoneStillSent
<1>9. Agreed(d, phone, PhoneSent, BridgeSent, s)
  <2>1. SameSession(phone, phone)
    BY DEF SameSession
  <2>2. PhoneSent \in SUBSET PhoneSent /\ BridgeSent \in SUBSET BridgeSent
    OBVIOUS
  <2> QED
    BY <1>2, <1>3, <1>4, <2>1, <2>2, FewerAgree
<1>10. Present(s)'
  <2>1. Session' = Session /\ Live' = Live
    BY DEF Session, Live
  <2>2. PeerOffline \in In(down'["bridge"]) => PeerOffline \in In(down["bridge"])
    BY <1>7
  <2> QED
    BY <1>2, <1>7, <2>1, <2>2 DEF Present
<1>11. ~ Facing'
  BY DEF Facing
<1>12. \A g \in In(ms) : g = closed /\ ~ Frame(g)
  BY <1>5, NoticesDiffer, NoticeIs
<1>13. d.ephemerals >= connector.ephemerals
  BY <1>3
<1> QED
  BY <1>0, <1>4, <1>5, <1>6, <1>7, <1>8, <1>9, <1>10, <1>11, <1>12, <1>13, AfterConnector

\* What a method sends, and the close that may follow.
LEMMA WithItsClose ==
  ASSUME NEW q \in Seq(Msg), NEW b
  PROVE  LET ms == q \o (IF b THEN <<closed>> ELSE <<>>)
         IN  ms \in Seq(Msg) /\ In(q) \subseteq In(ms) /\ In(ms) \subseteq In(q) \cup {closed}
<1> DEFINE tail == IF b THEN <<closed>> ELSE <<>>
<1>1. closed \in Msg
  BY NoticesDiffer, NoticeIs
<1>2. <<>> \in Seq(Msg) /\ In(<<>>) = {}
  BY Emptied
<1>3. <<closed>> \in Seq(Msg) /\ In(<<closed>>) = {closed}
  BY <1>1, Single
<1>4. tail \in Seq(Msg) /\ In(tail) \subseteq {closed}
  BY <1>2, <1>3
<1> HIDE DEF tail
<1>5. q \o tail \in Seq(Msg) /\ In(q \o tail) = In(q) \cup In(tail)
  BY <1>4, Joined
<1> QED
  BY <1>4, <1>5 DEF tail

\* The connector reads a message.
LEMMA ConnectorHearsKeeps ==
  ASSUME RelayInv, RestTyped, phone' = phone, peers' = peers, open' = open,
         HearsClose(Dialled), down["bridge"] # <<>>, Head(down["bridge"]) # closed,
         NEW r, r = OnControl(connector, Head(down["bridge"])), connector' = r.object,
         up' = Sent(Dialled, r.sent \o (IF r.closes THEN <<closed>> ELSE <<>>)),
         down' = [down EXCEPT !["bridge"] = IF r.closes THEN Closes(Tail(down["bridge"]))
                                            ELSE Tail(down["bridge"])]
  PROVE  RelayInv'
<1> DEFINE q == down["bridge"]
           m == Head(q)
           T == Tail(q)
           R == FramesIn(T, up, "phone")
           d == connector'
           C == BridgeSent \cup In(r.sent)
           a == down'["bridge"]
<1>1. RelayTypeOK /\ Sockets /\ Queues /\ BridgeTold /\ PhoneTold /\ Ordered /\ Paired
  BY DEF RelayInv
<1>2. PICK s \in 0 .. MaxSessions : Agreed(connector, phone, PhoneSent, BridgeSent, s) /\ Present(s)
  BY DEF RelayInv
<1>3. /\ up \in [Socket -> Seq(Msg)] /\ down \in [End -> Seq(Msg)] /\ "bridge" \in End /\ "phone" \in End
      /\ connector \in Connector /\ phone \in Phone /\ q \in Seq(Msg) /\ q # <<>>
      /\ phone.n \in Nat /\ s \in Nat /\ connector.link \in Links
  <2>1. /\ up \in [Socket -> Seq(Msg)] /\ down \in [End -> Seq(Msg)] /\ "bridge" \in End /\ "phone" \in End
        /\ connector \in Connector /\ phone \in Phone /\ q \in Seq(Msg) /\ q # <<>>
    BY <1>1, EndIs DEF RelayTypeOK
  <2>2. phone.n \in 0 .. MaxSessions /\ connector.link \in Links
    BY <2>1 DEF Connector, Phone
  <2>3. MaxSessions \in Nat
    BY SocketIs
  <2>4. s \in Nat /\ phone.n \in Nat
    BY <1>2, <2>2, <2>3
  <2> QED
    BY <2>1, <2>2, <2>4
<1>4. PhoneSent \in SUBSET Frames /\ BridgeSent \in SUBSET Frames
      /\ \A g : g \in PhoneSent <=>
           Frame(g) /\ (g \in In(q) \/ \E x \in Socket : x[1] = "phone" /\ g \in In(up[x]))
  BY <1>1, OnTheirWay
<1> HIDE DEF q
<1>5. /\ m \in Msg /\ m \in In(q) /\ T \in Seq(Msg) /\ In(T) \subseteq In(q) /\ In(q) = {m} \cup In(T)
      /\ \A X : Chain(q, X) => Chain(T, X) /\ \A k \in In(T) : <<m, k>> \in X
  BY <1>3, Headed
<1>6. Closes(T) \in Seq(Msg) /\ In(Closes(T)) \subseteq {closed} \cap In(T) /\ Closes(T) \in {<<>>, <<closed>>}
  BY <1>5, ClosingIs
<1>7. m # closed /\ r = OnControl(connector, m)
  BY DEF q
<1> HIDE DEF m, T
<1>8. /\ R \in SUBSET Frames
      /\ \A g : g \in R <=>
           Frame(g) /\ (g \in In(T) \/ \E x \in Socket : x[1] = "phone" /\ g \in In(up[x]))
  BY <1>3, <1>5, FramesInAre
<1> HIDE DEF R
<1>9. R \in SUBSET PhoneSent /\ PhoneSent \subseteq R \cup {m}
  BY <1>4, <1>5, <1>8
\* It reads in the order in which the phone's sessions sent.
<1>10. ASSUME Frame(m) PROVE m \in PhoneSent /\ \A k \in PhoneSent : Author(k) >= Author(m)
  <2>1. m \in PhoneSent
    BY <1>4, <1>5, <1>10
  <2>2. ASSUME NEW k \in PhoneSent PROVE Author(k) >= Author(m)
    <3>1. Author(k) \in Nat /\ Author(m) \in Nat /\ Frame(k)
      BY <1>4, <2>1, FrameIs DEF Frames
    <3>2. CASE k = m
      BY <3>1, <3>2
    <3>3. CASE k \in In(T)
      <4>1. <<m, k>> \in Later
        BY <1>1, <1>5, <3>3 DEF Ordered, q
      <4> QED
        BY <1>10, <3>1, <4>1 DEF Later
    <3>4. ASSUME NEW x \in Socket, x[1] = "phone", k \in In(up[x]) PROVE Author(k) >= Author(m)
      <4>1. Author(k) = x[2]
        BY <1>1, <3>1, <3>4 DEF Queues
      <4>2. Author(m) <= x[2]
        BY <1>1, <1>5, <1>10, <3>1, <3>4 DEF Ordered, q
      <4> QED
        BY <3>1, <4>1, <4>2
    <3> QED
      BY <1>4, <1>5, <3>2, <3>3, <3>4
  <2> QED
    BY <2>1, <2>2
<1>11. /\ connector.link = "open" /\ ~ connector.stopped
       /\ Dialled \in Socket /\ (Live => Session \in Socket) /\ Dialled # Session
  <2>1. connector.link \in {"open", "closing"} /\ ~ connector.stopped
    BY <1>1, OwnIs
  <2>2. connector.link # "closing"
    BY <1>1, <1>5, <1>7 DEF Sockets, q
  <2> QED
    BY <1>1, <2>1, <2>2, OwnIs, LiveIs
\* A phone that is facing the bridge is not the one that went.
<1>12. ASSUME m = PeerOffline, Facing PROVE \A x \in Said(phone, BridgeSent) : x[1] # phone.n
  <2>1. Live /\ NoEnds(down["phone"])
    BY <1>12 DEF Facing
  <2>2. Session \in open
    <3>1. closed \notin In(down["phone"])
      BY <2>1, NoticesDiffer DEF NoEnds
    <3> QED
      BY <1>1, <2>1, <3>1 DEF PhoneTold
  <2>3. /\ \A x \in Said(phone, BridgeSent) : x[1] <= s
        /\ phone.phase \in {"opening", "registering"} => s < phone.n
        /\ s \in 0 .. phone.n
    BY <1>2 DEF Agreed, Answered
  <2>4. s # phone.n
    <3>1. CASE phone.phase = "registering"
      BY <1>3, <2>3, <3>1
    <3>2. CASE phone.phase # "registering"
      <4>1. peers["phone"] = Session
        BY <1>1, <2>1, <2>2, <3>2 DEF PhoneTold
      <4> QED
        BY <1>2, <1>5, <1>12, <2>1, <4>1 DEF Present, q
    <3> QED
      BY <3>1, <3>2
  <2>5. Said(phone, BridgeSent) \subseteq Keys
    BY <1>3, <1>4, SaidIs
  <2>6. \A x \in Said(phone, BridgeSent) : x[1] \in Nat
    BY <2>5, KeyIsPair
  <2> QED
    BY <1>3, <2>3, <2>4, <2>6
<1> DEFINE U == {s} \cup (IF Frame(m) THEN {Author(m)} ELSE {})
<1>13. Yields(connector, phone, PhoneSent, R, BridgeSent, U, r, Facing)
  <2>1. /\ Frame(m) => m \in PhoneSent /\ \A k \in PhoneSent : Author(k) >= Author(m)
        /\ m = PeerOffline /\ Facing => \A x \in Said(phone, BridgeSent) : x[1] # phone.n
    BY <1>10, <1>12
  <2>2. Yields(connector, phone, PhoneSent, R, BridgeSent, U, OnControl(connector, m), Facing)
    BY <1>2, <1>3, <1>4, <1>5, <1>7, <1>9, <2>1, ReadingYields
  <2> QED
    BY <1>7, <2>2
<1>14. /\ d \in Connector /\ d.n = connector.n /\ d.stopped = connector.stopped
       /\ IF r.closes THEN d.link = "closing" ELSE d.link = "open"
       /\ r.sent \in Seq(Msg) /\ C \in SUBSET Frames /\ d.ephemerals >= connector.ephemerals
       /\ \A g \in In(r.sent) : Frame(g) /\ Epoch(g) = d.ephemerals
       /\ \E t \in U : Agreed(d, phone, R, C, t)
       /\ Mutual(connector, phone, PhoneSent, BridgeSent) /\ ~ r.closes /\ Facing => Mutual(d, phone, R, C)
  BY <1>11, <1>13 DEF Yields
<1>15. PICK t \in U : Agreed(d, phone, R, C, t)
  BY <1>14
<1>16. t \in 0 .. MaxSessions
  <2>1. t \in 0 .. phone.n
    BY <1>15 DEF Agreed, Answered
  <2>2. phone.n \in 0 .. MaxSessions
    BY <1>3 DEF Phone
  <2> QED
    BY <2>1, <2>2, RelayAssumption
<1> DEFINE tail == IF r.closes THEN <<closed>> ELSE <<>>
           ms == r.sent \o tail
<1>17. /\ up' = Sent(Dialled, ms) /\ down'["phone"] = down["phone"]
       /\ a = IF r.closes THEN Closes(T) ELSE T
  BY <1>3 DEF q, T
<1>18. ms \in Seq(Msg) /\ In(ms) \subseteq In(r.sent) \cup {closed}
  BY <1>14, WithItsClose DEF tail
<1> HIDE DEF tail, ms
<1>19. /\ In(a) \subseteq In(T) /\ (d.link = "closing" => In(a) \subseteq {closed})
       /\ \A X : Chain(q, X) => Chain(a, X)
  <2>1. \A X : Chain(<<>>, X) /\ Chain(<<closed>>, X)
    <3>1. closed \in Msg
      BY NoticesDiffer, NoticeIs
    <3> QED
      BY <3>1, Emptied, Single
  <2> QED
    BY <1>5, <1>6, <1>14, <1>17, <2>1
<1>0. RelayTypeOK'
  <2>1. up' \in [Socket -> Seq(Msg)]
    <3>1. Sent(Dialled, ms) \in [Socket -> Seq(Msg)]
      BY <1>1, <1>11, <1>18, SentIs
    <3> QED
      BY <1>17, <3>1
  <2>2. down' \in [End -> Seq(Msg)]
    BY <1>3, <1>5, <1>6 DEF T, q
  <2>3. connector'.n = 0 => connector'.link = "none"
    BY <1>1, <1>11, <1>14 DEF RelayTypeOK
  <2> QED
    BY <1>1, <1>14, <2>1, <2>2, <2>3 DEF RelayTypeOK, RestTyped
<1> HIDE DEF a, U, C
<1>20. /\ PhoneSent' \subseteq PhoneSent
       /\ \A x \in Socket : x # Dialled => up'[x] = up[x]
       /\ ~ Closing(up'[Dialled]) => ~ Closing(up[Dialled])
  <2>1. In(down'["bridge"]) \subseteq In(down["bridge"])
    BY <1>5, <1>19 DEF a, q
  <2> QED
    BY <1>0, <1>1, <1>11, <1>17, <1>18, <2>1, PhoneStillSent
<1>21. \A g : g \in PhoneSent' <=>
         Frame(g) /\ (g \in In(a) \/ \E x \in Socket : x[1] = "phone" /\ g \in In(up[x]))
  <2>1. \A g : g \in PhoneSent' <=>
          Frame(g) /\ (g \in In(a) \/ \E x \in Socket : x[1] = "phone" /\ g \in In(up'[x]))
    BY <1>0, OnTheirWayNext DEF a
  <2>2. \A x \in Socket : x[1] = "phone" => up'[x] = up[x]
    BY <1>20 DEF Dialled
  <2> QED
    BY <2>1, <2>2
<1>22. PhoneSent' \subseteq R
  BY <1>8, <1>19, <1>21
<1>23. ASSUME Facing' PROVE Mutual(d, phone, R, C) /\ R \subseteq PhoneSent'
  <2>1. /\ Dialled' = Dialled /\ Session' = Session /\ Live' = Live
    BY <1>14 DEF Dialled, Session, Live
  <2>2. /\ Live /\ ~ Closing(up'[Session]) /\ NoEnds(down["phone"]) /\ d.link = "open"
        /\ peers["bridge"] = Dialled /\ ~ Closing(up'[Dialled])
    BY <1>17, <1>23, <2>1 DEF Facing
  <2>3. Facing
    BY <1>11, <1>20, <2>2 DEF Facing
  <2>4. ~ r.closes
    BY <1>14, <2>2
  <2>5. a = T
    BY <1>17, <2>4
  <2>6. R \subseteq PhoneSent'
    BY <1>8, <1>21, <2>5
  <2> QED
    BY <1>1, <1>14, <2>3, <2>4, <2>6 DEF Paired
<1>24. Dialled \in open /\ ~ Closing(up[Dialled]) => \A g \in In(ms) : Frame(g) =>
         peers["bridge"] = Dialled \/ (g.type = "relay/data" /\ Register \in In(up[Dialled]))
  BY <1>1, <1>5, <1>7, <1>11 DEF BridgeTold, q
<1>25. \A g \in In(ms) : g = closed \/ (Frame(g) /\ Epoch(g) = d.ephemerals /\ g \in C)
  BY <1>14, <1>18 DEF C
<1>26. Present(t)'
  <2> SUFFICES ASSUME Live, peers["phone"] = Session
               PROVE  /\ t = phone.n => PeerOffline \notin In(a)
                      /\ Chain(a, Staying(phone.n))
    <3>1. Session' = Session /\ Live' = Live
      BY DEF Session, Live
    <3> QED
      BY <3>1 DEF Present, a
  <2>1. (s = phone.n => PeerOffline \notin In(q)) /\ Chain(q, Staying(phone.n))
    BY <1>2 DEF Present, q
  <2>2. CASE t = s
    BY <1>5, <1>19, <2>1, <2>2
  <2>3. CASE Frame(m) /\ t = Author(m)
    <3>1. \A k \in In(T) : <<m, k>> \in Staying(phone.n)
      BY <1>5, <2>1
    <3>2. t = phone.n => PeerOffline \notin In(T)
      BY <2>3, <3>1 DEF Staying
    <3> QED
      BY <1>19, <2>1, <3>2
  <2> QED
    BY <1>15, <2>2, <2>3 DEF U
<1>27. BridgeSent \subseteq C /\ C \in SUBSET Frames
  BY <1>14 DEF C
<1>28. /\ \A X : Chain(down["bridge"], X) => Chain(down'["bridge"], X)
       /\ In(down'["bridge"]) \subseteq In(down["bridge"])
       /\ d.link = "closing" => In(down'["bridge"]) \subseteq {closed}
  BY <1>5, <1>19 DEF q, a
<1>29. /\ d.link = connector.link \/ d.link \in {"closing", "closed"}
       /\ d.stopped => d.link \in {"closing", "closed"}
  BY <1>11, <1>14
<1> QED
  BY <1>0, <1>8, <1>14, <1>15, <1>16, <1>17, <1>18, <1>22, <1>23, <1>24, <1>25, <1>26, <1>27, <1>28, <1>29,
     AfterConnector

\* The connector dials: the socket of the dial before is nobody's now.
LEMMA ConnectorDialsKeeps ==
  ASSUME RelayInv, ConnectorDials
  PROVE  RelayInv'
<1> DEFINE d == connector'
<1>1. RelayTypeOK /\ Sockets /\ Queues /\ PhoneTold /\ Ordered /\ Fresh /\ Accusing
  BY DEF RelayInv
<1>2. PICK s \in 0 .. MaxSessions : Agreed(connector, phone, PhoneSent, BridgeSent, s) /\ Present(s)
  BY DEF RelayInv
<1>3. /\ connector \in Connector /\ phone \in Phone /\ down \in [End -> Seq(Msg)]
      /\ "bridge" \in End /\ "phone" \in End /\ connector.n \in Nat /\ MaxDials \in Nat
      /\ open \subseteq Socket /\ connector.timers \in Nat
  BY <1>1, EndIs, SocketIs DEF RelayTypeOK, Connector
<1>4. /\ ~ connector.stopped /\ connector.n < MaxDials
      /\ down' = [down EXCEPT !["bridge"] = <<>>] /\ carriedOver' = (connector.handshake # 0)
      /\ phone' = phone /\ backend' = backend /\ greeted' = greeted /\ peers' = peers
      /\ open' = open /\ up' = up /\ faults' = faults /\ overQuota' = overQuota
  BY DEF ConnectorDials
<1>5. /\ d \in Connector /\ d.n = connector.n + 1 /\ d.link = "dialing" /\ SameCore(connector, d)
      /\ ~ d.stopped
  <2> DEFINE k == connector.n + 1
             t == connector.timers - 1
  <2>1. d = Dial(connector) \/ (connector.timers > 0 /\ d = [Dial(connector) EXCEPT !.timers = @ - 1])
    BY DEF ConnectorDials
  <2>2. k \in 0 .. MaxDials /\ (connector.timers > 0 => t \in Nat)
    BY <1>3, <1>4
  <2>3. \/ d = [connector EXCEPT !.n = k, !.link = "dialing", !.state = "dialing"]
        \/ /\ connector.timers > 0
           /\ d = [connector EXCEPT !.n = k, !.link = "dialing", !.state = "dialing", !.timers = t]
    BY <1>3, <2>1 DEF Dial, Connector
  <2> HIDE DEF k, t, d
  <2>4. /\ d \in Connector /\ d.n = k /\ d.link = "dialing" /\ d.stopped = connector.stopped
        /\ d.channel = connector.channel /\ d.handshake = connector.handshake
        /\ d.ephemerals = connector.ephemerals
    <3> DEFINE e == [connector EXCEPT !.n = k, !.link = "dialing", !.state = "dialing"]
    <3>1. /\ e \in Connector /\ e.n = k /\ e.link = "dialing" /\ e.stopped = connector.stopped
          /\ e.channel = connector.channel /\ e.handshake = connector.handshake
          /\ e.ephemerals = connector.ephemerals
      <4>1. connector \in Connector /\ k \in 0 .. MaxDials
        BY <1>3, <2>2
      <4> QED
        BY <4>1 DEF Connector, Links, States
    <3>2. d = e \/ (connector.timers > 0 /\ d = [e EXCEPT !.timers = t])
      <4>1. connector.timers > 0 /\ d # e =>
              d = [connector EXCEPT !.n = k, !.link = "dialing", !.state = "dialing", !.timers = t]
        BY <2>3
      <4>2. connector \in Connector
        BY <1>3
      <4>3. [e EXCEPT !.timers = t] =
              [connector EXCEPT !.n = k, !.link = "dialing", !.state = "dialing", !.timers = t]
        BY <4>2 DEF Connector
      <4> HIDE DEF e
      <4> QED
        BY <2>3, <4>1, <4>3 DEF e
    <3> HIDE DEF e
    <3>3. ASSUME connector.timers > 0
          PROVE  LET f == [e EXCEPT !.timers = t]
                 IN  /\ f \in Connector /\ f.n = e.n /\ f.link = e.link /\ f.stopped = e.stopped
                     /\ f.channel = e.channel /\ f.handshake = e.handshake
                     /\ f.ephemerals = e.ephemerals
      <4>1. t \in Nat /\ e \in Connector
        BY <2>2, <3>1, <3>3
      <4> QED
        BY <4>1 DEF Connector
    <3> QED
      BY <3>1, <3>2, <3>3
  <2> QED
    BY <1>4, <2>4 DEF SameCore, k, d
<1>6. <<>> \in Seq(Msg) /\ In(<<>>) = {} /\ \A R : Chain(<<>>, R)
  BY Emptied
<1>7. down' \in [End -> Seq(Msg)] /\ down'["bridge"] = <<>> /\ down'["phone"] = down["phone"]
  BY <1>3, <1>4, <1>6
<1>8. RelayTypeOK'
  BY <1>1, <1>3, <1>4, <1>5, <1>7 DEF RelayTypeOK
<1>9. Session' = Session /\ Live' = Live
  BY <1>4 DEF Session, Live
<1>10. Sockets'
  <2>1. Dialled' = <<"bridge", connector.n + 1>>
    BY <1>5 DEF Dialled
  <2>2. ASSUME NEW x \in open PROVE x[2] <= Own(x[1])'[2] /\ x # Dialled'
    <3>1. x[2] <= Own(x[1])[2] /\ x \in Socket /\ x[1] \in End
      BY <1>1, <1>3, SocketIs DEF Sockets
    <3>2. CASE x[1] = "bridge"
      <4>1. Own(x[1]) = Dialled /\ Own(x[1])' = Dialled' /\ x[2] \in Nat
        BY <3>1, <3>2, <1>3, SocketIs DEF Own
      <4>2. x[2] <= connector.n
        BY <3>1, <4>1 DEF Dialled
      <4>3. Dialled'[2] = connector.n + 1
        BY <2>1
      <4> QED
        BY <1>3, <4>1, <4>2, <4>3
    <3>3. CASE x[1] = "phone"
      BY <1>9, <2>1, <3>1, <3>3 DEF Own
    <3> QED
      BY <3>1, <3>2, <3>3, EndIs
  <2> QED
    BY <1>1, <1>4, <1>5, <1>7, <1>9, <2>2 DEF Sockets
<1>11. Queues' /\ PhoneTold' /\ Accusing'
  BY <1>1, <1>4, <1>7, <1>9 DEF Queues, PhoneTold, Accusing
<1>12. BridgeTold' /\ ~ Facing'
  BY <1>5 DEF BridgeTold, Facing
<1>13. Ordered'
  BY <1>1, <1>4, <1>6, <1>7 DEF Ordered
<1>14. Fresh'
  BY <1>1, <1>4, <1>7, <1>9 DEF Fresh
<1>15. Paired'
  BY <1>12 DEF Paired
<1>16. Present(s)'
  BY <1>4, <1>6, <1>7 DEF Present
<1> DEFINE P == PhoneSent'
           B == BridgeSent'
<1>17. P \subseteq PhoneSent /\ B \subseteq BridgeSent
  <2>1. /\ \A g : g \in PhoneSent <=>
             Frame(g) /\ (g \in In(down["bridge"]) \/ \E x \in Socket : x[1] = "phone" /\ g \in In(up[x]))
        /\ \A g : g \in BridgeSent <=>
             Frame(g) /\ (g \in In(down["phone"]) \/ \E x \in Socket : x[1] = "bridge" /\ g \in In(up[x]))
    BY <1>1, OnTheirWay
  <2>2. /\ \A g : g \in P <=>
             Frame(g) /\ (g \in In(down'["bridge"]) \/ \E x \in Socket : x[1] = "phone" /\ g \in In(up'[x]))
        /\ \A g : g \in B <=>
             Frame(g) /\ (g \in In(down'["phone"]) \/ \E x \in Socket : x[1] = "bridge" /\ g \in In(up'[x]))
    BY <1>8, OnTheirWayNext
  <2> HIDE DEF P, B
  <2> QED
    BY <1>4, <1>6, <1>7, <2>1, <2>2
<1> HIDE DEF P, B
<1>18. Agreed(d, phone, P, B, s)
  <2>1. SameSession(phone, phone)
    BY DEF SameSession
  <2>2. PhoneSent \in SUBSET Frames /\ BridgeSent \in SUBSET Frames
    BY <1>1, OnTheirWay
  <2> QED
    BY <1>2, <1>3, <1>5, <1>17, <2>1, <2>2, FewerAgree
<1>19. Agreed(connector, phone, PhoneSent, BridgeSent, s)'
  BY <1>4, <1>18 DEF P, B
<1> QED
  BY <1>8, <1>10, <1>11, <1>12, <1>13, <1>14, <1>15, <1>16, <1>19 DEF RelayInv

\* The dial succeeds.
LEMMA ConnectorSocketOpensKeeps ==
  ASSUME RelayInv, ConnectorSocketOpens
  PROVE  RelayInv'
<1> DEFINE d == connector'
           one == <<Register>>
<1>1. RelayTypeOK /\ Sockets /\ Queues /\ PhoneTold /\ Ordered /\ Fresh /\ Accusing
  BY DEF RelayInv
<1>2. PICK s \in 0 .. MaxSessions : Agreed(connector, phone, PhoneSent, BridgeSent, s) /\ Present(s)
  BY DEF RelayInv
<1>3. /\ connector \in Connector /\ phone \in Phone /\ down \in [End -> Seq(Msg)]
      /\ up \in [Socket -> Seq(Msg)] /\ peers \in [End -> Socket \cup {None}]
      /\ "bridge" \in End /\ "phone" \in End /\ open \subseteq Socket
  BY <1>1, EndIs DEF RelayTypeOK
<1>4. /\ connector.link = "dialing" /\ d = [connector EXCEPT !.link = "open"]
      /\ open' = open \cup {Dialled} /\ up' = [up EXCEPT ![Dialled] = one]
      /\ phone' = phone /\ backend' = backend /\ greeted' = greeted /\ peers' = peers
      /\ down' = down /\ faults' = faults /\ overQuota' = overQuota /\ carriedOver' = carriedOver
  BY DEF ConnectorSocketOpens
<1>5. /\ d \in Connector /\ d.n = connector.n /\ d.link = "open" /\ SameCore(connector, d)
      /\ d.stopped = connector.stopped
  BY <1>3, <1>4 DEF Connector, Links, SameCore
<1>6. /\ Dialled' = Dialled /\ Session' = Session /\ Live' = Live /\ \A e : Own(e)' = Own(e)
  BY <1>4, <1>5 DEF Dialled, Session, Live, Own
<1>7. /\ Dialled # Session /\ Dialled[1] = "bridge" /\ Session[1] = "phone" /\ Dialled # None
      /\ Dialled \in Socket /\ Own("bridge") = Dialled /\ Dialled[2] \in Nat
  <2>1. Dialled \in Socket /\ Dialled # None /\ Dialled[2] \in 1 .. MaxDials
    BY <1>1, <1>4, OwnIs, SocketIs
  <2> QED
    BY <1>1, <2>1, OwnIs
<1>8. /\ Register \in Msg /\ ~ Frame(Register) /\ Register # closed
  BY NoticesDiffer, NoticeIs
<1>9. one \in Seq(Msg) /\ In(one) = {Register} /\ \A R : Chain(one, R)
  BY <1>8, Single
<1> HIDE DEF one
<1>10. up' \in [Socket -> Seq(Msg)] /\ up'[Dialled] = one /\ \A x \in Socket : x # Dialled => up'[x] = up[x]
  BY <1>1, <1>4, <1>7, <1>9, TakenIs
<1>11. /\ Dialled \notin open /\ down["bridge"] = <<>> /\ ~ connector.stopped
       /\ \A e \in End : peers[e] # Dialled
  BY <1>1, <1>4, <1>7 DEF Sockets
<1>12. RelayTypeOK'
  <2>1. open' \subseteq Socket
    BY <1>3, <1>4, <1>7
  <2>2. connector'.n # 0
    BY <1>1, <1>4, <1>5 DEF RelayTypeOK
  <2> QED
    BY <1>1, <1>4, <1>5, <1>10, <2>1, <2>2 DEF RelayTypeOK
<1>13. Sockets'
  <2>1. \A x \in open' : x[2] <= Own(x[1])'[2]
    BY <1>1, <1>4, <1>6, <1>7 DEF Sockets
  <2> QED
    BY <1>1, <1>4, <1>5, <1>6, <1>7, <1>11, <2>1 DEF Sockets
<1>14. Queues'
  <2> SUFFICES ASSUME NEW x \in Socket
               PROVE  /\ Chain(up'[x], NotRegister)
                      /\ Register \in In(up'[x]) => peers[x[1]] # x
                      /\ \A m \in In(up'[x]) : Frame(m) =>
                           /\ \/ peers[x[1]] = x
                              \/ x[1] = "bridge" /\ m.type = "relay/data" /\ Register \in In(up'[x])
                           /\ x[1] = "phone" => Author(m) = x[2]
    BY <1>4 DEF Queues
  <2>1. CASE x = Dialled
    BY <1>3, <1>7, <1>8, <1>9, <1>10, <1>11, <2>1
  <2>2. CASE x # Dialled
    BY <1>1, <1>10, <2>2 DEF Queues
  <2> QED
    BY <2>1, <2>2
<1>15. BridgeTold'
  <2>1. In(<<>>) = {}
    BY Emptied
  <2> QED
    BY <1>4, <1>6, <1>9, <1>10, <1>11, <2>1 DEF BridgeTold
<1>16. PhoneTold'
  BY <1>1, <1>4, <1>6, <1>7 DEF PhoneTold
<1>17. Ordered'
  <2>1. \A x \in Socket : x[1] = "bridge" => Chain(up'[x], Newer)
    BY <1>1, <1>9, <1>10 DEF Ordered
  <2>2. \A x \in Socket : x[1] = "phone" => up'[x] = up[x]
    BY <1>7, <1>10
  <2> QED
    BY <1>1, <1>4, <2>1, <2>2 DEF Ordered
<1>18. Fresh'
  <2>1. peers["bridge"] # None => up'[peers["bridge"]] = up[peers["bridge"]]
    BY <1>3, <1>10, <1>11
  <2> QED
    BY <1>1, <1>4, <1>6, <2>1 DEF Fresh
<1>19. Paired' /\ Accusing'
  <2>1. ~ Facing'
    BY <1>3, <1>4, <1>6, <1>11 DEF Facing
  <2> QED
    BY <1>1, <1>4, <2>1 DEF Paired, Accusing
<1>20. Present(s)'
  BY <1>2, <1>4, <1>6 DEF Present
<1> DEFINE P == PhoneSent'
           B == BridgeSent'
<1>21. P \subseteq PhoneSent /\ B \subseteq BridgeSent
  <2>1. /\ \A g : g \in PhoneSent <=>
             Frame(g) /\ (g \in In(down["bridge"]) \/ \E x \in Socket : x[1] = "phone" /\ g \in In(up[x]))
        /\ \A g : g \in BridgeSent <=>
             Frame(g) /\ (g \in In(down["phone"]) \/ \E x \in Socket : x[1] = "bridge" /\ g \in In(up[x]))
    BY <1>1, OnTheirWay
  <2>2. /\ \A g : g \in P <=>
             Frame(g) /\ (g \in In(down'["bridge"]) \/ \E x \in Socket : x[1] = "phone" /\ g \in In(up'[x]))
        /\ \A g : g \in B <=>
             Frame(g) /\ (g \in In(down'["phone"]) \/ \E x \in Socket : x[1] = "bridge" /\ g \in In(up'[x]))
    BY <1>12, OnTheirWayNext
  <2>3. \A x \in Socket : \A g \in In(up'[x]) : Frame(g) => g \in In(up[x])
    BY <1>8, <1>9, <1>10
  <2> HIDE DEF P, B
  <2> QED
    BY <1>4, <2>1, <2>2, <2>3
<1> HIDE DEF P, B
<1>22. Agreed(d, phone, P, B, s)
  <2>1. SameSession(phone, phone)
    BY DEF SameSession
  <2>2. PhoneSent \in SUBSET Frames /\ BridgeSent \in SUBSET Frames
    BY <1>1, OnTheirWay
  <2> QED
    BY <1>2, <1>3, <1>5, <1>21, <2>1, <2>2, FewerAgree
<1>23. Agreed(connector, phone, PhoneSent, BridgeSent, s)'
  BY <1>4, <1>22 DEF P, B
<1> QED
  BY <1>12, <1>13, <1>14, <1>15, <1>16, <1>17, <1>18, <1>19, <1>20, <1>23 DEF RelayInv

LEMMA ConnectorReadsKeeps ==
  ASSUME RelayInv, ConnectorReads
  PROVE  RelayInv'
<1> DEFINE m == Head(down["bridge"])
           r == OnControl(connector, m)
<1>1. RelayTypeOK /\ Sockets
  BY DEF RelayInv
<1>2. /\ HearsClose(Dialled) /\ down["bridge"] # <<>> /\ phone' = phone /\ greeted' = greeted
      /\ peers' = peers /\ open' = open /\ faults' = faults /\ overQuota' = overQuota
      /\ carriedOver' = carriedOver
  BY DEF ConnectorReads
<1>3. /\ connector \in Connector /\ down \in [End -> Seq(Msg)] /\ backend \subseteq Work
      /\ connector.link \in {"open", "closing"} /\ connector.n # 0
  BY <1>1, <1>2, OwnIs DEF RelayTypeOK
<1>4. m \in Msg
  <2>1. down["bridge"] \in Seq(Msg)
    BY <1>3, EndIs
  <2> QED
    BY <1>2, <2>1, Headed
<1>5. CASE m = closed
  <2>1. /\ connector' = [RedialLater(Torn(connector)) EXCEPT !.link = "closed"]
        /\ down' = [down EXCEPT !["bridge"] = <<>>] /\ up' = up /\ backend' = backend
    BY <1>5 DEF ConnectorReads
  <2> DEFINE e == RedialLater(Torn(connector))
  <2>2. /\ e \in Connector /\ e.n = connector.n /\ e.ephemerals = connector.ephemerals
        /\ e.handshake = 0 /\ e.channel = None
    BY <1>3, TornIs
  <2>3. connector' = [e EXCEPT !.link = "closed"]
    BY <2>1
  <2> HIDE DEF e
  <2>4. /\ connector' \in Connector /\ connector'.n = connector.n /\ connector'.link = "closed"
        /\ connector'.ephemerals = connector.ephemerals /\ connector'.handshake = 0
        /\ connector'.channel = None
    BY <2>2, <2>3 DEF Connector, Links
  <2>5. up' = Sent(Dialled, <<>>)
    <3>1. <<>> \in Seq(Msg)
      BY Emptied
    <3>2. Dialled \in open => Dialled \in Socket
      BY <1>1 DEF RelayTypeOK
    <3> QED
      BY <1>1, <2>1, <3>1, <3>2, SentIs
  <2>6. RestTyped
    BY <1>1, <1>2, <2>1 DEF RestTyped, RelayTypeOK
  <2> QED
    BY <1>2, <1>3, <2>1, <2>4, <2>5, <2>6, ConnectorDropsKeeps
<1>6. CASE m # closed
  <2>1. /\ connector' = r.object
        /\ up' = Sent(Dialled, r.sent \o (IF r.closes THEN <<closed>> ELSE <<>>))
        /\ down' = [down EXCEPT !["bridge"] = IF r.closes THEN Closes(Tail(down["bridge"]))
                                              ELSE Tail(down["bridge"])]
        /\ backend' = IF m.type = "relay/data" /\ BridgeOpens(connector, m)
                           /\ m.kind \in {"request", "subscribe"}
                      THEN backend \cup {Tunnel(m.kind, m.id, m.of)} ELSE backend
    BY <1>6 DEF ConnectorReads
  <2>2. backend' \subseteq Work
    <3>1. m.type = "relay/data" => m \in Record
      BY <1>4, FrameIs DEF Frame
    <3>2. m \in Record /\ m.kind \in {"request", "subscribe"} => Tunnel(m.kind, m.id, m.of) \in Work
      BY DEF Record, Work, Tunnel
    <3> QED
      BY <1>3, <2>1, <3>1, <3>2
  <2>3. RestTyped
    BY <1>1, <1>2, <2>2 DEF RestTyped, RelayTypeOK
  <2> QED
    BY <1>2, <1>6, <2>1, <2>3, ConnectorHearsKeeps
<1> QED
  BY <1>5, <1>6

LEMMA BackendAnswersKeeps ==
  ASSUME RelayInv, NEW r \in backend, BackendAnswers(r)
  PROVE  RelayInv'
<1>1. RelayTypeOK
  BY DEF RelayInv
<1>2. /\ connector' = connector /\ phone' = phone /\ greeted' = greeted /\ peers' = peers
      /\ open' = open /\ down' = down /\ faults' = faults /\ overQuota' = overQuota
      /\ carriedOver' = carriedOver /\ backend' = backend \ {r}
      /\ up' = Sent(Dialled, SendTunnel(connector, Tunnel("response", r.id, r.of)))
  BY DEF BackendAnswers
<1>3. r.id \in Nat /\ r.of \in Nat /\ connector \in Connector
  BY <1>1 DEF RelayTypeOK, Work
<1>4. RestTyped
  BY <1>1, <1>2 DEF RestTyped, RelayTypeOK
<1>5. KeepsSocket(connector, connector') /\ SameCore(connector, connector')
  BY <1>2 DEF KeepsSocket, SameCore
<1>6. "response" \in Kinds
  BY DEF Kinds
<1> QED
  BY <1>2, <1>3, <1>4, <1>5, <1>6, ConnectorSealsKeeps

\* What the connector knows of its streams is no matter of its channel.
LEMMA StreamsApart ==
  ASSUME NEW c \in Connector, NEW n \in Nat, NEW L \in SUBSET Nat
  PROVE  LET d == [c EXCEPT !.stream = n, !.live = L]
         IN  d \in Connector /\ KeepsSocket(c, d) /\ SameCore(c, d) /\ d.signed = c.signed
BY DEF Connector, KeepsSocket, SameCore

LEMMA SubscribeAnsweredKeeps ==
  ASSUME RelayInv, NEW r \in backend, SubscribeAnswered(r)
  PROVE  RelayInv'
<1>1. RelayTypeOK
  BY DEF RelayInv
<1>2. /\ phone' = phone /\ greeted' = greeted /\ peers' = peers
      /\ open' = open /\ down' = down /\ faults' = faults /\ overQuota' = overQuota
      /\ carriedOver' = carriedOver /\ backend' = backend \ {r}
  BY DEF SubscribeAnswered
<1>3. r.id \in Nat /\ r.of \in Nat /\ connector \in Connector /\ connector.live \in SUBSET Nat
  BY <1>1 DEF RelayTypeOK, Work, Connector
<1>4. RestTyped
  BY <1>1, <1>2 DEF RestTyped, RelayTypeOK
<1>5. "subscribe-failed" \in Kinds
  BY DEF Kinds
<1>6. CASE /\ up' = Sent(Dialled, SendTunnel(connector, Tunnel("subscribe-failed", r.id, r.of)))
           /\ connector' = connector
  <2>1. KeepsSocket(connector, connector') /\ SameCore(connector, connector')
    BY <1>6 DEF KeepsSocket, SameCore
  <2> QED
    BY <1>2, <1>3, <1>4, <1>5, <1>6, <2>1, ConnectorSealsKeeps
<1>7. CASE StreamOpens(r) /\ up' = up
  <2> DEFINE L == connector.live \cup {r.of}
  <2>1. L \in SUBSET Nat /\ connector' = [connector EXCEPT !.stream = r.of, !.live = L]
    BY <1>3, <1>7 DEF StreamOpens
  <2> HIDE DEF L
  <2>2. /\ connector' \in Connector /\ KeepsSocket(connector, connector')
        /\ SameCore(connector, connector') /\ connector'.signed = connector.signed
    BY <1>3, <2>1, StreamsApart
  <2>3. up' = Sent(Dialled, <<>>)
    <3>1. <<>> \in Seq(Msg)
      BY Emptied
    <3>2. Dialled \in open => Dialled \in Socket
      BY <1>1 DEF RelayTypeOK
    <3> QED
      BY <1>1, <1>7, <3>1, <3>2, SentIs
  <2> QED
    BY <1>2, <1>3, <1>4, <1>5, <2>2, <2>3, ConnectorSealsKeeps
<1> QED
  BY <1>6, <1>7 DEF SubscribeAnswered

LEMMA StreamGreetsKeeps ==
  ASSUME RelayInv, NEW n \in connector.live, StreamGreets(n)
  PROVE  RelayInv'
<1>1. RelayTypeOK
  BY DEF RelayInv
<1>2. /\ connector' = connector /\ phone' = phone /\ backend' = backend /\ peers' = peers
      /\ open' = open /\ down' = down /\ faults' = faults /\ overQuota' = overQuota
      /\ carriedOver' = carriedOver /\ greeted' = greeted \cup {n}
      /\ up' = Sent(Dialled, SendTunnel(connector, Tunnel("hello", 0, n)))
  BY DEF StreamGreets
<1>3. n \in Nat /\ 0 \in Nat /\ connector \in Connector
  BY <1>1 DEF RelayTypeOK, Connector
<1>4. RestTyped
  BY <1>1, <1>2, <1>3 DEF RestTyped, RelayTypeOK
<1>5. KeepsSocket(connector, connector') /\ SameCore(connector, connector')
  BY <1>2 DEF KeepsSocket, SameCore
<1>6. "hello" \in Kinds
  BY DEF Kinds
<1> QED
  BY <1>2, <1>3, <1>4, <1>5, <1>6, ConnectorSealsKeeps

LEMMA StreamEndsKeeps ==
  ASSUME RelayInv, NEW n \in connector.live, StreamEnds(n)
  PROVE  RelayInv'
<1>1. RelayTypeOK
  BY DEF RelayInv
<1> DEFINE L == connector.live \ {n}
<1>2. /\ phone' = phone /\ backend' = backend /\ greeted' = greeted /\ peers' = peers
      /\ open' = open /\ down' = down /\ faults' = faults /\ overQuota' = overQuota
      /\ carriedOver' = carriedOver /\ connector' = [connector EXCEPT !.stream = 0, !.live = L]
      /\ up' = Sent(Dialled, SendTunnel(connector, Tunnel("unsubscribed", 0, n)))
  BY DEF StreamEnds, Unsubscribed
<1>3. n \in Nat /\ 0 \in Nat /\ connector \in Connector /\ L \in SUBSET Nat
  BY <1>1 DEF RelayTypeOK, Connector
<1> HIDE DEF L
<1>4. RestTyped
  BY <1>1, <1>2, <1>3 DEF RestTyped, RelayTypeOK
<1>5. /\ connector' \in Connector /\ KeepsSocket(connector, connector')
      /\ SameCore(connector, connector') /\ connector'.signed = connector.signed
  BY <1>2, <1>3, StreamsApart
<1>6. "unsubscribed" \in Kinds
  BY DEF Kinds
<1> QED
  BY <1>2, <1>3, <1>4, <1>5, <1>6, ConnectorSealsKeeps

LEMMA ConnectorStopsKeeps ==
  ASSUME RelayInv, ConnectorStops
  PROVE  RelayInv'
<1>1. RelayTypeOK
  BY DEF RelayInv
<1>2. /\ phone' = phone /\ backend' = backend /\ greeted' = greeted /\ peers' = peers
      /\ open' = open /\ faults' = faults /\ overQuota' = overQuota /\ carriedOver' = carriedOver
      /\ connector.n > 0 /\ down' = [down EXCEPT !["bridge"] = <<>>]
      /\ connector' = [Torn(connector) EXCEPT !.stopped = TRUE, !.state = "idle", !.timers = 0]
      /\ up' = IF connector.link = "open" THEN Sent(Dialled, <<closed>>) ELSE up
  BY DEF ConnectorStops
<1> DEFINE e == Torn(connector)
<1>3. /\ connector \in Connector /\ connector.n \in Nat
      /\ e \in Connector /\ e.n = connector.n /\ e.ephemerals = connector.ephemerals
      /\ e.handshake = 0 /\ e.channel = None /\ e.link \in {"closing", "closed"}
  <2>1. connector \in Connector /\ connector.n \in Nat
    BY <1>1, SocketIs DEF RelayTypeOK, Connector
  <2> QED
    BY <2>1, TornIs
<1> HIDE DEF e
<1>4. connector' = [e EXCEPT !.stopped = TRUE, !.state = "idle", !.timers = 0]
  BY <1>2 DEF e
<1>5. /\ connector' \in Connector /\ connector'.n = connector.n
      /\ connector'.ephemerals = connector.ephemerals /\ connector'.handshake = 0
      /\ connector'.channel = None /\ connector'.link \in {"closing", "closed"}
  BY <1>3, <1>4 DEF Connector, States
<1>6. RestTyped
  BY <1>1, <1>2 DEF RestTyped, RelayTypeOK
<1>7. connector.n # 0
  BY <1>2, <1>3
<1>8. up' = Sent(Dialled, <<closed>>) \/ up' = Sent(Dialled, <<>>)
  <2>1. <<>> \in Seq(Msg)
    BY Emptied
  <2>2. Dialled \in open => Dialled \in Socket
    BY <1>1 DEF RelayTypeOK
  <2>3. up = Sent(Dialled, <<>>)
    BY <1>1, <2>1, <2>2, SentIs
  <2> QED
    BY <1>2, <2>3
<1> QED
  BY <1>2, <1>5, <1>6, <1>7, <1>8, ConnectorDropsKeeps

LEMMA ConnectorSocketFailsKeeps ==
  ASSUME RelayInv, ConnectorSocketFails
  PROVE  RelayInv'
<1>1. RelayTypeOK
  BY DEF RelayInv
<1>2. /\ phone' = phone /\ backend' = backend /\ greeted' = greeted /\ peers' = peers
      /\ open' = open /\ overQuota' = overQuota /\ carriedOver' = carriedOver
      /\ faults' = faults + 1 /\ down' = down /\ up' = up
      /\ connector.link = "dialing" /\ connector' = RedialLater(Torn(connector))
  BY DEF ConnectorSocketFails
<1>3. /\ connector' \in Connector /\ connector'.n = connector.n
      /\ connector'.ephemerals = connector.ephemerals /\ connector'.handshake = 0
      /\ connector'.channel = None /\ connector'.link = "closed" /\ connector.n # 0
  <2>1. connector \in Connector /\ connector.n # 0
    BY <1>1, <1>2 DEF RelayTypeOK
  <2> QED
    BY <1>2, <2>1, TornIs
<1>4. RestTyped
  <2>1. faults \in Nat
    BY <1>1 DEF RelayTypeOK
  <2>2. faults' \in Nat
    BY <1>2, <2>1
  <2> QED
    BY <1>1, <1>2, <2>2 DEF RestTyped, RelayTypeOK
<1>5. up' = Sent(Dialled, <<>>)
  <2>1. <<>> \in Seq(Msg)
    BY Emptied
  <2>2. Dialled \in open => Dialled \in Socket
    BY <1>1 DEF RelayTypeOK
  <2> QED
    BY <1>1, <1>2, <2>1, <2>2, SentIs
<1> QED
  BY <1>2, <1>3, <1>4, <1>5, ConnectorDropsKeeps

\* What the steps of the phone have in common, but for its dials: m is what it read, if
\* it read.
LEMMA AfterPhone ==
  ASSUME RelayInv, RestTyped, NEW r, NEW rest, PhoneDoes(r, rest), phone.phase # "idle", NEW m,
         \A s : Agreed(connector, phone, PhoneSent, BridgeSent, s) =>
                  PhoneYields(connector, phone, PhoneSent, BridgeSent, s, m, r),
         r.closes \in BOOLEAN,
         Session \in open /\ In(r.sent) # {} => peers["phone"] = Session,
         ~ r.closes => Live /\
           \/ /\ rest = down["phone"] /\ r.object.phase = phone.phase
              /\ r.object.peerEphemeral = phone.peerEphemeral
           \/ down["phone"] # <<>> /\ m = Head(down["phone"]) /\ rest = Tail(down["phone"])
  PROVE  RelayInv'
<1> DEFINE p == phone'
           Q == PhoneSent \cup In(r.sent)
           b == down'["phone"]
           inbox == down["phone"]
           ms == r.sent \o (IF r.closes THEN <<closed>> ELSE <<>>)
<1>1. RelayTypeOK /\ Sockets /\ Queues /\ BridgeTold /\ PhoneTold /\ Ordered /\ Fresh /\ Paired /\ Accusing
  BY DEF RelayInv
<1>2. PICK s \in 0 .. MaxSessions : Agreed(connector, phone, PhoneSent, BridgeSent, s) /\ Present(s)
  BY DEF RelayInv
<1>3. /\ up \in [Socket -> Seq(Msg)] /\ down \in [End -> Seq(Msg)] /\ open \subseteq Socket
      /\ peers \in [End -> Socket \cup {None}] /\ connector \in Connector /\ phone \in Phone
      /\ "phone" \in End /\ "bridge" \in End /\ inbox \in Seq(Msg)
  BY <1>1, EndIs DEF RelayTypeOK
<1>4. /\ p = r.object /\ up' = Sent(Session, ms)
      /\ down' = [down EXCEPT !["phone"] = IF r.closes THEN <<>> ELSE rest]
      /\ connector' = connector /\ backend' = backend /\ greeted' = greeted /\ peers' = peers
      /\ open' = open /\ overQuota' = overQuota /\ carriedOver' = carriedOver
  BY DEF PhoneDoes
<1>5. /\ p \in Phone /\ p.n = phone.n /\ r.sent \in Seq(Msg) /\ Q \in SUBSET Frames
      /\ \A g \in In(r.sent) : Frame(g) /\ Author(g) = phone.n
      /\ Agreed(connector, p, Q, BridgeSent, s)
      /\ IF r.closes THEN p.phase = "closed"
         ELSE /\ p.phase \in {"registering", "handshaking", "sealed"} /\ ~ Ends(m)
              /\ p.peerEphemeral = phone.peerEphemeral \/ (Frame(m) /\ p.peerEphemeral = Epoch(m))
              /\ Mutual(connector, phone, PhoneSent, BridgeSent) => Mutual(connector, p, Q, BridgeSent)
      /\ p.ended \in {"pin-mismatch", "routing-collision"} => phone.n > 1
  BY <1>2, <1>4 DEF PhoneYields
<1>6. ms \in Seq(Msg) /\ In(r.sent) \subseteq In(ms) /\ In(ms) \subseteq In(r.sent) \cup {closed}
  BY <1>5, WithItsClose
<1> HIDE DEF p, ms
<1>7. /\ Dialled' = Dialled /\ Session' = Session /\ \A e : Own(e)' = Own(e)
  BY <1>4, <1>5 DEF Dialled, Session, Own, p
<1>8. /\ Dialled # Session /\ Dialled[1] = "bridge" /\ Session[1] = "phone" /\ Session # None
      /\ Session \in Socket /\ (Dialled \in open => Dialled \in Socket) /\ Session[2] = phone.n
      /\ phone.n \in Nat /\ phone.n # 0
      /\ (connector.link = "open" => Dialled \in Socket)
  <2>1. phone.n \in Nat /\ phone.n # 0
    BY <1>1, <1>3, SocketIs DEF RelayTypeOK, Phone
  <2> QED
    BY <1>1, <1>3, <2>1, OwnIs, SocketIs DEF Session
<1>9. closed # Register /\ ~ Frame(closed) /\ ~ Frame(Register) /\ Ends(closed)
      /\ <<>> \in Seq(Msg) /\ In(<<>>) = {}
  BY NoticesDiffer, NoticeIs, Emptied
\* A phone that goes on has read no end.
<1>10. ASSUME ~ r.closes
       PROVE  /\ Live /\ rest \in Seq(Msg) /\ In(rest) \subseteq In(inbox)
              /\ p.phase \in {"registering", "handshaking", "sealed"}
              /\ p.phase = phone.phase \/ (Session \in open => peers["phone"] = Session)
              /\ closed \in In(inbox) => closed \in In(rest)
              /\ NoEnds(rest) => NoEnds(inbox)
              /\ FreshFrom(rest, p.peerEphemeral)
              /\ \/ p.peerEphemeral = phone.peerEphemeral
                 \/ \E k \in In(inbox) : Frame(k) /\ p.peerEphemeral = Epoch(k)
  <2>1. Live /\ p.phase \in {"registering", "handshaking", "sealed"} /\ ~ Ends(m)
    BY <1>5, <1>10
  <2>2. FreshFrom(inbox, phone.peerEphemeral)
    BY <1>1 DEF Fresh
  <2>3. CASE /\ rest = inbox /\ p.phase = phone.phase
             /\ p.peerEphemeral = phone.peerEphemeral
    BY <1>3, <2>1, <2>2, <2>3
  <2>4. CASE inbox # <<>> /\ m = Head(inbox) /\ rest = Tail(inbox)
    <3>1. /\ rest \in Seq(Msg) /\ In(rest) \subseteq In(inbox) /\ In(inbox) = {m} \cup In(rest)
          /\ m \in Msg /\ m \in In(inbox)
      <4> HIDE DEF inbox
      <4> QED
        BY <1>3, <2>4, Headed
    <3>2. m # closed
      BY <1>9, <2>1
    <3>3. Session \in open => peers["phone"] = Session
      BY <1>1, <2>1, <3>1, <3>2 DEF PhoneTold
    <3>4. NoEnds(rest) => NoEnds(inbox)
      BY <2>1, <3>1 DEF NoEnds
    <3>5. FreshFrom(rest, phone.peerEphemeral) /\ (Frame(m) => FreshFrom(rest, Epoch(m)))
      <4> HIDE DEF inbox
      <4> QED
        BY <1>3, <2>1, <2>2, <2>4, FreshTail
    <3>6. p.peerEphemeral = phone.peerEphemeral \/ (Frame(m) /\ p.peerEphemeral = Epoch(m))
      BY <1>5, <1>10
    <3>7. FreshFrom(rest, p.peerEphemeral)
      BY <3>5, <3>6
    <3> QED
      BY <2>1, <3>1, <3>2, <3>3, <3>4, <3>6, <3>7
  <2> QED
    BY <1>4, <1>10, <2>3, <2>4
<1>11. /\ down' \in [End -> Seq(Msg)] /\ down'["bridge"] = down["bridge"]
       /\ r.closes => b = <<>>
       /\ ~ r.closes => b = rest
       /\ In(b) \subseteq In(inbox)
  <2>1. CASE r.closes
    BY <1>3, <1>4, <1>9, <2>1
  <2>2. CASE ~ r.closes
    BY <1>3, <1>4, <1>10, <2>2
  <2> QED
    BY <2>1, <2>2
<1> HIDE DEF b, inbox
<1>12. /\ up' \in [Socket -> Seq(Msg)] /\ Queues'
       /\ \A x \in Socket : /\ In(up[x]) \subseteq In(up'[x])
                            /\ Closing(up[x]) \/ x # Session \/ Session \notin open => up'[x] = up[x]
                            /\ \A g \in In(up'[x]) : g \in In(up[x]) \/
                                 (x = Session /\ Session \in open /\ ~ Closing(up[Session]) /\ g \in In(ms))
       /\ Session \in open /\ ~ Closing(up[Session]) => In(ms) \subseteq In(up'[Session])
  <2>1. Register \notin In(ms)
    BY <1>5, <1>6, <1>9
  <2>2. Session \in open /\ ~ Closing(up[Session]) => \A g \in In(ms) : Frame(g) =>
           /\ \/ peers[Session[1]] = Session
              \/ Session[1] = "bridge" /\ g.type = "relay/data" /\ Register \in In(up[Session])
           /\ Session[1] = "phone" => Author(g) = Session[2]
    BY <1>5, <1>6, <1>8, <1>9
  <2> QED
    BY <1>1, <1>4, <1>6, <1>8, <2>1, <2>2, Sending
<1>13. RelayTypeOK'
  BY <1>1, <1>4, <1>5, <1>8, <1>11, <1>12 DEF RelayTypeOK, RestTyped, p
<1>14. /\ \A g : g \in PhoneSent <=>
            Frame(g) /\ (g \in In(down["bridge"]) \/ \E x \in Socket : x[1] = "phone" /\ g \in In(up[x]))
       /\ \A g : g \in BridgeSent <=>
            Frame(g) /\ (g \in In(inbox) \/ \E x \in Socket : x[1] = "bridge" /\ g \in In(up[x]))
       /\ PhoneSent \in SUBSET Frames /\ BridgeSent \in SUBSET Frames
  BY <1>1, OnTheirWay DEF inbox
<1> DEFINE P == PhoneSent'
           B == BridgeSent'
<1>15. /\ \A g : g \in P <=>
            Frame(g) /\ (g \in In(down["bridge"]) \/ \E x \in Socket : x[1] = "phone" /\ g \in In(up'[x]))
       /\ \A g : g \in B <=>
            Frame(g) /\ (g \in In(b) \/ \E x \in Socket : x[1] = "bridge" /\ g \in In(up'[x]))
  BY <1>11, <1>13, OnTheirWayNext DEF b
<1> HIDE DEF P, B
<1>16. P \in SUBSET Q
  <2> SUFFICES ASSUME NEW g \in P, g \notin In(r.sent) PROVE g \in PhoneSent
    OBVIOUS
  <2>1. g \notin In(ms)
    BY <1>6, <1>9, <1>15
  <2> QED
    BY <1>12, <1>14, <1>15, <2>1
<1>17. B \in SUBSET BridgeSent
  <2>1. \A x \in Socket : x[1] = "bridge" => up'[x] = up[x]
    BY <1>8, <1>12
  <2> QED
    BY <1>11, <1>14, <1>15, <2>1
<1>18. PhoneSent \subseteq P /\ (Session \in open /\ ~ Closing(up[Session]) => Q \subseteq P)
  <2>1. PhoneSent \subseteq P
    BY <1>12, <1>14, <1>15
  <2>2. Session \in open /\ ~ Closing(up[Session]) => In(r.sent) \subseteq P
    BY <1>5, <1>6, <1>8, <1>12, <1>15
  <2> QED
    BY <2>1, <2>2
<1>19. Live' <=> p.phase \in {"registering", "handshaking", "sealed"}
  BY DEF Live, p
<1>20. Live' <=> ~ r.closes
  BY <1>5, <1>19
<1> HIDE DEF Q
<1>21. Sockets'
  <2>1. p.phase \notin {"idle", "opening"} /\ (p.phase = "closed" => b = <<>>)
    BY <1>5, <1>10, <1>11
  <2> QED
    BY <1>1, <1>4, <1>7, <1>11, <2>1 DEF Sockets, p, b
<1>22. BridgeTold'
  <2>1. Dialled \in open => up'[Dialled] = up[Dialled]
    BY <1>8, <1>12
  <2> QED
    BY <1>1, <1>4, <1>7, <1>11, <2>1 DEF BridgeTold
<1>23. PhoneTold'
  <2> SUFFICES ASSUME ~ r.closes
               PROVE  IF Session \in open
                      THEN /\ p.phase # "registering" => peers["phone"] = Session
                           /\ \A k \in In(b) : k = closed \/ peers["phone"] = Session
                      ELSE closed \in In(b)
    BY <1>4, <1>7, <1>20 DEF PhoneTold, p, b
  <2>1. IF Session \in open
        THEN /\ phone.phase # "registering" => peers["phone"] = Session
             /\ \A k \in In(inbox) : k = closed \/ peers["phone"] = Session
        ELSE closed \in In(inbox)
    BY <1>1, <1>10 DEF PhoneTold, inbox
  <2> QED
    BY <1>10, <1>11, <2>1
<1>24. Ordered'
  <2>1. \A x \in Socket : x[1] = "bridge" => Chain(up'[x], Newer)
    BY <1>1, <1>8, <1>12 DEF Ordered
  <2>2. ASSUME NEW x \in Socket, x[1] = "phone", NEW g \in In(up'[x]), NEW k \in In(down["bridge"]),
               Frame(g), Frame(k)
        PROVE  Author(k) <= x[2]
    <3>1. CASE g \in In(up[x])
      BY <1>1, <2>2, <3>1 DEF Ordered
    <3>2. CASE x = Session
      <4>1. k \in PhoneSent
        BY <1>14, <2>2
      <4>2. Author(k) \in 1 .. phone.n
        BY <1>2, <4>1 DEF Agreed, Shapes
      <4> QED
        BY <1>8, <3>2, <4>2
    <3> QED
      BY <1>12, <3>1, <3>2
  <2> QED
    BY <1>1, <1>11, <2>1, <2>2 DEF Ordered
<1>25. Fresh'
  <2>1. FreshFrom(b, p.peerEphemeral)
    BY <1>10, <1>11, FreshEmpty
  <2>2. ASSUME ~ r.closes, peers["phone"] = Session, NoEnds(b)
        PROVE  IF peers["bridge"] = None
               THEN p.peerEphemeral = 0 /\ \A k \in In(b) : ~ Frame(k)
               ELSE \A k \in In(up'[peers["bridge"]]) : Frame(k) =>
                      /\ Epoch(k) >= p.peerEphemeral
                      /\ \A j \in In(b) : Frame(j) => Epoch(j) <= Epoch(k)
    <3>1. Live /\ NoEnds(inbox)
      BY <1>10, <1>11, <2>2
    <3>2. IF peers["bridge"] = None
          THEN phone.peerEphemeral = 0 /\ \A k \in In(inbox) : ~ Frame(k)
          ELSE \A k \in In(up[peers["bridge"]]) : Frame(k) =>
                 /\ Epoch(k) >= phone.peerEphemeral
                 /\ \A j \in In(inbox) : Frame(j) => Epoch(j) <= Epoch(k)
      BY <1>1, <2>2, <3>1 DEF Fresh, inbox
    <3>3. peers["bridge"] # None => up'[peers["bridge"]] = up[peers["bridge"]]
      <4>1. peers["bridge"] # None => peers["bridge"][1] = "bridge" /\ peers["bridge"] \in Socket
        BY <1>1, <1>3 DEF Sockets
      <4> QED
        BY <1>8, <1>12, <4>1
    <3>4. \/ p.peerEphemeral = phone.peerEphemeral
          \/ \E k \in In(inbox) : Frame(k) /\ p.peerEphemeral = Epoch(k)
      BY <1>10, <2>2
    <3>5. CASE peers["bridge"] = None
      BY <1>11, <3>2, <3>4, <3>5
    <3>6. CASE peers["bridge"] # None
      <4> SUFFICES ASSUME NEW k \in In(up[peers["bridge"]]), Frame(k)
                   PROVE  /\ Epoch(k) >= p.peerEphemeral
                          /\ \A j \in In(b) : Frame(j) => Epoch(j) <= Epoch(k)
        BY <3>3, <3>6
      <4>1. /\ Epoch(k) >= phone.peerEphemeral
            /\ \A j \in In(inbox) : Frame(j) => Epoch(j) <= Epoch(k)
        BY <3>2, <3>6
      <4>2. ASSUME NEW j \in In(inbox), Frame(j), p.peerEphemeral = Epoch(j)
            PROVE  Epoch(k) >= p.peerEphemeral
        BY <4>1, <4>2
      <4> QED
        BY <1>11, <3>4, <4>1, <4>2
    <3> QED
      BY <3>5, <3>6
  <2> QED
    BY <1>4, <1>7, <1>20, <2>1, <2>2 DEF Fresh, p, b
<1>26. ASSUME Facing' PROVE Mutual(connector, p, P, B)
  <2>1. /\ ~ r.closes /\ ~ Closing(up'[Session]) /\ NoEnds(b)
        /\ connector.link = "open" /\ peers["bridge"] = Dialled /\ ~ Closing(up'[Dialled])
    BY <1>4, <1>7, <1>20, <1>26 DEF Facing, b
  <2>2. Live /\ NoEnds(inbox)
    BY <1>10, <1>11, <2>1
  <2>3. ~ Closing(up[Session]) /\ ~ Closing(up[Dialled])
    BY <1>8, <1>12, <2>1
  <2>4. Facing
    BY <2>1, <2>2, <2>3 DEF Facing, inbox
  <2>5. Mutual(connector, p, Q, BridgeSent)
    BY <1>1, <1>5, <2>1, <2>4 DEF Paired, Q
  <2>6. Session \in open
    <3>1. closed \notin In(inbox)
      BY <1>9, <2>2 DEF NoEnds
    <3> QED
      BY <1>1, <2>2, <3>1 DEF PhoneTold, inbox
  <2>7. Q \subseteq P
    BY <1>18, <2>3, <2>6
  <2> QED
    BY <1>5, <1>14, <1>17, <2>5, <2>7, FewerMutual
<1>27. Paired'
  BY <1>4, <1>26 DEF Paired, P, B, p
<1>28. Accusing'
  <2>1. Error("routing-id-taken") \in In(b) => phone.n > 1
    BY <1>1, <1>11 DEF Accusing, inbox
  <2> QED
    BY <1>5, <2>1 DEF Accusing, p, b
<1>29. Present(s)'
  <2>1. Live' => Live
    BY <1>10, <1>20
  <2> QED
    BY <1>2, <1>4, <1>5, <1>7, <1>11, <2>1 DEF Present, p
<1>30. Agreed(connector, p, P, B, s)
  <2>1. SameCore(connector, connector) /\ SameSession(p, p)
    BY DEF SameCore, SameSession
  <2>2. Q \in SUBSET Frames /\ Agreed(connector, p, Q, BridgeSent, s)
    BY <1>5 DEF Q
  <2> QED
    BY <1>3, <1>5, <1>14, <1>16, <1>17, <2>1, <2>2, FewerAgree
<1>31. Agreed(connector, phone, PhoneSent, BridgeSent, s)'
  BY <1>4, <1>30 DEF P, B, p
<1> QED
  BY <1>12, <1>13, <1>21, <1>22, <1>23, <1>24, <1>25, <1>27, <1>28, <1>29, <1>31 DEF RelayInv

\* The phone ends its session, with the end of its subscription if it had one.
LEMMA PhoneFinishesKeeps ==
  ASSUME RelayInv, RestTyped, phone.phase # "idle", NEW ms,
         \/ ms = <<>>
         \/ phone.phase = "sealed" /\ ms = <<Data(phone.channel, Tunnel("unsubscribe", 0, phone.n))>>,
         PhoneDoes(Finished(phone, ms, "retry"), <<>>)
  PROVE  RelayInv'
<1> DEFINE g == Data(phone.channel, Tunnel("unsubscribe", 0, phone.n))
           r == Finished(phone, ms, "retry")
<1>1. RelayTypeOK /\ PhoneTold
  BY DEF RelayInv
<1>2. connector \in Connector /\ phone \in Phone /\ phone.n \in Nat /\ phone.n # 0
  BY <1>1, SocketIs DEF RelayTypeOK, Phone
<1>3. PhoneSent \in SUBSET Frames /\ BridgeSent \in SUBSET Frames
  BY <1>1, OnTheirWay
<1>4. r.sent = ms /\ r.closes = TRUE
  BY DEF Finished
<1>5. In(<<>>) = {} /\ <<>> \in Seq(Msg)
  BY Emptied
<1>6. ASSUME NEW s, Agreed(connector, phone, PhoneSent, BridgeSent, s)
      PROVE  PhoneYields(connector, phone, PhoneSent, BridgeSent, s, Registered, r)
  <2>1. /\ ms \in Seq(Msg) /\ PhoneSent \cup In(ms) \in SUBSET Frames
        /\ \A k \in In(ms) : Frame(k) /\ Author(k) = phone.n
        /\ Agreed(connector, phone, PhoneSent \cup In(ms), BridgeSent, s)
    <3>1. CASE ms = <<>>
      <4>1. PhoneSent \cup In(ms) = PhoneSent
        BY <1>5, <3>1
      <4> QED
        BY <1>3, <1>5, <1>6, <3>1, <4>1
    <3>2. CASE phone.phase = "sealed" /\ ms = <<g>>
      <4>1. Theirs(connector, phone)
        BY <1>6 DEF Agreed
      <4>2. phone.channel # None /\ phone.channel = <<phone.n, phone.peerEphemeral>>
        BY <3>2, <4>1 DEF Theirs
      <4>3. phone.channel \in Keys /\ phone.channel[1] = phone.n
        BY <1>2, <4>2 DEF Phone
      <4>4. "unsubscribe" \in Kinds /\ 0 \in Nat
        BY DEF Kinds
      <4>5. g \in Msg /\ Frame(g) /\ Author(g) = phone.n
        BY <1>2, <4>3, <4>4, RecordIs
      <4>6. PhoneSent \cup {g} \subseteq Frames /\ Agreed(connector, phone, PhoneSent \cup {g}, BridgeSent, s)
        BY <1>2, <1>3, <1>6, <4>2, <4>4, PhoneSealingAgrees
      <4> HIDE DEF g
      <4>7. ms \in Seq(Msg) /\ In(ms) = {g}
        BY <3>2, <4>5, Single
      <4> QED
        BY <4>5, <4>6, <4>7
    <3> QED
      BY <3>1, <3>2
  <2> HIDE DEF r
  <2> QED
    BY <1>2, <1>3, <2>1, FinishingYields DEF r
<1>7. Session \in open /\ In(r.sent) # {} => peers["phone"] = Session
  <2> SUFFICES ASSUME Session \in open, In(ms) # {} PROVE peers["phone"] = Session
    BY <1>4
  <2>1. phone.phase = "sealed"
    BY <1>5
  <2> QED
    BY <1>1, <2>1 DEF PhoneTold, Live
<1>8. PhoneDoes(r, <<>>)
  OBVIOUS
<1> HIDE DEF r
<1> QED
  BY <1>4, <1>6, <1>7, <1>8, AfterPhone

LEMMA PhoneSocketFailsKeeps ==
  ASSUME RelayInv, PhoneSocketFails
  PROVE  RelayInv'
<1>1. faults' \in Nat /\ PhoneDoes(Finished(phone, <<>>, "retry"), <<>>) /\ phone.phase # "idle"
  BY DEF PhoneSocketFails, RelayInv, RelayTypeOK
<1>2. RestTyped
  BY <1>1 DEF RestTyped, PhoneDoes, RelayInv, RelayTypeOK
<1> QED
  BY <1>1, <1>2, PhoneFinishesKeeps

LEMMA HandshakeTimeoutKeeps ==
  ASSUME RelayInv, HandshakeTimeout
  PROVE  RelayInv'
<1>1. faults' \in Nat /\ PhoneDoes(Finished(phone, <<>>, "retry"), <<>>) /\ phone.phase # "idle"
  BY DEF HandshakeTimeout, RelayInv, RelayTypeOK
<1>2. RestTyped
  BY <1>1 DEF RestTyped, PhoneDoes, RelayInv, RelayTypeOK
<1> QED
  BY <1>1, <1>2, PhoneFinishesKeeps

\* A phone that waits for something is sealed.
Waiting == phone.pending # {} \/ phone.sub # "none" => phone.phase = "sealed"

LEMMA PhoneClosesKeeps ==
  ASSUME RelayInv, Waiting, PhoneCloses
  PROVE  RelayInv'
<1> DEFINE ms == IF phone.sub \in {"asked", "following"}
                 THEN <<Data(phone.channel, Tunnel("unsubscribe", 0, phone.n))>> ELSE <<>>
<1>1. faults' \in Nat /\ PhoneDoes(Finished(phone, ms, "retry"), <<>>) /\ phone.phase # "idle"
  BY DEF PhoneCloses, RelayInv, RelayTypeOK
<1>2. RestTyped
  BY <1>1 DEF RestTyped, PhoneDoes, RelayInv, RelayTypeOK
<1>3. \/ ms = <<>>
      \/ phone.phase = "sealed" /\ ms = <<Data(phone.channel, Tunnel("unsubscribe", 0, phone.n))>>
  BY DEF Waiting
<1> HIDE DEF ms
<1> QED
  BY <1>1, <1>2, <1>3, PhoneFinishesKeeps

LEMMA PhoneReadsKeeps ==
  ASSUME RelayInv, PhoneReads
  PROVE  RelayInv'
<1> DEFINE inbox == down["phone"]
           m == Head(inbox)
           r == OnMessage(phone, m)
<1>1. RelayTypeOK /\ PhoneTold /\ Accusing
  BY DEF RelayInv
<1>2. inbox # <<>> /\ Hears(Session) /\ PhoneDoes(r, Tail(inbox)) /\ faults' = faults
  BY DEF PhoneReads
<1>3. /\ connector \in Connector /\ phone \in Phone /\ inbox \in Seq(Msg) /\ Live
      /\ phone.phase \in {"registering", "handshaking", "sealed"} /\ phone.n # 0 /\ phone.n \in Nat
  <2>1. Live
    BY <1>1, <1>2, LiveIs
  <2> QED
    BY <1>1, <2>1, EndIs, SocketIs DEF RelayTypeOK, Phone, Live
<1>4. RestTyped
  BY <1>1, <1>2 DEF RestTyped, PhoneDoes, RelayTypeOK
<1>5. PhoneSent \in SUBSET Frames /\ BridgeSent \in SUBSET Frames /\
      \A g : g \in BridgeSent <=>
        Frame(g) /\ (g \in In(inbox) \/ \E x \in Socket : x[1] = "bridge" /\ g \in In(up[x]))
  BY <1>1, OnTheirWay
<1>6. m \in Msg /\ m \in In(inbox)
  <2> HIDE DEF inbox
  <2> QED
    BY <1>2, <1>3, Headed
<1>7. Frame(m) => m \in BridgeSent
  BY <1>5, <1>6
<1>8. /\ phone.ended \in {"pin-mismatch", "routing-collision"} => phone.n > 1
      /\ m = Error("routing-id-taken") => phone.n > 1
  BY <1>1, <1>6 DEF Accusing
<1>9. ASSUME NEW s, Agreed(connector, phone, PhoneSent, BridgeSent, s)
      PROVE  PhoneYields(connector, phone, PhoneSent, BridgeSent, s, m, r)
  <2> HIDE DEF m, inbox, r
  <2> QED
    BY <1>3, <1>5, <1>6, <1>7, <1>8, <1>9, PhoneReadingYields DEF r
<1>10. m = closed => r.sent = <<>>
  <2> SUFFICES ASSUME m = closed PROVE r.sent = <<>>
    OBVIOUS
  <2>1. ~ Frame(m) /\ m \notin {Registered, PeerOnline} /\ m # Error("routing-id-taken")
    BY NoticesDiffer, NoticeIs
  <2> HIDE DEF m
  <2>2. r = Finished(phone, <<>>, "retry")
    BY <1>3, <1>6, <2>1, OnMessageIs
  <2> QED
    BY <2>2 DEF Finished
<1>11. Session \in open /\ In(r.sent) # {} => peers["phone"] = Session
  <2> SUFFICES ASSUME Session \in open, In(r.sent) # {} PROVE peers["phone"] = Session
    OBVIOUS
  <2>1. m # closed
    <3>1. In(<<>>) = {}
      BY Emptied
    <3> HIDE DEF m
    <3> QED
      BY <1>10, <3>1
  <2> QED
    BY <1>1, <1>3, <1>6, <2>1 DEF PhoneTold
<1>12. r.closes \in BOOLEAN
  <2> HIDE DEF m
  <2> QED
    BY DEF OnMessage, OnHandshakeFrame, PhoneBeginSeal, Step, Finished
<1>13. phone.phase # "idle"
  BY <1>3
<1> HIDE DEF m, r
<1> QED
  BY <1>2, <1>3, <1>4, <1>9, <1>11, <1>12, <1>13, AfterPhone DEF m

\* The phone seals a message of its own for its channel.
LEMMA PhoneSealsKeeps ==
  ASSUME RelayInv, RestTyped, phone.phase = "sealed", NEW k \in Kinds, NEW i \in Nat,
         NEW q \in Phone, SameSession(phone, q), q.ended = phone.ended,
         PhoneDoes(Step(q, <<Data(phone.channel, Tunnel(k, i, phone.n))>>), down["phone"])
  PROVE  RelayInv'
<1> DEFINE g == Data(phone.channel, Tunnel(k, i, phone.n))
           r == Step(q, <<g>>)
<1>1. RelayTypeOK /\ PhoneTold /\ Accusing
  BY DEF RelayInv
<1>2. /\ connector \in Connector /\ phone \in Phone /\ phone.n \in Nat /\ phone.n # 0
      /\ PhoneSent \in SUBSET Frames /\ BridgeSent \in SUBSET Frames
  <2>1. phone.n \in Nat /\ phone.n # 0
    BY <1>1, SocketIs DEF RelayTypeOK, Phone
  <2> QED
    BY <1>1, <2>1, OnTheirWay DEF RelayTypeOK
<1>3. r.object = q /\ r.sent = <<g>> /\ r.closes = FALSE
  BY DEF Step
<1>4. ASSUME NEW s, Agreed(connector, phone, PhoneSent, BridgeSent, s)
      PROVE  PhoneYields(connector, phone, PhoneSent, BridgeSent, s, Registered, r)
  <2> DEFINE Q == PhoneSent \cup {g}
  <2>1. Theirs(connector, phone)
    BY <1>4 DEF Agreed
  <2>2. phone.channel # None /\ phone.channel = <<phone.n, phone.peerEphemeral>>
    BY <2>1 DEF Theirs
  <2>3. phone.channel \in Keys /\ phone.channel[1] = phone.n
    BY <1>2, <2>2 DEF Phone
  <2>4. g \in Msg /\ Frame(g) /\ Author(g) = phone.n
    BY <1>2, <2>3, RecordIs
  <2>5. Q \in SUBSET Frames /\ Agreed(connector, phone, Q, BridgeSent, s)
    BY <1>2, <1>4, <2>2, PhoneSealingAgrees
  <2> HIDE DEF g, r, Q
  <2>6. r.sent \in Seq(Msg) /\ In(r.sent) = {g}
    BY <1>3, <2>4, Single
  <2>7. Agreed(connector, q, Q, BridgeSent, s)
    <3>1. SameCore(connector, connector)
      BY DEF SameCore
    <3>2. Q \in SUBSET Q /\ BridgeSent \in SUBSET BridgeSent
      OBVIOUS
    <3> QED
      BY <1>2, <2>5, <3>1, <3>2, FewerAgree
  <2>8. Mutual(connector, phone, PhoneSent, BridgeSent) => Mutual(connector, q, Q, BridgeSent)
    <3>1. Said(q, BridgeSent) = Said(phone, BridgeSent)
      BY DEF Said, SameSession
    <3> QED
      BY <3>1 DEF Mutual, SameSession, Q
  <2>9. q.n = phone.n /\ q.phase = "sealed" /\ q.peerEphemeral = phone.peerEphemeral
    BY DEF SameSession
  <2>10. ~ Ends(Registered)
    BY NoticesDiffer
  <2>11. q.ended \in {"pin-mismatch", "routing-collision"} => phone.n > 1
    BY <1>1 DEF Accusing
  <2>12. PhoneSent \cup In(r.sent) = Q
    BY <2>6 DEF Q
  <2> HIDE DEF Q
  <2> QED
    BY <1>3, <2>4, <2>5, <2>6, <2>7, <2>8, <2>9, <2>10, <2>11, <2>12 DEF PhoneYields
<1>5. Live /\ (Session \in open => peers["phone"] = Session)
  BY <1>1 DEF PhoneTold, Live
<1>6. PhoneDoes(r, down["phone"])
  OBVIOUS
<1>7. q.phase = phone.phase /\ q.peerEphemeral = phone.peerEphemeral
  BY DEF SameSession
<1> HIDE DEF r
<1> QED
  BY <1>3, <1>4, <1>5, <1>6, <1>7, AfterPhone

LEMMA PhoneRequestsKeeps ==
  ASSUME RelayInv, PhoneRequests
  PROVE  RelayInv'
<1> DEFINE i == phone.nextId
           j == i + 1
           q == [phone EXCEPT !.nextId = j, !.pending = phone.pending \cup {i}]
<1>1. RelayTypeOK
  BY DEF RelayInv
<1>2. phone \in Phone /\ i \in Nat /\ j \in Nat /\ phone.pending \subseteq Nat
  BY <1>1 DEF RelayTypeOK, Phone
<1>3. /\ phone.phase = "sealed" /\ faults' = faults
      /\ PhoneDoes(Step(q, <<Data(phone.channel, Tunnel("request", i, phone.n))>>), down["phone"])
  BY DEF PhoneRequests
<1>4. RestTyped
  BY <1>1, <1>3 DEF RestTyped, PhoneDoes, RelayTypeOK
<1>5. q \in Phone /\ SameSession(phone, q) /\ q.ended = phone.ended
  <2> HIDE DEF i, j
  <2> QED
    BY <1>2 DEF Phone, SameSession
<1>6. "request" \in Kinds
  BY DEF Kinds
<1> HIDE DEF q
<1> QED
  BY <1>2, <1>3, <1>4, <1>5, <1>6, PhoneSealsKeeps

LEMMA PhoneSubscribesKeeps ==
  ASSUME RelayInv, PhoneSubscribes
  PROVE  RelayInv'
<1> DEFINE i == phone.nextId
           j == i + 1
           q == [phone EXCEPT !.nextId = j, !.sub = "asked", !.subId = i]
<1>1. RelayTypeOK
  BY DEF RelayInv
<1>2. phone \in Phone /\ i \in Nat /\ j \in Nat
  BY <1>1 DEF RelayTypeOK, Phone
<1>3. /\ phone.phase = "sealed" /\ faults' = faults
      /\ PhoneDoes(Step(q, <<Data(phone.channel, Tunnel("subscribe", i, phone.n))>>), down["phone"])
  BY DEF PhoneSubscribes
<1>4. RestTyped
  BY <1>1, <1>3 DEF RestTyped, PhoneDoes, RelayTypeOK
<1>5. q \in Phone /\ SameSession(phone, q) /\ q.ended = phone.ended
  <2> HIDE DEF i, j
  <2> QED
    BY <1>2 DEF Phone, SameSession
<1>6. "subscribe" \in Kinds
  BY DEF Kinds
<1> HIDE DEF q
<1> QED
  BY <1>2, <1>3, <1>4, <1>5, <1>6, PhoneSealsKeeps

\* A request that times out leaves the session as it is.
LEMMA RequestTimesOutKeeps ==
  ASSUME RelayInv, Waiting, NEW id \in phone.pending, RequestTimesOut(id)
  PROVE  RelayInv'
<1> DEFINE q == [phone EXCEPT !.pending = phone.pending \ {id}]
           r == Step(q, <<>>)
<1>1. RelayTypeOK /\ Accusing
  BY DEF RelayInv
<1>2. /\ connector \in Connector /\ phone \in Phone /\ phone.pending \subseteq Nat
      /\ PhoneSent \in SUBSET Frames /\ BridgeSent \in SUBSET Frames
  BY <1>1, OnTheirWay DEF RelayTypeOK, Phone
<1>3. phone.phase = "sealed" /\ faults' = faults /\ PhoneDoes(r, down["phone"])
  BY DEF RequestTimesOut, Waiting
<1>4. RestTyped
  BY <1>1, <1>3 DEF RestTyped, PhoneDoes, RelayTypeOK
<1>5. q \in Phone /\ SameSession(phone, q) /\ q.ended = phone.ended
  BY <1>2 DEF Phone, SameSession
<1>6. r.object = q /\ r.sent = <<>> /\ r.closes = FALSE /\ In(<<>>) = {}
  BY Emptied DEF Step
<1> HIDE DEF q
<1>7. ASSUME NEW s, Agreed(connector, phone, PhoneSent, BridgeSent, s)
      PROVE  PhoneYields(connector, phone, PhoneSent, BridgeSent, s, Registered, r)
  <2>1. ~ Ends(Registered)
    BY NoticesDiffer
  <2>2. phone.ended \in {"pin-mismatch", "routing-collision"} => phone.n > 1
    BY <1>1 DEF Accusing
  <2> QED
    BY <1>2, <1>3, <1>5, <1>7, <2>1, <2>2, StandingYields
<1>8. Live /\ q.phase = phone.phase /\ q.peerEphemeral = phone.peerEphemeral
  BY <1>3, <1>5 DEF Live, SameSession
<1> HIDE DEF r
<1> QED
  BY <1>3, <1>4, <1>6, <1>7, <1>8, AfterPhone

\* The core builds its next transport. The sockets of those before are nobody's now.
LEMMA PhoneConnectsKeeps ==
  ASSUME RelayInv, PhoneConnects
  PROVE  RelayInv'
<1> DEFINE p == phone'
           n == phone.n + 1
<1>1. RelayTypeOK /\ Sockets /\ Queues /\ BridgeTold /\ Ordered /\ Accusing
  BY DEF RelayInv
<1>2. PICK s \in 0 .. MaxSessions : Agreed(connector, phone, PhoneSent, BridgeSent, s) /\ Present(s)
  BY DEF RelayInv
<1>3. /\ connector \in Connector /\ phone \in Phone /\ phone.n \in Nat /\ open \subseteq Socket
      /\ MaxSessions \in Nat
  BY <1>1, SocketIs DEF RelayTypeOK, Phone
<1>4. /\ phone.phase \in {"idle", "closed"} /\ phone.n < MaxSessions
      /\ p = [unbuilt EXCEPT !.n = n, !.phase = "opening"]
      /\ connector' = connector /\ backend' = backend /\ greeted' = greeted /\ peers' = peers
      /\ open' = open /\ up' = up /\ down' = down /\ faults' = faults /\ overQuota' = overQuota
      /\ carriedOver' = carriedOver
  BY DEF PhoneConnects
<1>6. /\ p \in Phone /\ p.n = n /\ p.phase = "opening" /\ ~ p.begun /\ ~ p.signed
      /\ p.peerEphemeral = 0 /\ p.channel = None /\ p.ended = "no"
  <2>1. n \in 0 .. MaxSessions
    BY <1>3, <1>4
  <2> HIDE DEF n, p
  <2> QED
    BY <1>4, <2>1 DEF Phone, Phases, unbuilt
<1>7. Dialled' = Dialled /\ Own("bridge")' = Own("bridge") /\ Session' = <<"phone", n>>
  BY <1>4, <1>6 DEF Dialled, Session, Own
<1>8. ~ Live'
  BY <1>6 DEF Live
<1>9. down["phone"] = <<>> /\ In(<<>>) = {}
  BY <1>1, <1>4, Emptied DEF Sockets
<1>10. RelayTypeOK'
  BY <1>1, <1>3, <1>4, <1>6 DEF RelayTypeOK
<1>11. Sockets'
  <2>1. ASSUME NEW x \in open PROVE x[2] <= Own(x[1])'[2] /\ x # Session'
    <3>1. x[2] <= Own(x[1])[2] /\ x \in Socket /\ x[1] \in End
      BY <1>1, <1>3, SocketIs DEF Sockets
    <3>2. CASE x[1] = "bridge"
      BY <1>7, <3>1, <3>2
    <3>3. CASE x[1] = "phone"
      <4>1. Own(x[1]) = Session /\ Own(x[1])' = Session' /\ x[2] \in Nat
        BY <3>1, <3>3, <1>3, SocketIs DEF Own
      <4>2. x[2] <= phone.n
        BY <3>1, <4>1 DEF Session
      <4>3. Session'[2] = n
        BY <1>7
      <4> QED
        BY <1>3, <4>1, <4>2, <4>3
    <3> QED
      BY <3>1, <3>2, <3>3, EndIs
  <2> QED
    BY <1>1, <1>4, <1>6, <1>7, <1>9, <2>1 DEF Sockets
<1>12. Queues' /\ BridgeTold' /\ Ordered'
  BY <1>1, <1>4, <1>7 DEF Queues, BridgeTold, Ordered
<1>13. PhoneTold' /\ Paired'
  BY <1>8 DEF PhoneTold, Paired, Facing
<1>14. Fresh'
  BY <1>4, <1>8, <1>9, FreshEmpty DEF Fresh
<1>15. Accusing'
  BY <1>4, <1>6, <1>9 DEF Accusing
<1>16. Present(s)'
  BY <1>8 DEF Present
<1>17. PhoneSent' = PhoneSent /\ BridgeSent' = BridgeSent
  BY <1>4 DEF PhoneSent, BridgeSent
<1>18. Agreed(connector, p, PhoneSent, BridgeSent, s)
  <2>1. PhoneSent \in SUBSET Frames /\ BridgeSent \in SUBSET Frames
    BY <1>1, OnTheirWay
  <2> HIDE DEF p
  <2> QED
    BY <1>2, <1>3, <1>4, <1>6, <2>1, ConnectingAgrees
<1>19. Agreed(connector, phone, PhoneSent, BridgeSent, s)'
  BY <1>4, <1>17, <1>18
<1> QED
  BY <1>10, <1>11, <1>12, <1>13, <1>14, <1>15, <1>16, <1>19 DEF RelayInv

\* Its socket opens.
LEMMA PhoneSocketOpensKeeps ==
  ASSUME RelayInv, PhoneSocketOpens
  PROVE  RelayInv'
<1> DEFINE p == phone'
           one == <<Register>>
<1>1. RelayTypeOK /\ Sockets /\ Queues /\ BridgeTold /\ Ordered /\ Accusing
  BY DEF RelayInv
<1>2. PICK s \in 0 .. MaxSessions : Agreed(connector, phone, PhoneSent, BridgeSent, s) /\ Present(s)
  BY DEF RelayInv
<1>3. /\ connector \in Connector /\ phone \in Phone /\ down \in [End -> Seq(Msg)]
      /\ up \in [Socket -> Seq(Msg)] /\ peers \in [End -> Socket \cup {None}]
      /\ "bridge" \in End /\ "phone" \in End /\ open \subseteq Socket
  BY <1>1, EndIs DEF RelayTypeOK
<1>4. /\ phone.phase = "opening" /\ p = [phone EXCEPT !.phase = "registering"]
      /\ open' = open \cup {Session} /\ up' = [up EXCEPT ![Session] = one]
      /\ connector' = connector /\ backend' = backend /\ greeted' = greeted /\ peers' = peers
      /\ down' = down /\ faults' = faults /\ overQuota' = overQuota /\ carriedOver' = carriedOver
  BY DEF PhoneSocketOpens
<1>5. /\ ~ phone.begun /\ ~ phone.signed /\ phone.peerEphemeral = 0 /\ phone.channel = None
      /\ \A x \in Said(phone, BridgeSent) : x[1] # phone.n
  <2>1. Theirs(connector, phone) /\ Answered(connector, phone, PhoneSent, BridgeSent, s)
    BY <1>2 DEF Agreed
  <2>2. /\ ~ phone.begun /\ ~ phone.signed /\ phone.peerEphemeral = 0 /\ phone.channel = None
    BY <1>4, <2>1 DEF Theirs
  <2>3. s \in Nat /\ phone.n \in Nat /\ s < phone.n /\ \A x \in Said(phone, BridgeSent) : x[1] <= s
    BY <1>2, <1>3, <1>4, <2>1, SocketIs DEF Answered, Phone
  <2>4. \A x \in Said(phone, BridgeSent) : x[1] \in Nat
    <3>1. Said(phone, BridgeSent) \subseteq Keys
      BY <1>1, <1>3, OnTheirWay, SaidIs
    <3> QED
      BY <3>1, KeyIsPair
  <2> QED
    BY <2>2, <2>3, <2>4
<1>6. /\ p \in Phone /\ p.n = phone.n /\ p.phase = "registering" /\ ~ p.begun /\ ~ p.signed
      /\ p.peerEphemeral = 0 /\ p.channel = None /\ p.ended = phone.ended
  BY <1>3, <1>4, <1>5 DEF Phone, Phases
<1>7. /\ Dialled' = Dialled /\ Session' = Session /\ (\A e : Own(e)' = Own(e)) /\ Live' = TRUE
  BY <1>4, <1>6 DEF Dialled, Session, Live, Own
<1>8. /\ Dialled # Session /\ Dialled[1] = "bridge" /\ Session[1] = "phone" /\ Session # None
      /\ Session \in Socket /\ Own("phone") = Session /\ Session[2] \in Nat
      /\ (connector.link = "open" => Dialled \in Socket) /\ (Dialled \in open => Dialled \in Socket)
  <2>1. Session \in Socket /\ Session # None /\ Session[2] \in 1 .. MaxSessions
    BY <1>1, <1>4, OwnIs, SocketIs
  <2> QED
    BY <1>1, <1>3, <2>1, OwnIs
<1>9. /\ Register \in Msg /\ ~ Frame(Register) /\ Register # closed
  BY NoticesDiffer, NoticeIs
<1>10. /\ one \in Seq(Msg) /\ In(one) = {Register} /\ In(<<>>) = {}
       /\ \A R : Chain(one, R)
  BY <1>9, Single, Emptied
<1> HIDE DEF one
<1>11. up' \in [Socket -> Seq(Msg)] /\ up'[Session] = one /\ \A x \in Socket : x # Session => up'[x] = up[x]
  BY <1>1, <1>4, <1>8, <1>10, TakenIs
<1>12. /\ Session \notin open /\ down["phone"] = <<>> /\ \A e \in End : peers[e] # Session
  BY <1>1, <1>4, <1>8 DEF Sockets
<1>13. RelayTypeOK'
  <2>1. open' \subseteq Socket
    BY <1>3, <1>4, <1>8
  <2>2. p.n # 0
    BY <1>1, <1>4, <1>6 DEF RelayTypeOK
  <2> QED
    BY <1>1, <1>4, <1>6, <1>11, <2>1, <2>2 DEF RelayTypeOK
<1>14. Sockets'
  <2>1. \A x \in open' : x[2] <= Own(x[1])'[2]
    BY <1>1, <1>4, <1>7, <1>8 DEF Sockets
  <2>2. /\ connector'.link \in {"none", "dialing"} => Dialled \notin open' /\ down'["bridge"] = <<>>
        /\ connector'.link = "closing" => In(down'["bridge"]) \subseteq {closed}
        /\ connector'.stopped => connector'.link \in {"closing", "closed"}
        /\ \A e \in End : peers'[e] # None => peers'[e] \in open' /\ peers'[e][1] = e
    BY <1>1, <1>4, <1>8 DEF Sockets
  <2> QED
    BY <1>6, <1>7, <2>1, <2>2 DEF Sockets
<1>15. Queues'
  <2> SUFFICES ASSUME NEW x \in Socket
               PROVE  /\ Chain(up'[x], NotRegister)
                      /\ Register \in In(up'[x]) => peers[x[1]] # x
                      /\ \A m \in In(up'[x]) : Frame(m) =>
                           /\ \/ peers[x[1]] = x
                              \/ x[1] = "bridge" /\ m.type = "relay/data" /\ Register \in In(up'[x])
                           /\ x[1] = "phone" => Author(m) = x[2]
    BY <1>4 DEF Queues
  <2>1. CASE x = Session
    BY <1>3, <1>8, <1>9, <1>10, <1>11, <1>12, <2>1
  <2>2. CASE x # Session
    BY <1>1, <1>11, <2>2 DEF Queues
  <2> QED
    BY <2>1, <2>2
<1>16. BridgeTold'
  <2> SUFFICES ASSUME connector.link = "open", Dialled \in open'
               PROVE  /\ peers["bridge"] = Dialled \/ Register \in In(up'[Dialled]) \/ Closing(up'[Dialled])
                      /\ \A m \in In(down["bridge"]) : m = closed \/ peers["bridge"] = Dialled
                      /\ closed \in In(down["bridge"]) => Closing(up'[Dialled])
    BY <1>4, <1>7 DEF BridgeTold
  <2>1. Dialled \in open /\ up'[Dialled] = up[Dialled]
    BY <1>4, <1>8, <1>11
  <2> QED
    BY <1>1, <2>1 DEF BridgeTold
<1>17. PhoneTold'
  BY <1>4, <1>6, <1>7, <1>10, <1>12 DEF PhoneTold
<1>18. Ordered'
  <2>1. \A x \in Socket : x[1] = "bridge" => up'[x] = up[x]
    BY <1>8, <1>11
  <2>2. \A x \in Socket : \A g \in In(up'[x]) : Frame(g) => g \in In(up[x])
    BY <1>9, <1>10, <1>11
  <2> QED
    BY <1>1, <1>4, <2>1, <2>2 DEF Ordered
<1>19. Fresh'
  <2>1. FreshFrom(down'["phone"], phone'.peerEphemeral)
    BY <1>4, <1>12, FreshEmpty
  <2>2. peers'["phone"] # Session'
    BY <1>3, <1>4, <1>7, <1>12
  <2> QED
    BY <2>1, <2>2 DEF Fresh
<1> DEFINE P == PhoneSent'
           B == BridgeSent'
<1>20. P \subseteq PhoneSent /\ B \subseteq BridgeSent
  <2>1. /\ \A g : g \in PhoneSent <=>
             Frame(g) /\ (g \in In(down["bridge"]) \/ \E x \in Socket : x[1] = "phone" /\ g \in In(up[x]))
        /\ \A g : g \in BridgeSent <=>
             Frame(g) /\ (g \in In(down["phone"]) \/ \E x \in Socket : x[1] = "bridge" /\ g \in In(up[x]))
    BY <1>1, OnTheirWay
  <2>2. /\ \A g : g \in P <=>
             Frame(g) /\ (g \in In(down'["bridge"]) \/ \E x \in Socket : x[1] = "phone" /\ g \in In(up'[x]))
        /\ \A g : g \in B <=>
             Frame(g) /\ (g \in In(down'["phone"]) \/ \E x \in Socket : x[1] = "bridge" /\ g \in In(up'[x]))
    BY <1>13, OnTheirWayNext
  <2>3. \A x \in Socket : \A g \in In(up'[x]) : Frame(g) => g \in In(up[x])
    BY <1>9, <1>10, <1>11
  <2> HIDE DEF P, B
  <2> QED
    BY <1>4, <2>1, <2>2, <2>3
<1> HIDE DEF P, B
<1>21. PhoneSent \in SUBSET Frames /\ BridgeSent \in SUBSET Frames
  BY <1>1, OnTheirWay
<1>22. Mutual(connector, p, P, B)
  <2>1. Said(p, B) \subseteq Said(phone, BridgeSent)
    BY <1>5, <1>6, <1>20 DEF Said, Greetings
  <2> QED
    BY <1>5, <1>6, <2>1 DEF Mutual
<1>23. Paired' /\ Accusing'
  <2>1. Mutual(connector, phone, PhoneSent, BridgeSent)'
    BY <1>4, <1>22 DEF P, B, p
  <2> QED
    BY <1>1, <1>4, <1>6, <2>1 DEF Paired, Accusing
<1>24. Present(s)'
  BY <1>3, <1>4, <1>7, <1>12 DEF Present
<1>25. Agreed(connector, p, P, B, s)
  <2>1. Agreed(connector, p, PhoneSent, BridgeSent, s)
    <3> HIDE DEF p
    <3> QED
      BY <1>2, <1>3, <1>4, <1>6, <1>21, ConnectingAgrees
  <2>2. SameCore(connector, connector) /\ SameSession(p, p)
    BY DEF SameCore, SameSession
  <2>3. P \in SUBSET PhoneSent /\ B \in SUBSET BridgeSent
    BY <1>20
  <2> HIDE DEF p
  <2> QED
    BY <1>3, <1>6, <1>21, <2>1, <2>2, <2>3, FewerAgree
<1>26. Agreed(connector, phone, PhoneSent, BridgeSent, s)'
  BY <1>4, <1>25 DEF P, B, p
<1> QED
  BY <1>13, <1>14, <1>15, <1>16, <1>17, <1>18, <1>19, <1>23, <1>24, <1>26 DEF RelayInv

\* A phone that waits for something stays sealed, or waits no more.
LEMMA OnMessageWaits ==
  ASSUME NEW p \in Phone, NEW m \in Msg, p.phase = "sealed" <=> p.channel # None,
         p.pending # {} \/ p.sub # "none" => p.phase = "sealed"
  PROVE  LET q == OnMessage(p, m).object
         IN  q.pending # {} \/ q.sub # "none" => q.phase = "sealed"
<1> DEFINE Waits(q) == q.pending # {} \/ q.sub # "none" => q.phase = "sealed"
           Idle(q)  == q.pending = {} /\ q.sub = "none"
<1>1. \A ms, e : Waits(Finished(p, ms, e).object)
  BY DEF Finished, Finish, unbuilt
<1>2. \A o, ms, e : Waits(Finished(o, ms, e).object)
  BY DEF Finished, Finish, unbuilt
<1>3. p.channel = None => Idle(p)
  OBVIOUS
<1>4. Waits(PhoneBeginSeal(p).object) /\ (p.channel = None => Idle(PhoneBeginSeal(p).object))
  BY <1>3 DEF PhoneBeginSeal, Step, Phone
<1>5. PhoneBeginSeal(p).object \in Phone
  BY PhoneBeginSealIs
<1>6. Waits(OnHandshakeFrame(p, m).object)
  <2> DEFINE o == PhoneBeginSeal(p).object
             d == [o EXCEPT !.signed = TRUE, !.peerEphemeral = m.eph]
             f == [d EXCEPT !.channel = m.sig, !.begun = FALSE, !.phase = "sealed"]
  <2>1. p.channel = None => Idle(d) /\ Idle(f)
    <3>1. o \in Phone
      BY <1>5
    <3>2. p.channel = None => Idle(o)
      BY <1>4
    <3> HIDE DEF o
    <3> QED
      BY <3>1, <3>2 DEF Phone
  <2> HIDE DEF d, f, Waits
  <2>2. p.channel = None => Waits(d) /\ Waits(f)
    BY <2>1 DEF Waits
  <2>3. \A x, ms : Step(x, ms).object = x
    BY DEF Step
  <2>4. OnHandshakeFrame(p, m).object = d \/ OnHandshakeFrame(p, m).object = f
        \/ \E x, ms, e : OnHandshakeFrame(p, m) = Finished(x, ms, e)
    BY <2>3 DEF OnHandshakeFrame, d, f
  <2>5. p.channel # None => \E x, ms, e : OnHandshakeFrame(p, m) = Finished(x, ms, e)
    BY DEF OnHandshakeFrame
  <2> QED
    BY <1>2, <2>2, <2>4, <2>5
<1>7. Waits(OnTunnelMessage(p, m))
  BY DEF OnTunnelMessage, Phone
<1> HIDE DEF Waits, Idle
<1>8. CASE m.type = "relay/handshake"
  <2>1. OnMessage(p, m) = OnHandshakeFrame(p, m)
    BY <1>8, OnMessageIs
  <2> QED
    BY <1>6, <2>1 DEF Waits
<1>9. CASE m.type = "relay/data"
  <2>1. \/ p.channel = None /\ OnMessage(p, m) = Step(p, <<>>)
        \/ OnMessage(p, m) = Finished(p, <<>>, "retry")
        \/ OnMessage(p, m) = Step(OnTunnelMessage(p, m), <<>>)
    BY <1>9, OnMessageIs
  <2>2. \A x, ms : Step(x, ms).object = x
    BY DEF Step
  <2>3. Waits(p)
    BY DEF Waits
  <2>4. Waits(OnMessage(p, m).object)
    BY <1>2, <1>7, <2>1, <2>2, <2>3
  <2> QED
    BY <2>4 DEF Waits
<1>10. CASE ~ Frame(m)
  <2>1. \/ OnMessage(p, m) = PhoneBeginSeal(p)
        \/ \E e : OnMessage(p, m) = Finished(p, <<>>, e)
    BY <1>10, OnMessageIs
  <2>2. Waits(OnMessage(p, m).object)
    BY <1>2, <1>4, <2>1
  <2> QED
    BY <2>2 DEF Waits
<1> QED
  BY <1>8, <1>9, <1>10 DEF Frame

LEMMA WaitingKept ==
  ASSUME RelayInv, Waiting, RelayNext
  PROVE  Waiting'
<1>1. phone \in Phone /\ down \in [End -> Seq(Msg)] /\ (phone.phase = "sealed" <=> phone.channel # None)
  <2>1. Theirs(connector, phone)
    BY DEF RelayInv, Agreed
  <2> QED
    BY <2>1 DEF RelayInv, RelayTypeOK, Theirs
<1>2. CASE phone' = phone
  BY <1>2 DEF Waiting
<1>3. CASE PhoneReads
  <2> DEFINE m == Head(down["phone"])
  <2>1. phone' = OnMessage(phone, m).object
    BY <1>3 DEF PhoneReads, PhoneDoes
  <2>2. m \in Msg
    <3>1. down["phone"] \in Seq(Msg) /\ down["phone"] # <<>>
      BY <1>1, <1>3, EndIs DEF PhoneReads
    <3> QED
      BY <3>1, Headed
  <2> HIDE DEF m
  <2>3. phone.pending # {} \/ phone.sub # "none" => phone.phase = "sealed"
    BY DEF Waiting
  <2> QED
    BY <1>1, <2>1, <2>2, <2>3, OnMessageWaits DEF Waiting
<1>4. CASE PhoneConnects
  BY <1>4 DEF PhoneConnects, unbuilt, Waiting
<1>5. CASE PhoneSocketOpens
  BY <1>1, <1>5 DEF PhoneSocketOpens, Waiting, Phone
<1>6. CASE PhoneSocketFails \/ PhoneCloses \/ HandshakeTimeout
  <2>1. PICK ms : phone' = Finished(phone, ms, "retry").object
    BY <1>6 DEF PhoneSocketFails, PhoneCloses, HandshakeTimeout, PhoneDoes
  <2>2. phone'.pending = {} /\ phone'.sub = "none"
    BY <2>1 DEF Finished, Finish, unbuilt
  <2> QED
    BY <2>2 DEF Waiting
<1>7. CASE PhoneRequests
  BY <1>1, <1>7 DEF PhoneRequests, PhoneDoes, Step, Waiting, Phone
<1>8. CASE PhoneSubscribes
  BY <1>1, <1>8 DEF PhoneSubscribes, PhoneDoes, Step, Waiting, Phone
<1>9. ASSUME NEW id \in phone.pending, RequestTimesOut(id) PROVE Waiting'
  BY <1>1, <1>9 DEF RequestTimesOut, PhoneDoes, Step, Waiting, Phone
<1>10. CASE \/ \E s \in Socket : RelayReads(s) \/ ConnectionDies(s)
            \/ ConnectorReads \/ ConnectorDials \/ ConnectorStops
            \/ ConnectorSocketOpens \/ ConnectorSocketFails
            \/ \E r \in backend : BackendAnswers(r) \/ SubscribeAnswered(r)
            \/ \E n \in connector.live : StreamGreets(n) \/ StreamEnds(n)
  <2>1. phone' = phone
    BY <1>10 DEF RelayReads, ConnectionDies, ConnectorReads, ConnectorDials, ConnectorStops,
         ConnectorSocketOpens, ConnectorSocketFails, BackendAnswers, SubscribeAnswered,
         StreamGreets, StreamEnds
  <2> QED
    BY <1>2, <2>1
<1> QED
  BY <1>3, <1>4, <1>5, <1>6, <1>7, <1>8, <1>9, <1>10 DEF RelayNext

\* The inductive invariant.
RelayInvHolds == RelayInv /\ Waiting

LEMMA RelayInvStarts ==
  ASSUME RelayInit
  PROVE  RelayInvHolds
<1>1. /\ connector = undialled /\ phone = unbuilt /\ backend = {} /\ greeted = {} /\ open = {}
      /\ peers = [e \in End |-> None] /\ up = [s \in Socket |-> <<>>] /\ down = [e \in End |-> <<>>]
      /\ faults = 0 /\ overQuota = FALSE /\ carriedOver = FALSE
  BY DEF RelayInit
<1>2. <<>> \in Seq(Msg) /\ In(<<>>) = {} /\ \A R : Chain(<<>>, R)
  BY Emptied
<1>3. MaxDials \in Nat /\ MaxSessions \in Nat /\ "bridge" \in End /\ "phone" \in End
  BY SocketIs, EndIs
<1>4. /\ undialled \in Connector /\ undialled.n = 0 /\ undialled.link = "none" /\ ~ undialled.stopped
      /\ undialled.channel = None /\ undialled.handshake = 0 /\ undialled.ephemerals = 0
  BY <1>3 DEF undialled, Connector, Links, States
<1>5. /\ unbuilt \in Phone /\ unbuilt.n = 0 /\ unbuilt.phase = "idle" /\ unbuilt.channel = None
      /\ ~ unbuilt.signed /\ ~ unbuilt.begun /\ unbuilt.peerEphemeral = 0 /\ unbuilt.ended = "no"
      /\ unbuilt.sub = "none" /\ unbuilt.pending = {}
  BY <1>3 DEF unbuilt, Phone, Phases
<1>6. RelayTypeOK
  BY <1>1, <1>2, <1>4, <1>5 DEF RelayTypeOK
<1>7. down["phone"] = <<>> /\ down["bridge"] = <<>> /\ \A s \in Socket : up[s] = <<>>
  BY <1>1, <1>3
<1>8. PhoneSent = {} /\ BridgeSent = {}
  BY <1>2, <1>6, <1>7, OnTheirWay
<1>9. Sockets /\ ~ Live
  BY <1>1, <1>2, <1>4, <1>5, <1>7 DEF Sockets, Live
<1>10. Queues /\ BridgeTold /\ PhoneTold /\ Ordered
  BY <1>1, <1>2, <1>4, <1>7, <1>9 DEF Queues, BridgeTold, PhoneTold, Ordered
<1>11. Fresh /\ Paired /\ Accusing
  BY <1>1, <1>2, <1>5, <1>7, <1>9, FreshEmpty DEF Fresh, Paired, Facing, Accusing
<1>12. Agreed(undialled, unbuilt, {}, {}, 0)
  <2>1. Said(unbuilt, {}) = {} /\ Keyed(undialled, {}) = {} /\ Given(undialled, {}) = {} /\ Records({}) = {}
    BY <1>4, <1>5 DEF Said, Keyed, Given, Records, Greetings
  <2>2. Shapes(undialled, unbuilt, {}, {}) /\ Ours(undialled, unbuilt, {}) /\ Theirs(undialled, unbuilt)
    BY <1>4, <1>5 DEF Shapes, Ours, Theirs
  <2>3. OneSignature(undialled, unbuilt, {}, {}) /\ SaidFirst(undialled, unbuilt, {})
    BY <2>1 DEF OneSignature, SaidFirst
  <2>4. Answered(undialled, unbuilt, {}, {}, 0)
    BY <1>4, <1>5, <2>1 DEF Answered
  <2> QED
    BY <2>2, <2>3, <2>4 DEF Agreed
<1>13. Agreed(connector, phone, PhoneSent, BridgeSent, 0) /\ Present(0)
  BY <1>1, <1>8, <1>9, <1>12 DEF Present
<1>14. 0 \in 0 .. MaxSessions
  BY <1>3
<1>15. Waiting
  BY <1>1, <1>5 DEF Waiting
<1> QED
  BY <1>6, <1>9, <1>10, <1>11, <1>13, <1>14, <1>15 DEF RelayInvHolds, RelayInv

LEMMA StepKeepsRelayInv ==
  ASSUME RelayInv, Waiting, RelayNext
  PROVE  RelayInv'
<1>1. RelayInv /\ Waiting
  OBVIOUS
<1>2. ASSUME NEW s \in Socket, RelayReads(s) \/ ConnectionDies(s) PROVE RelayInv'
  BY <1>1, <1>2, RelayReadsKeeps, ConnectionDiesKeeps
<1>3. CASE ConnectorReads \/ ConnectorDials \/ ConnectorStops
  BY <1>1, <1>3, ConnectorReadsKeeps, ConnectorDialsKeeps, ConnectorStopsKeeps
<1>4. CASE ConnectorSocketOpens \/ ConnectorSocketFails
  BY <1>1, <1>4, ConnectorSocketOpensKeeps, ConnectorSocketFailsKeeps
<1>5. ASSUME NEW r \in backend, BackendAnswers(r) \/ SubscribeAnswered(r) PROVE RelayInv'
  BY <1>1, <1>5, BackendAnswersKeeps, SubscribeAnsweredKeeps
<1>6. ASSUME NEW n \in connector.live, StreamGreets(n) \/ StreamEnds(n) PROVE RelayInv'
  BY <1>1, <1>6, StreamGreetsKeeps, StreamEndsKeeps
<1>7. CASE PhoneReads \/ PhoneConnects \/ PhoneSocketOpens \/ PhoneSocketFails
  BY <1>1, <1>7, PhoneReadsKeeps, PhoneConnectsKeeps, PhoneSocketOpensKeeps, PhoneSocketFailsKeeps
<1>8. CASE PhoneCloses \/ HandshakeTimeout \/ PhoneRequests \/ PhoneSubscribes
  BY <1>1, <1>8, PhoneClosesKeeps, HandshakeTimeoutKeeps, PhoneRequestsKeeps, PhoneSubscribesKeeps
<1>9. ASSUME NEW id \in phone.pending, RequestTimesOut(id) PROVE RelayInv'
  BY <1>1, <1>9, RequestTimesOutKeeps
<1> QED
  BY <1>2, <1>3, <1>4, <1>5, <1>6, <1>7, <1>8, <1>9 DEF RelayNext

LEMMA RelayInvKept ==
  ASSUME RelayInvHolds, RelayNext
  PROVE  RelayInvHolds'
BY StepKeepsRelayInv, WaitingKept DEF RelayInvHolds

LEMMA RelayInvStutters ==
  ASSUME RelayInvHolds, UNCHANGED relayVars
  PROVE  RelayInvHolds'
<1>1. /\ connector' = connector /\ phone' = phone /\ backend' = backend /\ greeted' = greeted
      /\ peers' = peers /\ open' = open /\ up' = up /\ down' = down /\ faults' = faults
      /\ overQuota' = overQuota /\ carriedOver' = carriedOver
  BY DEF relayVars
<1>2. /\ Dialled' = Dialled /\ Session' = Session /\ (\A e : Own(e)' = Own(e)) /\ Live' = Live
      /\ PhoneSent' = PhoneSent /\ BridgeSent' = BridgeSent
  BY <1>1 DEF Dialled, Session, Own, Live, PhoneSent, BridgeSent
<1>3. RelayTypeOK' /\ Sockets' /\ Queues' /\ BridgeTold' /\ PhoneTold' /\ Ordered' /\ Fresh'
  BY <1>1, <1>2 DEF RelayInvHolds, RelayInv, RelayTypeOK, Sockets, Queues, BridgeTold, PhoneTold,
     Ordered, Fresh
<1>4. Paired' /\ Accusing' /\ Waiting'
  BY <1>1, <1>2 DEF RelayInvHolds, RelayInv, Paired, Facing, Accusing, Waiting
<1>5. PICK s \in 0 .. MaxSessions : Agreed(connector, phone, PhoneSent, BridgeSent, s) /\ Present(s)
  BY DEF RelayInvHolds, RelayInv
<1>6. Agreed(connector, phone, PhoneSent, BridgeSent, s)' /\ Present(s)'
  BY <1>1, <1>2, <1>5 DEF Present
<1> QED
  BY <1>3, <1>4, <1>6 DEF RelayInvHolds, RelayInv

\* The inductive invariant of the tunnel in every state: types, the sockets and queues as
\* connector.ts, relay-transport.ts and server.ts keep them, the order frames are read in, and
\* what the two ends know of each other.
THEOREM RelayInvAlways == RelaySpec => []RelayInvHolds
<1>1. RelayInvHolds /\ [RelayNext]_relayVars => RelayInvHolds'
  BY RelayInvKept, RelayInvStutters
<1> QED
  BY <1>1, RelayInvStarts, PTL DEF RelaySpec

-----------------------------------------------------------------------------
\* What the invariant is for.
LEMMA SealedIsMutualThen ==
  ASSUME RelayInv
  PROVE  SealedIsMutual
<1> SUFFICES ASSUME phone.channel # None, ~ Ending, Orphans = {}
             PROVE  \/ connector.channel = phone.channel
                    \/ Handshake(phone.n, phone.channel) \in ToSet(up[Session]) \cup ToSet(down["bridge"])
  BY DEF SealedIsMutual
<1> DEFINE h == Handshake(phone.n, <<phone.n, phone.peerEphemeral>>)
<1>1. RelayTypeOK /\ Sockets /\ Queues /\ PhoneTold /\ Fresh /\ Paired
  BY DEF RelayInv
<1>2. PICK s \in 0 .. MaxSessions : Agreed(connector, phone, PhoneSent, BridgeSent, s)
  BY DEF RelayInv
<1>3. /\ phone.phase = "sealed" /\ phone.channel = <<phone.n, phone.peerEphemeral>> /\ phone.signed
      /\ phone.peerEphemeral # 0
  <2>1. Theirs(connector, phone)
    BY <1>2 DEF Agreed
  <2> QED
    BY <2>1 DEF Theirs
<1>4. /\ up \in [Socket -> Seq(Msg)] /\ down["phone"] \in Seq(Msg) /\ down["bridge"] \in Seq(Msg)
      /\ peers \in [End -> Socket \cup {None}] /\ phone \in Phone /\ phone.n \in Nat
      /\ "phone" \in End /\ "bridge" \in End
  BY <1>1, EndIs, SocketIs DEF RelayTypeOK, Phone
<1>5. Live /\ Session \in Socket /\ Session # None /\ Session[1] = "phone"
  BY <1>1, <1>3, OwnIs, LiveIs, SocketIs DEF Live
<1>6. \A q \in Seq(Msg) : In(q) = ToSet(q) /\ In(q) = {q[i] : i \in DOMAIN q}
  BY DEF In, ToSet
<1>7. NoEnds(down["phone"])
  <2> SUFFICES ASSUME NEW m \in In(down["phone"]), Ends(m) PROVE FALSE
    BY DEF NoEnds
  <2>1. PICK i \in DOMAIN down["phone"] : m = down["phone"][i]
    BY <1>4, <1>6
  <2> QED
    BY <2>1 DEF Ending, Ends
<1>8. Session \in open /\ peers["phone"] = Session
  <2>1. closed \notin In(down["phone"])
    BY <1>7, NoticesDiffer DEF NoEnds
  <2> QED
    BY <1>1, <1>3, <1>5, <2>1 DEF PhoneTold
<1>9. peers["bridge"] # None
  BY <1>1, <1>3, <1>5, <1>7, <1>8 DEF Fresh
<1>10. /\ peers["bridge"] = Dialled /\ connector.link = "open" /\ ~ Closing(up[Dialled])
       /\ ~ Closing(up[Session])
  <2>1. peers["bridge"] \in open /\ peers["bridge"][1] = "bridge" /\ ~ Closing(up[peers["bridge"]])
    BY <1>1, <1>4, <1>9 DEF Sockets, Ending
  <2>2. peers["bridge"] = Dialled /\ connector.link = "open"
    BY <2>1 DEF Orphans
  <2> QED
    BY <2>1, <2>2 DEF Ending
<1>11. Facing
  BY <1>5, <1>7, <1>10 DEF Facing
<1>12. Mutual(connector, phone, PhoneSent, BridgeSent)
  BY <1>1, <1>11 DEF Paired
<1>13. /\ \A g : g \in PhoneSent <=>
            Frame(g) /\ (g \in In(down["bridge"]) \/ \E x \in Socket : x[1] = "phone" /\ g \in In(up[x]))
       /\ BridgeSent \in SUBSET Frames
  BY <1>1, OnTheirWay
<1>14. phone.channel \in Said(phone, BridgeSent) /\ phone.channel[1] = phone.n
  <2>1. phone.channel[1] = phone.n
    BY <1>3
  <2>2. phone.channel # None
    OBVIOUS
  <2> QED
    BY <1>4, <1>13, <2>1, <2>2, SaidIs
<1>15. connector.channel = phone.channel \/ connector.handshake = phone.channel[2]
  BY <1>12, <1>14 DEF Mutual
<1>16. connector.handshake = phone.channel[2] => h \in PhoneSent
  <2>1. phone.channel[2] = phone.peerEphemeral
    BY <1>3
  <2> QED
    BY <1>3, <1>12, <2>1 DEF Mutual
<1>17. ASSUME NEW g \in PhoneSent PROVE g \in In(down["bridge"]) \cup In(up[Session])
  <2> SUFFICES ASSUME NEW x \in Socket, x[1] = "phone", g \in In(up[x]), Frame(g)
               PROVE  x = Session
    BY <1>13, <1>17
  <2>1. peers[x[1]] = x
    BY <1>1 DEF Queues
  <2> QED
    BY <1>8, <2>1
<1>18. up[Session] \in Seq(Msg)
  BY <1>4, <1>5
<1>19. h = Handshake(phone.n, phone.channel)
  BY <1>3
<1>20. In(up[Session]) = ToSet(up[Session]) /\ In(down["bridge"]) = ToSet(down["bridge"])
  BY <1>4, <1>6, <1>18
<1> HIDE DEF h
<1> QED
  BY <1>15, <1>16, <1>17, <1>19, <1>20

LEMMA HonestRecordsOpenThen ==
  ASSUME RelayInv
  PROVE  HonestRecordsOpen
<1>1. RelayTypeOK /\ Fresh
  BY DEF RelayInv
<1>2. PICK s \in 0 .. MaxSessions : Agreed(connector, phone, PhoneSent, BridgeSent, s)
  BY DEF RelayInv
<1>3. /\ down["phone"] \in Seq(Msg) /\ down["bridge"] \in Seq(Msg) /\ phone \in Phone
      /\ connector \in Connector /\ PhoneSent \in SUBSET Frames /\ BridgeSent \in SUBSET Frames
      /\ s \in Nat /\ phone.n \in Nat
  <2>1. PhoneSent \in SUBSET Frames /\ BridgeSent \in SUBSET Frames
    BY <1>1, OnTheirWay
  <2>2. /\ down["phone"] \in Seq(Msg) /\ down["bridge"] \in Seq(Msg) /\ phone \in Phone
        /\ connector \in Connector
    BY <1>1, EndIs DEF RelayTypeOK
  <2>3. s \in Nat /\ phone.n \in Nat
    BY <1>2, <2>2, SocketIs DEF Phone
  <2> QED
    BY <2>1, <2>2, <2>3
<1>4. /\ \A g : g \in PhoneSent <=>
            Frame(g) /\ (g \in In(down["bridge"]) \/ \E x \in Socket : x[1] = "phone" /\ g \in In(up[x]))
      /\ \A g : g \in BridgeSent <=>
            Frame(g) /\ (g \in In(down["phone"]) \/ \E x \in Socket : x[1] = "bridge" /\ g \in In(up[x]))
  BY <1>1, OnTheirWay
<1>5. /\ Shapes(connector, phone, PhoneSent, BridgeSent) /\ Theirs(connector, phone)
      /\ OneSignature(connector, phone, PhoneSent, BridgeSent)
      /\ Answered(connector, phone, PhoneSent, BridgeSent, s) /\ SaidFirst(connector, phone, BridgeSent)
  BY <1>2 DEF Agreed
<1>6. ASSUME down["bridge"] # <<>>, Head(down["bridge"]).type = "relay/data", connector.channel # None
      PROVE  Head(down["bridge"]).key = connector.channel
  <2> DEFINE m == Head(down["bridge"])
             c == connector.channel
  <2>1. m \in In(down["bridge"])
    BY <1>3, <1>6, Headed
  <2>2. m \in PhoneSent /\ m \in Records(PhoneSent)
    BY <1>4, <1>6, <2>1 DEF Frame, Records
  <2>3. Pair(m) = m.key /\ m.key \in Keys /\ m.key # None /\ Author(m) = m.key[1]
    BY <1>3, <2>2, FramesAre
  <2>4. m.key \in Given(connector, PhoneSent) /\ c \in Given(connector, PhoneSent)
    <3> HIDE DEF m
    <3> QED
      BY <1>3, <1>6, <2>2, <2>3, GivenIs
  <2>5. m.key[1] \in Nat /\ c[1] = s /\ m.key[1] >= s /\ m.key[1] <= s
    <3>1. m.key[1] \in Nat
      BY <2>3, KeyIsPair
    <3> HIDE DEF m
    <3> QED
      BY <1>5, <1>6, <2>2, <2>3, <3>1 DEF Answered
  <2>6. m.key[1] = c[1]
    BY <1>3, <2>5
  <2> QED
    BY <1>5, <2>4, <2>6 DEF OneSignature
<1>7. ASSUME down["phone"] # <<>>, Head(down["phone"]).type = "relay/data", phone.channel # None
      PROVE  Head(down["phone"]).key = phone.channel
  <2> DEFINE m == Head(down["phone"])
             c == phone.channel
  <2>1. m \in In(down["phone"]) /\ m = down["phone"][1] /\ Len(down["phone"]) \in Nat \ {0}
    BY <1>3, <1>7, Headed
  <2>2. m \in BridgeSent /\ m \in Records(BridgeSent) /\ Frame(m)
    BY <1>4, <1>7, <2>1 DEF Frame, Records
  <2>3. Pair(m) = m.key /\ m.key \in Keys /\ m.key # None /\ Epoch(m) = m.key[2]
    BY <1>3, <2>2, FramesAre
  <2>4. m.key[1] \in Nat /\ m.key[2] \in Nat /\ phone.peerEphemeral \in Nat
    BY <1>3, <2>3, KeyIsPair DEF Phone
  <2>5. m.key[2] >= phone.peerEphemeral
    <3>1. FreshFrom(down["phone"], phone.peerEphemeral)
      BY <1>1 DEF Fresh
    <3>2. 1 \in 1 .. Len(down["phone"]) /\ 1 .. 1 - 1 = {}
      BY <2>1
    <3> HIDE DEF m
    <3>3. Epoch(m) >= phone.peerEphemeral
      BY <2>1, <2>2, <3>1, <3>2 DEF FreshFrom
    <3> QED
      BY <2>3, <3>3
  <2>6. m.key \in Keyed(connector, BridgeSent) /\ c \in Said(phone, BridgeSent)
    <3> HIDE DEF m
    <3> QED
      BY <1>3, <1>7, <2>2, <2>3, KeyedIs, SaidIs
  <2>7. c = <<phone.n, phone.peerEphemeral>> /\ phone.phase = "sealed"
    BY <1>5, <1>7 DEF Theirs
  <2> HIDE DEF m
  <2>8. m.key[1] >= phone.n /\ m.key[1] <= phone.n
    <3>1. c[1] = phone.n /\ c[2] = phone.peerEphemeral
      BY <2>7
    <3>2. m.key[1] >= phone.n
      BY <1>5, <2>5, <2>6, <3>1 DEF SaidFirst
    <3>3. m.key[1] \in 1 .. phone.n
      BY <1>5, <2>2, <2>3 DEF Shapes
    <3> QED
      BY <1>3, <3>2, <3>3
  <2>9. m.key[1] = phone.n
    BY <1>3, <2>4, <2>8
  <2>10. m.key[2] = phone.peerEphemeral
    BY <1>5, <2>6, <2>7, <2>9 DEF OneSignature
  <2>11. m.key = <<m.key[1], m.key[2]>>
    BY <2>3, KeyIsPair
  <2> QED
    BY <2>7, <2>9, <2>10, <2>11 DEF m
<1> QED
  BY <1>6, <1>7 DEF HonestRecordsOpen, End

\* ChannelsAgree in every state: the two ends hold one channel or the phone is about to
\* hear otherwise, no honest record is refused, and no end accuses the other unless an
\* earlier session is still about. Of onSealHandshake, onPeerOffline and onSealedRecord in
\* connector.ts, of onHandshakeFrame and the close paths in relay-transport.ts, and of what
\* server.ts forwards.
THEOREM ChannelsAlwaysAgree == RelaySpec => []ChannelsAgree
<1>1. RelayInvHolds => ChannelsAgree
  <2> SUFFICES ASSUME RelayInvHolds PROVE ChannelsAgree
    OBVIOUS
  <2>1. RelayInv
    BY DEF RelayInvHolds
  <2>2. AccusedOnlyAfterOverlap
    BY <2>1 DEF RelayInv, Accusing, AccusedOnlyAfterOverlap
  <2> QED
    BY <2>1, <2>2, SealedIsMutualThen, HonestRecordsOpenThen DEF ChannelsAgree
<1> QED
  BY <1>1, RelayInvAlways, PTL
=============================================================================
