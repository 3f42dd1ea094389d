-------------------------- MODULE RelayQuiet_proofs -------------------------
(***************************************************************************)
(* Theorems about what a tunnel never forgets, for every number of dials,  *)
(* sessions, requests and faults: the handshake, as long as the two ends   *)
(* are not sealed, and after that whatever the phone waits for.  What brings *)
(* it on is in a queue, in the hands of the bridge or in a retained answer, *)
(* and no end of the session is in sight.  The proofs rest on the invariant *)
(* of RelayTunnel_proofs.                                                  *)
(***************************************************************************)
EXTENDS RelayTunnel_proofs

-----------------------------------------------------------------------------
\* What is still under way.

\* The frame a session begins with. Each session of the phone sends it once.
First(m) == m.type = "relay/handshake" /\ m.sig = None
\* In a queue of the connector: the phone leaves between the messages i and j.
Leaves(q, i, j) == \E k \in i + 1 .. j - 1 : q[k] = PeerOffline
\* Who is greeted: a connector that has answered already (b), before it reads q; and again
\* with each session that begins in q.
Greets(b, q, i) == IF i = 0 THEN b ELSE First(q[i])
\* One session at a time: the phone leaves before the next of its sessions greets.
Apart(b, q) ==
  \A j \in 1 .. Len(q), i \in 0 .. Len(q) :
    i < j /\ First(q[j]) /\ Greets(b, q, i) => Leaves(q, i, j)
\* A connector that has read q still faces a session that has greeted it.
Faced(b, q) == \E i \in 0 .. Len(q) : Greets(b, q, i) /\ ~ Leaves(q, i, Len(q) + 1)

LEMMA NobodyGreets ==
  ASSUME NEW q \in Seq(Msg), \A m \in In(q) : ~ First(m)
  PROVE  Apart(FALSE, q) /\ ~ Faced(FALSE, q)
<1>1. \A i \in 1 .. Len(q) : ~ First(q[i])
  BY DEF In
<1>2. Len(q) \in Nat
  BY LenProperties
<1>3. \A i \in 0 .. Len(q) : i # 0 => i \in 1 .. Len(q)
  BY <1>2
<1> QED
  BY <1>1, <1>3 DEF Apart, Faced, Greets

LEMMA ApartJoin ==
  ASSUME NEW b, NEW q \in Seq(Msg), NEW m \in Msg, Apart(b, q), First(m) => ~ Faced(b, q)
  PROVE  LET r == q \o <<m>>
         IN  Apart(b, r) /\ (Faced(b, r) => First(m) \/ (Faced(b, q) /\ m # PeerOffline))
<1> DEFINE r == q \o <<m>>
           n == Len(q)
<1>1. n \in Nat /\ Len(r) = n + 1 /\ (\A i \in 1 .. n : r[i] = q[i]) /\ r[n + 1] = m
  <2>1. <<m>> \in Seq(Msg) /\ Len(<<m>>) = 1 /\ <<m>>[1] = m
    BY Single
  <2>2. /\ Len(r) = Len(q) + Len(<<m>>) /\ Len(q) \in Nat
        /\ \A i \in 1 .. Len(q) : r[i] = q[i]
        /\ \A i \in 1 .. Len(<<m>>) : r[Len(q) + i] = <<m>>[i]
    BY <2>1, Joined
  <2>3. 1 \in 1 .. Len(<<m>>)
    BY <2>1
  <2> QED
    BY <2>1, <2>2, <2>3
<1> HIDE DEF r, n
<1>2. \A i \in 0 .. n : Greets(b, r, i) <=> Greets(b, q, i)
  <2>1. \A i \in 0 .. n : i # 0 => i \in 1 .. n
    BY <1>1
  <2> QED
    BY <1>1, <2>1 DEF Greets
<1>3. ASSUME NEW i \in 0 .. n, NEW j \in 1 .. n + 1 PROVE Leaves(r, i, j) <=> Leaves(q, i, j)
  <2>1. \A k \in i + 1 .. j - 1 : k \in 1 .. n
    BY <1>1
  <2> QED
    BY <1>1, <2>1 DEF Leaves
<1>4. ASSUME NEW i \in 0 .. n, Leaves(q, i, n + 1) \/ m = PeerOffline PROVE Leaves(r, i, n + 2)
  <2>1. i + 1 .. (n + 1) - 1 \subseteq i + 1 .. (n + 2) - 1 /\ n + 1 \in i + 1 .. (n + 2) - 1
    BY <1>1
  <2>2. \A k \in i + 1 .. (n + 1) - 1 : k \in 1 .. n
    BY <1>1
  <2> QED
    BY <1>1, <1>4, <2>1, <2>2 DEF Leaves
<1>5. Faced(b, q) <=> \E i \in 0 .. n : Greets(b, q, i) /\ ~ Leaves(q, i, n + 1)
  BY DEF Faced, n
<1>6. ASSUME NEW j \in 1 .. n + 1, NEW i \in 0 .. n + 1, i < j, First(r[j]), Greets(b, r, i)
      PROVE  Leaves(r, i, j)
  <2>1. i \in 0 .. n /\ Greets(b, q, i)
    BY <1>1, <1>2, <1>6
  <2>2. CASE j \in 1 .. n
    <3>1. First(q[j])
      BY <1>1, <1>6, <2>2
    <3>2. Leaves(q, i, j)
      BY <1>6, <2>1, <2>2, <3>1 DEF Apart, n
    <3> QED
      BY <1>3, <2>1, <3>2
  <2>3. CASE j = n + 1
    <3>1. Leaves(q, i, n + 1)
      BY <1>1, <1>5, <1>6, <2>1, <2>3
    <3> QED
      BY <1>1, <1>3, <2>1, <2>3, <3>1
  <2> QED
    BY <1>1, <2>2, <2>3
<1>7. ASSUME NEW i \in 0 .. n + 1, Greets(b, r, i), ~ Leaves(r, i, n + 2), ~ First(m)
      PROVE  Faced(b, q) /\ m # PeerOffline
  <2>1. i # n + 1
    BY <1>1, <1>7 DEF Greets
  <2>2. i \in 0 .. n
    BY <1>1, <2>1
  <2> QED
    BY <1>2, <1>4, <1>5, <1>7, <2>2
<1>8. (n + 1) + 1 = n + 2
  BY <1>1
<1>9. Apart(b, r)
  BY <1>1, <1>6 DEF Apart
<1>10. Faced(b, r) => First(m) \/ (Faced(b, q) /\ m # PeerOffline)
  BY <1>1, <1>7, <1>8 DEF Faced
<1> QED
  BY <1>9, <1>10 DEF r

LEMMA ApartTail ==
  ASSUME NEW b, NEW c, NEW q \in Seq(Msg), q # <<>>, Apart(b, q),
         c => Head(q) # PeerOffline /\ (b \/ First(Head(q)))
  PROVE  /\ Apart(c, Tail(q)) /\ (Faced(c, Tail(q)) => Faced(b, q))
         /\ First(Head(q)) => ~ b
<1> DEFINE t == Tail(q)
           n == Len(t)
<1>1. /\ n \in Nat /\ Len(q) = n + 1 /\ Head(q) = q[1] /\ \A i \in 1 .. n : t[i] = q[i + 1]
  <2>1. /\ Len(q) \in Nat \ {0} /\ Head(q) = q[1] /\ Len(t) = Len(q) - 1
        /\ \A i \in 1 .. Len(t) : t[i] = q[i + 1]
    BY Headed
  <2> QED
    BY <2>1
<1> HIDE DEF t, n
\* What greets in the tail greets in the queue: at the same place, or at the first.
<1>2. ASSUME NEW i \in 1 .. n PROVE Greets(c, t, i) <=> Greets(b, q, i + 1)
  <2>1. i # 0 /\ i + 1 # 0
    BY <1>1
  <2> QED
    BY <1>1, <2>1 DEF Greets
<1>3. ASSUME NEW i \in 0 .. n, NEW j \in 1 .. n + 1, Leaves(q, i + 1, j + 1) PROVE Leaves(t, i, j)
  <2>1. PICK k \in (i + 1) + 1 .. (j + 1) - 1 : q[k] = PeerOffline
    BY <1>3 DEF Leaves
  <2>2. k - 1 \in i + 1 .. j - 1 /\ k - 1 \in 1 .. n /\ (k - 1) + 1 = k
    BY <1>1
  <2>3. t[k - 1] = q[k]
    BY <1>1, <2>2
  <2> QED
    BY <2>1, <2>2, <2>3 DEF Leaves
<1>4. ASSUME c, ~ First(q[1]), NEW j \in 1 .. n + 1, Leaves(q, 0, j + 1) PROVE Leaves(t, 0, j)
  <2>1. PICK k \in 0 + 1 .. (j + 1) - 1 : q[k] = PeerOffline
    BY <1>4 DEF Leaves
  <2>2. k # 1
    BY <1>1, <1>4, <2>1
  <2>3. k - 1 \in 0 + 1 .. j - 1 /\ k - 1 \in 1 .. n /\ (k - 1) + 1 = k
    BY <1>1, <2>2
  <2>4. t[k - 1] = q[k]
    BY <1>1, <2>3
  <2> QED
    BY <2>1, <2>3, <2>4 DEF Leaves
\* The place in the queue of what greets at i in the tail.
<1> DEFINE p(i) == IF i = 0 /\ ~ First(q[1]) THEN 0 ELSE i + 1
<1>5. ASSUME NEW i \in 0 .. n, Greets(c, t, i)
      PROVE  /\ p(i) \in 0 .. n + 1 /\ Greets(b, q, p(i)) /\ p(i) <= i + 1
             /\ \A j \in 1 .. n + 1 : Leaves(q, p(i), j + 1) => Leaves(t, i, j)
  <2>1. CASE i # 0
    <3>1. i \in 1 .. n /\ p(i) = i + 1
      BY <1>1, <2>1
    <3> QED
      BY <1>1, <1>2, <1>3, <1>5, <3>1
  <2>2. CASE i = 0 /\ First(q[1])
    <3>1. p(i) = 1 /\ Greets(b, q, 1)
      BY <2>2 DEF Greets
    <3>2. 1 = i + 1
      BY <2>2
    <3> QED
      BY <1>1, <1>3, <3>1, <3>2
  <2>3. CASE i = 0 /\ ~ First(q[1])
    <3>1. c /\ p(i) = 0
      BY <1>5, <2>3 DEF Greets
    <3>2. b /\ Greets(b, q, 0) /\ 0 \in 0 .. n + 1 /\ 0 <= i + 1
      BY <1>1, <2>3, <3>1 DEF Greets
    <3>3. \A j \in 1 .. n + 1 : Leaves(q, 0, j + 1) => Leaves(t, 0, j)
      BY <1>4, <2>3, <3>1
    <3> QED
      BY <2>3, <3>1, <3>2, <3>3
  <2> QED
    BY <2>1, <2>2, <2>3
<1> HIDE DEF p
<1>6. ASSUME NEW j \in 1 .. n, NEW i \in 0 .. n, i < j, First(t[j]), Greets(c, t, i)
      PROVE  Leaves(t, i, j)
  <2>1. j + 1 \in 1 .. Len(q) /\ p(i) \in 0 .. Len(q) /\ p(i) < j + 1 /\ First(q[j + 1]) /\ j \in 1 .. n + 1
    BY <1>1, <1>5, <1>6
  <2>2. Leaves(q, p(i), j + 1)
    BY <1>5, <1>6, <2>1 DEF Apart
  <2> QED
    BY <1>5, <1>6, <2>1, <2>2
<1>7. ASSUME NEW i \in 0 .. n, Greets(c, t, i), ~ Leaves(t, i, n + 1) PROVE Faced(b, q)
  <2>1. n + 1 \in 1 .. n + 1 /\ (n + 1) + 1 = Len(q) + 1 /\ p(i) \in 0 .. Len(q)
    BY <1>1, <1>5, <1>7
  <2>2. ~ Leaves(q, p(i), Len(q) + 1)
    BY <1>5, <1>7, <2>1
  <2> QED
    BY <1>5, <1>7, <2>1, <2>2 DEF Faced
<1>8. First(q[1]) => ~ b
  <2> SUFFICES ASSUME First(q[1]), b PROVE FALSE
    OBVIOUS
  <2>1. 1 \in 1 .. Len(q) /\ 0 \in 0 .. Len(q) /\ 0 < 1 /\ 0 + 1 .. 1 - 1 = {}
    BY <1>1
  <2>2. Greets(b, q, 0)
    BY DEF Greets
  <2> QED
    BY <2>1, <2>2 DEF Apart, Leaves
<1>9. Apart(c, t) /\ (Faced(c, t) => Faced(b, q))
  BY <1>6, <1>7 DEF Apart, Faced, n
<1> QED
  BY <1>1, <1>8, <1>9 DEF t

-----------------------------------------------------------------------------
\* The invariant of a quiet tunnel: what brings the handshake on is under way.

\* The connector's newest socket is registered and no end of it is in sight.
BridgeFaces == connector.link = "open" /\ peers["bridge"] = Dialled /\ ~ Closing(up[Dialled])
\* It has yet to register.
Opening == \/ connector.link = "dialing"
           \/ connector.link = "open" /\ Register \in In(up[Dialled])
\* The connector has answered a greeting, in a handshake that goes on.
Committed == connector.handshake # 0 /\ connector.signed
\* A signature of the bridge for the session n.
SignedFor(m, n) == m.type = "relay/handshake" /\ m.sig # None /\ m.sig[1] = n
\* The phone is registered and in a handshake, and no end of its session is in sight.
PhoneWaits ==
  /\ phone.phase = "handshaking" /\ peers["phone"] = Session
  /\ NoEnds(down["phone"]) /\ ~ Closing(up[Session])

NotFirst      == {x \in Msg \X Msg : Frame(x[1]) => ~ First(x[2])}
NotRegistered == {x \in Msg \X Msg : x[2] # Registered}

Unread == \A s \in Socket : s \notin open => up[s] = <<>>
FirstIsFirst == \A s \in Socket : s[1] = "phone" => Chain(up[s], NotFirst)
RegisteredComes ==
  phone.phase = "registering" /\ peers["phone"] = Session /\ NoEnds(down["phone"])
    => Registered \in In(down["phone"])
GreetingIsOwed ==
  LET h == Handshake(phone.n, None)
  IN  PhoneWaits /\ ~ overQuota =>
        \/ h \in In(up[Session])
        \/ /\ peers["bridge"] # None
           /\ BridgeFaces /\ ~ carriedOver =>
                \/ h \in In(down["bridge"])
                \/ \E m \in In(up[Dialled]) \cup In(down["phone"]) : SignedFor(m, phone.n)
OneAtATime ==
  BridgeFaces /\ ~ carriedOver =>
    /\ Apart(Committed, down["bridge"])
    /\ Faced(Committed, down["bridge"]) =>
         /\ \A s \in Socket : s[1] = "phone" => \A m \in In(up[s]) : ~ First(m)
         /\ peers["phone"] # None
         /\ peers["phone"] = Session => phone.phase # "registering"
BeginsAfresh ==
  Opening => connector.state # "tunneled" /\ (carriedOver \/ connector.handshake = 0)
RegisteredFirst ==
  connector.link = "open" =>
    /\ Chain(down["bridge"], NotRegistered)
    /\ Registered \in In(down["bridge"]) => connector.state # "tunneled"
TunneledIsNew ==
  /\ connector.link = "open" /\ peers["bridge"] = Dialled
  /\ Live /\ NoEnds(down["phone"])
  /\ connector.channel # None /\ connector.channel[1] = phone.n
  => connector.state = "tunneled"

QuietInv ==
  /\ Unread /\ FirstIsFirst /\ RegisteredComes /\ GreetingIsOwed /\ OneAtATime
  /\ BeginsAfresh /\ RegisteredFirst /\ TunneledIsNew

\* What the inductive invariant of the tunnel says of these.
LEMMA FacingIs ==
  ASSUME RelayInv, BridgeFaces
  PROVE  /\ Dialled \in Socket /\ Dialled \in open /\ Hears(Dialled) /\ HearsClose(Dialled)
         /\ closed \notin In(down["bridge"]) /\ ~ Closing(down["bridge"])
         /\ down["bridge"] \in Seq(Msg)
<1>1. RelayTypeOK /\ Sockets /\ BridgeTold
  BY DEF RelayInv
<1>2. Dialled \in Socket /\ down["bridge"] \in Seq(Msg)
  BY <1>1, OwnIs, EndIs DEF BridgeFaces, RelayTypeOK
<1>3. Dialled # None
  BY <1>2, SocketIs
<1>4. Dialled \in open
  BY <1>1, <1>3, EndIs DEF Sockets, BridgeFaces
<1>5. Hears(Dialled) /\ HearsClose(Dialled)
  BY <1>1, OwnIs DEF Sockets, BridgeFaces
<1>6. closed \notin In(down["bridge"])
  BY <1>1, <1>4 DEF BridgeTold, BridgeFaces
<1> QED
  BY <1>2, <1>4, <1>5, <1>6, ClosingIs

LEMMA WaitingIs ==
  ASSUME RelayInv, PhoneWaits
  PROVE  /\ Session \in Socket /\ Session \in open /\ Hears(Session) /\ Live
         /\ ~ Closing(down["phone"]) /\ down["phone"] \in Seq(Msg)
         /\ phone.n \in 1 .. MaxSessions
<1>1. RelayTypeOK /\ Sockets
  BY DEF RelayInv
<1>2. Live /\ Hears(Session) /\ Session \in Socket
  BY <1>1, LiveIs DEF PhoneWaits, Live
<1>3. Session # None /\ Session[2] = phone.n /\ Session[1] = "phone"
  BY <1>2, SocketIs DEF Session
<1>4. phone.n \in 1 .. MaxSessions
  BY <1>2, <1>3, SocketIs
<1>5. Session \in open /\ down["phone"] \in Seq(Msg)
  BY <1>1, <1>3, EndIs DEF Sockets, PhoneWaits, RelayTypeOK
<1>6. Closing(down["phone"]) => closed \in In(down["phone"])
  BY <1>5, ClosingIs
<1>7. ~ Closing(down["phone"])
  BY <1>6, RelaySays DEF PhoneWaits, NoEnds
<1> QED
  BY <1>2, <1>4, <1>5, <1>7

\* What a socket of the phone has sent: only the registered one has, and no session before it is
\* registered.
LEMMA SentByPhone ==
  ASSUME RelayInv, NEW x \in Socket, x[1] = "phone", NEW m \in In(up[x]), Frame(m)
  PROVE  /\ peers["phone"] = x /\ Author(m) = x[2] /\ m \in PhoneSent /\ m \in Msg
         /\ x = Session => phone.phase \notin {"opening", "registering"}
<1>1. RelayTypeOK /\ Queues
  BY DEF RelayInv
<1>2. PICK s \in 0 .. MaxSessions : Agreed(connector, phone, PhoneSent, BridgeSent, s)
  BY DEF RelayInv
<1>3. peers["phone"] = x /\ Author(m) = x[2]
  BY <1>1 DEF Queues
<1>4. m \in PhoneSent /\ m \in Msg
  BY <1>1, OnTheirWay DEF Frames
<1>5. phone.phase \in {"opening", "registering"} => Author(m) # phone.n
  BY <1>2, <1>4 DEF Agreed, Answered
<1> QED
  BY <1>3, <1>4, <1>5 DEF Session

LEMMA FirstIs ==
  ASSUME NEW m, First(m)
  PROVE  Frame(m) /\ m # PeerOffline /\ m \notin {closed, Register, Registered, PeerOnline}
BY DEF First, Frame, PeerOffline, closed, Register, Registered, PeerOnline

LEMMA GreetingIsFirst ==
  ASSUME NEW n \in Nat
  PROVE  First(Handshake(n, None)) /\ Handshake(n, None) \in Msg /\ Frame(Handshake(n, None))
         /\ Author(Handshake(n, None)) = n
BY GreetingIs DEF First

\* One session at a time, while the connector and the phone do nothing.
LEMMA OneAtATimeMoves ==
  ASSUME RelayInv, OneAtATime,
         connector' = connector, phone' = phone, carriedOver' = carriedOver, BridgeFaces' => BridgeFaces,
         \A x \in Socket : x[1] = "phone" => \A g \in In(up'[x]) : First(g) => g \in In(up[x]),
         NEW m \in Msg,
         BridgeFaces' =>
           \/ /\ down'["bridge"] = down["bridge"] \/ down'["bridge"] = down["bridge"] \o <<m>>
              /\ ~ First(m)
              /\ peers["phone"] # None => peers'["phone"] = peers["phone"]
           \/ down'["bridge"] = down["bridge"] \o <<m>> /\ m = PeerOffline
           \/ /\ down'["bridge"] = down["bridge"] \o <<m>>
              /\ \E x \in Socket : /\ x[1] = "phone" /\ m \in In(up[x]) /\ Frame(m)
              /\ First(m) => \A x \in Socket : x[1] = "phone" => \A g \in In(up'[x]) : ~ First(g)
              /\ peers' = peers
  PROVE  OneAtATime'
<1> SUFFICES ASSUME BridgeFaces', ~ carriedOver'
             PROVE  /\ Apart(Committed, down["bridge"])'
                    /\ Faced(Committed, down["bridge"])' =>
                         /\ \A s \in Socket : s[1] = "phone" => \A g \in In(up'[s]) : ~ First(g)
                         /\ peers'["phone"] # None
                         /\ peers'["phone"] = Session' => phone'.phase # "registering"
  BY DEF OneAtATime
<1> DEFINE q == down["bridge"]
           r == down'["bridge"]
           b == Committed
<1>1. BridgeFaces /\ ~ carriedOver /\ b' = b /\ Session' = Session
  BY DEF Committed, Session
<1>2. q \in Seq(Msg)
  BY <1>1, FacingIs
<1>3. /\ Apart(b, q)
      /\ Faced(b, q) =>
           /\ \A s \in Socket : s[1] = "phone" => \A g \in In(up[s]) : ~ First(g)
           /\ peers["phone"] # None /\ (peers["phone"] = Session => phone.phase # "registering")
  BY <1>1 DEF OneAtATime
<1>4. \A s \in Socket : s[1] = "phone" =>
        ((\A g \in In(up[s]) : ~ First(g)) => \A g \in In(up'[s]) : ~ First(g))
  OBVIOUS
<1> SUFFICES /\ Apart(b, r)
             /\ Faced(b, r) =>
                  /\ \A s \in Socket : s[1] = "phone" => \A g \in In(up'[s]) : ~ First(g)
                  /\ peers'["phone"] # None
                  /\ peers'["phone"] = Session => phone.phase # "registering"
  BY <1>1
<1> HIDE DEF b
<1>5. CASE r = q /\ (peers["phone"] # None => peers'["phone"] = peers["phone"])
  BY <1>3, <1>4, <1>5
<1>6. CASE r = q \o <<m>> /\ ~ First(m) /\ (peers["phone"] # None => peers'["phone"] = peers["phone"])
  <2>1. Apart(b, r) /\ (Faced(b, r) => Faced(b, q))
    BY <1>2, <1>3, <1>6, ApartJoin
  <2> QED
    BY <1>3, <1>4, <1>6, <2>1
<1>7. CASE r = q \o <<m>> /\ m = PeerOffline
  <2>1. ~ First(m)
    BY <1>7, FirstIs
  <2>2. Apart(b, r) /\ ~ Faced(b, r)
    BY <1>2, <1>3, <1>7, <2>1, ApartJoin
  <2> QED
    BY <2>2
<1>8. CASE /\ r = q \o <<m>>
           /\ \E x \in Socket : x[1] = "phone" /\ m \in In(up[x]) /\ Frame(m)
           /\ First(m) => \A x \in Socket : x[1] = "phone" => \A g \in In(up'[x]) : ~ First(g)
           /\ peers' = peers
  <2>1. PICK x \in Socket : x[1] = "phone" /\ m \in In(up[x]) /\ Frame(m)
    BY <1>8
  <2>2. peers["phone"] = x /\ (x = Session => phone.phase \notin {"opening", "registering"}) /\ x # None
    BY <2>1, SentByPhone, SocketIs
  <2>3. First(m) => ~ Faced(b, q)
    BY <1>3, <2>1
  <2>4. Apart(b, r) /\ (Faced(b, r) => First(m) \/ (Faced(b, q) /\ m # PeerOffline))
    BY <1>2, <1>3, <1>8, <2>3, ApartJoin
  <2>5. Faced(b, r) => \A s \in Socket : s[1] = "phone" => \A g \in In(up'[s]) : ~ First(g)
    BY <1>3, <1>4, <1>8, <2>4
  <2> QED
    BY <1>8, <2>2, <2>4, <2>5
<1> QED
  BY <1>1, <1>5, <1>6, <1>7, <1>8

\* What the relay sends to the connector's newest socket, and to the phone's, while they face it.
LEMMA ReachesBridge ==
  ASSUME RelayInv, BridgeFaces, NEW s \in Socket, NEW ms \in Seq(Msg), NEW ns \in Seq(Msg),
         down' = Delivered(s, ms, ns)
  PROVE  /\ s = Dialled => down'["bridge"] = down["bridge"] \o ms
         /\ s[1] = "phone" => down'["bridge"] = down["bridge"] \o ns
         /\ s[1] = "bridge" /\ s # Dialled => down'["bridge"] = down["bridge"]
<1>1. RelayTypeOK /\ peers["bridge"] = Dialled /\ Own("bridge") = Dialled /\ "bridge" \in End
  BY OwnIs, EndIs DEF RelayInv, BridgeFaces
<1>2. Hears(Dialled) /\ ~ Closing(down["bridge"])
  BY FacingIs
<1>3. \A qs \in Seq(Msg) : Heard("bridge", qs) = down["bridge"] \o qs
  BY <1>1, <1>2, HeardIs
<1> QED
  BY <1>1, <1>3, ToPhone

LEMMA ReachesPhone ==
  ASSUME RelayInv, Hears(Session), NEW s \in Socket, NEW ms \in Seq(Msg), NEW ns \in Seq(Msg),
         down' = Delivered(s, ms, ns)
  PROVE  /\ s = Session => \/ closed \in In(down'["phone"])
                           \/ In(down'["phone"]) = In(down["phone"]) \cup In(ms)
         /\ s[1] = "bridge" /\ peers["phone"] = Session =>
              \/ closed \in In(down'["phone"])
              \/ In(down'["phone"]) = In(down["phone"]) \cup In(ns)
         /\ In(down["phone"]) \subseteq In(down'["phone"])
<1>1. RelayTypeOK /\ Own("phone") = Session /\ "phone" \in End /\ down["phone"] \in Seq(Msg)
  BY OwnIs, EndIs DEF RelayInv, RelayTypeOK
<1>2. ASSUME NEW qs \in Seq(Msg)
      PROVE  \/ closed \in In(Heard("phone", qs))
             \/ In(Heard("phone", qs)) = In(down["phone"]) \cup In(qs)
  <2>1. CASE Closing(down["phone"])
    <3>1. Heard("phone", qs) = down["phone"]
      BY <1>1, <2>1, HeardIs
    <3> QED
      BY <1>1, <2>1, <3>1, ClosingIs
  <2>2. CASE ~ Closing(down["phone"])
    <3>1. Heard("phone", qs) = down["phone"] \o qs
      BY <1>1, <2>2, HeardIs
    <3> QED
      BY <1>1, <3>1, JoinedIn
  <2> QED
    BY <2>1, <2>2
<1>3. In(down["phone"]) \subseteq In(down'["phone"])
  BY <1>1, InboxesAre
<1>4. /\ s = Session => down'["phone"] = Heard("phone", ms)
      /\ s[1] = "bridge" /\ peers["phone"] = Session => down'["phone"] = Heard("phone", ns)
  BY <1>1, ToPhone
<1> QED
  BY <1>2, <1>3, <1>4

LEMMA NoneRegistered ==
  ASSUME NEW q \in Seq(Msg), NEW r \in Seq(Msg), Registered \notin In(r), RelayTypeOK
  PROVE  /\ Chain(r, NotRegistered)
         /\ \A x \in In(q), y \in In(r) : <<x, y>> \in NotRegistered
         /\ q = down["bridge"] /\ Chain(q, NotRegistered) => Chain(Heard("bridge", r), NotRegistered)
<1>1. \A i \in 1 .. Len(q) : q[i] \in Msg
  BY ElementOfSeq
<1>2. \A i \in 1 .. Len(r) : r[i] \in Msg /\ r[i] # Registered
  BY ElementOfSeq DEF In
<1>3. Chain(r, NotRegistered)
  BY <1>2 DEF Chain, NotRegistered
<1>4. \A x \in In(q), y \in In(r) : <<x, y>> \in NotRegistered
  BY <1>1, <1>2 DEF In, NotRegistered
<1> QED
  BY <1>3, <1>4, HeardChain, EndIs

\* A step of the relay that reads the head of a queue, or closes it.
LEMMA RelayTakesQuiet ==
  ASSUME RelayInv, QuietInv, NEW s \in open, up[s] # <<>>,
         connector' = connector, phone' = phone, carriedOver' = carriedOver,
         \/ up' = [up EXCEPT ![s] = Tail(up[s])] /\ open' = open
         \/ up' = [up EXCEPT ![s] = <<>>] /\ open' = open \ {s}
  PROVE  Unread' /\ FirstIsFirst' /\ BeginsAfresh'
<1>1. RelayTypeOK /\ s \in Socket /\ up \in [Socket -> Seq(Msg)]
  BY DEF RelayInv, RelayTypeOK
<1>2. Dialled' = Dialled /\ Session' = Session
  BY Standing
<1>3. Unread /\ FirstIsFirst /\ BeginsAfresh
  BY DEF QuietInv
<1>4. /\ \A x \in Socket : x # s => up'[x] = up[x]
      /\ up'[s] \in {Tail(up[s]), <<>>} /\ up[s] \in Seq(Msg)
      /\ s \notin open' => up'[s] = <<>>
  BY <1>1
<1>5. \A x \in Socket : In(up'[x]) \subseteq In(up[x]) /\ \A R : Chain(up[x], R) => Chain(up'[x], R)
  <2>1. \A R : Chain(<<>>, R)
    BY Emptied
  <2>2. up[s] \in Seq(Msg) /\ up[s] # <<>>
    BY <1>4
  <2>3. \A R : Chain(up[s], R) => Chain(Tail(up[s]), R)
    BY <2>2, Headed
  <2>4. In(<<>>) = {} /\ In(Tail(up[s])) \subseteq In(up[s])
    BY <2>2, Headed, Emptied
  <2> SUFFICES ASSUME NEW x \in Socket
               PROVE  In(up'[x]) \subseteq In(up[x]) /\ \A R : Chain(up[x], R) => Chain(up'[x], R)
    OBVIOUS
  <2>5. CASE x # s
    BY <1>4, <2>5
  <2>6. CASE x = s /\ up'[s] = <<>>
    BY <2>1, <2>4, <2>6
  <2>7. CASE x = s /\ up'[s] = Tail(up[s])
    BY <2>3, <2>4, <2>7
  <2> QED
    BY <1>4, <2>5, <2>6, <2>7
<1>6. Unread'
  <2> SUFFICES ASSUME NEW x \in Socket, x \notin open' PROVE up'[x] = <<>>
    BY DEF Unread
  <2>1. CASE x = s
    BY <1>4, <2>1
  <2>2. CASE x # s
    BY <1>3, <1>4, <2>2 DEF Unread
  <2> QED
    BY <2>1, <2>2
<1>7. FirstIsFirst'
  BY <1>3, <1>5 DEF FirstIsFirst
<1>8. BeginsAfresh'
  <2>1. Opening' => Opening
    <3> SUFFICES ASSUME connector.link = "open", Register \in In(up'[Dialled]) PROVE Opening
      BY <1>2 DEF Opening
    <3>1. Dialled \in Socket
      BY <1>1, OwnIs
    <3> QED
      BY <1>5, <3>1 DEF Opening
  <2> QED
    BY <1>3, <2>1 DEF BeginsAfresh
<1> QED
  BY <1>6, <1>7, <1>8

\* A step of the relay that registers nobody, but for what is owed.
LEMMA RelayMovesQuiet ==
  ASSUME RelayInv, QuietInv, NEW s \in open, up[s] # <<>>,
         connector' = connector, phone' = phone, carriedOver' = carriedOver,
         \/ up' = [up EXCEPT ![s] = Tail(up[s])] /\ open' = open
         \/ up' = [up EXCEPT ![s] = <<>>] /\ open' = open \ {s},
         NEW ms \in Seq(Msg), NEW ns \in Seq(Msg), down' = Delivered(s, ms, ns),
         Registered \notin In(ms), Registered \notin In(ns),
         \A e \in End : peers'[e] \in {peers[e], None},
         OneAtATime', GreetingIsOwed'
  PROVE  QuietInv'
<1>1. RelayTypeOK /\ s \in Socket /\ up \in [Socket -> Seq(Msg)]
  BY DEF RelayInv, RelayTypeOK
<1>2. /\ Dialled' = Dialled /\ Session' = Session /\ Live' = Live
      /\ "bridge" \in End /\ "phone" \in End
  BY Standing, EndIs
<1>3. /\ Unread /\ FirstIsFirst /\ RegisteredComes /\ BeginsAfresh /\ RegisteredFirst /\ TunneledIsNew
  BY DEF QuietInv
<1>4. Unread' /\ FirstIsFirst' /\ BeginsAfresh'
  BY RelayTakesQuiet
<1>8. In(down["phone"]) \subseteq In(down'["phone"]) /\ In(down'["bridge"]) \subseteq In(down["bridge"]) \cup In(ms) \cup In(ns)
  BY <1>1, InboxesAre
<1>9. RegisteredComes'
  <2> SUFFICES ASSUME phone.phase = "registering", peers'["phone"] = Session, NoEnds(down'["phone"])
               PROVE  Registered \in In(down'["phone"])
    BY <1>2 DEF RegisteredComes
  <2>1. peers["phone"] = Session
    BY <1>1, <1>2, SocketIs DEF Session, None
  <2>2. NoEnds(down["phone"])
    BY <1>8 DEF NoEnds
  <2> QED
    BY <1>3, <1>8, <2>1, <2>2 DEF RegisteredComes
<1>11. RegisteredFirst'
  <2> SUFFICES ASSUME connector.link = "open"
               PROVE  /\ Chain(down'["bridge"], NotRegistered)
                      /\ Registered \in In(down'["bridge"]) => connector.state # "tunneled"
    BY DEF RegisteredFirst
  <2>1. Chain(down["bridge"], NotRegistered) /\ down["bridge"] \in Seq(Msg)
    BY <1>1, <1>2, <1>3 DEF RegisteredFirst, RelayTypeOK
  <2>2. down'["bridge"] \in {down["bridge"], Heard("bridge", ms), Heard("bridge", ns)}
    <3>1. s[1] \in {"bridge", "phone"}
      BY <1>1, SocketIs, EndIs
    <3> QED
      BY <1>1, <3>1, ToPhone
  <2>3. Chain(Heard("bridge", ms), NotRegistered) /\ Chain(Heard("bridge", ns), NotRegistered)
    BY <1>1, <2>1, NoneRegistered
  <2> QED
    BY <1>3, <1>8, <2>1, <2>2, <2>3 DEF RegisteredFirst
<1>12. TunneledIsNew'
  <2> SUFFICES ASSUME connector.link = "open", peers'["bridge"] = Dialled, Live, NoEnds(down'["phone"]),
                      connector.channel # None, connector.channel[1] = phone.n
               PROVE  connector.state = "tunneled"
    BY <1>2 DEF TunneledIsNew
  <2>1. peers["bridge"] = Dialled
    BY <1>1, <1>2, SocketIs DEF Dialled, None
  <2>2. NoEnds(down["phone"])
    BY <1>8 DEF NoEnds
  <2> QED
    BY <1>3, <2>1, <2>2 DEF TunneledIsNew
<1> QED
  BY <1>4, <1>9, <1>11, <1>12 DEF QuietInv

\* What the relay still has to read of the two newest sockets, after it has read of s.
LEMMA LeftToRead ==
  ASSUME RelayInv, NEW s \in open, up[s] # <<>>, NEW q \in {Tail(up[s]), <<>>},
         up' = [up EXCEPT ![s] = q]
  PROVE  /\ s \in Socket /\ up[s] \in Seq(Msg) /\ Head(up[s]) \in Msg
         /\ \A x \in Socket : In(up'[x]) \subseteq In(up[x]) /\ (x # s => up'[x] = up[x])
         /\ q = Tail(up[s]) => In(up[s]) = {Head(up[s])} \cup In(up'[s])
         /\ Head(up[s]) # closed /\ q = Tail(up[s]) /\ Closing(up[s]) => Closing(up'[s])
         /\ FirstIsFirst /\ s[1] = "phone" /\ Frame(Head(up[s])) => \A m \in In(Tail(up[s])) : ~ First(m)
<1>1. s \in Socket /\ up \in [Socket -> Seq(Msg)]
  BY DEF RelayInv, RelayTypeOK
<1>2. up[s] \in Seq(Msg) /\ up'[s] = q /\ \A x \in Socket : x # s => up'[x] = up[x]
  BY <1>1
<1>3. /\ Head(up[s]) \in Msg /\ In(Tail(up[s])) \subseteq In(up[s])
      /\ In(up[s]) = {Head(up[s])} \cup In(Tail(up[s])) /\ Tail(up[s]) \in Seq(Msg)
  BY <1>2, Headed
<1>4. FirstIsFirst /\ s[1] = "phone" => \A m \in In(Tail(up[s])) : <<Head(up[s]), m>> \in NotFirst
  BY <1>1, <1>2, Headed DEF FirstIsFirst
<1>5. In(<<>>) = {}
  BY Emptied
<1>6. Head(up[s]) # closed /\ q = Tail(up[s]) /\ Closing(up[s]) => Closing(up'[s])
  BY <1>2, ClosingTail
<1>7. \A x \in Socket : In(up'[x]) \subseteq In(up[x])
  BY <1>2, <1>3, <1>5
<1> QED
  BY <1>1, <1>2, <1>3, <1>4, <1>6, <1>7 DEF NotFirst

\* The greeting is still owed, or what it brought about still under way.
LEMMA OwedStill ==
  ASSUME RelayInv, GreetingIsOwed, Dialled' = Dialled, phone'.n = phone.n,
         carriedOver => carriedOver', overQuota => overQuota', PhoneWaits' => PhoneWaits,
         PhoneWaits' /\ ~ overQuota' =>
           /\ BridgeFaces' => BridgeFaces \/ peers["bridge"] = None
           /\ peers["bridge"] # None => peers'["bridge"] # None
           /\ LET h == Handshake(phone.n, None)
              IN  /\ h \in In(up[Session]) =>
                       \/ h \in In(up'[Session])
                       \/ peers'["bridge"] # None /\ (BridgeFaces' => h \in In(down'["bridge"]))
                  /\ BridgeFaces' /\ BridgeFaces /\ ~ carriedOver' =>
                       /\ h \in In(down["bridge"]) =>
                            \/ h \in In(down'["bridge"])
                            \/ \E m \in In(up'[Dialled]) \cup In(down'["phone"]) : SignedFor(m, phone.n)
                       /\ \A m \in In(up[Dialled]) \cup In(down["phone"]) :
                            SignedFor(m, phone.n) => m \in In(up'[Dialled]) \cup In(down'["phone"])
  PROVE  GreetingIsOwed'
<1> DEFINE h == Handshake(phone.n, None)
<1>1. Session' = Session /\ h' = h
  BY DEF Session
<1> HIDE DEF h
<1> SUFFICES ASSUME PhoneWaits', ~ overQuota'
             PROVE  \/ h \in In(up'[Session])
                    \/ /\ peers'["bridge"] # None
                       /\ BridgeFaces' /\ ~ carriedOver' =>
                            \/ h \in In(down'["bridge"])
                            \/ \E m \in In(up'[Dialled]) \cup In(down'["phone"]) : SignedFor(m, phone.n)
  BY <1>1 DEF GreetingIsOwed, h
<1>2. \/ h \in In(up[Session])
      \/ /\ peers["bridge"] # None
         /\ BridgeFaces /\ ~ carriedOver =>
              \/ h \in In(down["bridge"])
              \/ \E m \in In(up[Dialled]) \cup In(down["phone"]) : SignedFor(m, phone.n)
  BY DEF GreetingIsOwed, h
<1>3. CASE h \in In(up[Session])
  BY <1>3 DEF h
<1>4. CASE h \notin In(up[Session])
  <2>1. peers["bridge"] # None /\ peers'["bridge"] # None
    BY <1>2, <1>4
  <2>2. CASE ~ BridgeFaces' \/ carriedOver'
    BY <2>1, <2>2
  <2>3. CASE BridgeFaces' /\ ~ carriedOver'
    <3>1. BridgeFaces /\ ~ carriedOver
      BY <2>1, <2>3
    <3>2. CASE h \in In(down["bridge"])
      BY <2>1, <2>3, <3>1, <3>2 DEF h
    <3>3. CASE \E m \in In(up[Dialled]) \cup In(down["phone"]) : SignedFor(m, phone.n)
      <4>1. PICK m \in In(up[Dialled]) \cup In(down["phone"]) : SignedFor(m, phone.n)
        BY <3>3
      <4>2. m \in In(up'[Dialled]) \cup In(down'["phone"])
        BY <2>3, <3>1, <4>1
      <4> QED
        BY <2>1, <4>1, <4>2
    <3> QED
      BY <1>2, <1>4, <3>1, <3>2, <3>3
  <2> QED
    BY <2>2, <2>3
<1> QED
  BY <1>3, <1>4

LEMMA RefusedQuiet ==
  ASSUME RelayInv, QuietInv, NEW s \in open, up[s] # <<>>, Head(up[s]) = Register, peers[s[1]] # None,
         open' = open \ {s}, up' = [up EXCEPT ![s] = <<>>],
         down' = Delivered(s, <<Error("routing-id-taken"), closed>>, <<>>), peers' = peers,
         connector' = connector, phone' = phone, carriedOver' = carriedOver, overQuota' = overQuota
  PROVE  QuietInv'
<1>1. /\ RelayTypeOK /\ Queues /\ Sockets /\ Dialled' = Dialled /\ Session' = Session
      /\ GreetingIsOwed /\ OneAtATime
  BY Standing DEF RelayInv, QuietInv
<1>2. /\ s \in Socket /\ peers[s[1]] # s
      /\ \A x \in Socket : In(up'[x]) \subseteq In(up[x]) /\ (x # s => up'[x] = up[x])
  BY <1>1, HeadIs, LeftToRead
<1>3. /\ closed \in Msg /\ Error("routing-id-taken") \in Msg /\ <<>> \in Seq(Msg) /\ In(<<>>) = {}
      /\ Registered \notin {closed, Error("routing-id-taken")}
  BY RelaySays, NoticesDiffer, Emptied
<1>4. /\ <<Error("routing-id-taken"), closed>> \in Seq(Msg)
      /\ In(<<Error("routing-id-taken"), closed>>) = {Error("routing-id-taken"), closed}
  BY <1>3, Two
<1>5. BridgeFaces' => BridgeFaces /\ s # Dialled
  <2> SUFFICES ASSUME connector.link = "open", peers["bridge"] = Dialled, ~ Closing(up'[Dialled])
               PROVE  ~ Closing(up[Dialled]) /\ s # Dialled
    BY <1>1 DEF BridgeFaces
  <2>1. Dialled \in Socket /\ Dialled[1] = "bridge"
    BY <1>1, OwnIs
  <2>2. s # Dialled
    BY <1>2, <2>1
  <2> QED
    BY <1>2, <2>1, <2>2
<1>6. BridgeFaces => down'["bridge"] = down["bridge"] /\ s # Dialled
  <2> SUFFICES ASSUME BridgeFaces PROVE down'["bridge"] = down["bridge"] /\ s # Dialled
    OBVIOUS
  <2>1. s # Dialled /\ down["bridge"] \in Seq(Msg) /\ Dialled[1] = "bridge"
    BY <1>1, <1>2, FacingIs, OwnIs DEF BridgeFaces
  <2>2. down["bridge"] \o <<>> = down["bridge"]
    BY <2>1, ConcatEmptySeq
  <2>3. s[1] \in {"bridge", "phone"}
    BY <1>2, SocketIs, EndIs
  <2> QED
    BY <1>2, <1>3, <1>4, <2>1, <2>2, <2>3, ReachesBridge
<1>7. OneAtATime'
  <2>1. ~ First(closed)
    BY FirstIs
  <2> QED
    BY <1>1, <1>2, <1>3, <1>5, <1>6, <2>1, OneAtATimeMoves
<1>8. In(down["phone"]) \subseteq In(down'["phone"])
  BY <1>1, <1>2, <1>3, <1>4, InboxesAre
<1>9. GreetingIsOwed'
  <2>1. PhoneWaits' => PhoneWaits /\ up'[Session] = up[Session]
    <3> SUFFICES ASSUME phone.phase = "handshaking", peers["phone"] = Session,
                        NoEnds(down'["phone"]), ~ Closing(up'[Session])
                 PROVE  NoEnds(down["phone"]) /\ up'[Session] = up[Session]
      BY <1>1 DEF PhoneWaits
    <3>1. Session \in Socket /\ Session[1] = "phone"
      BY <1>1, OwnIs
    <3>2. Session # s
      BY <1>2, <3>1
    <3> QED
      BY <1>2, <1>8, <3>1, <3>2 DEF NoEnds
  <2>2. BridgeFaces => In(down["bridge"]) \subseteq In(down'["bridge"]) /\ up'[Dialled] = up[Dialled]
    BY <1>2, <1>6, FacingIs
  <2> QED
    BY <1>1, <1>5, <1>8, <2>1, <2>2, OwedStill
<1> QED
  BY <1>2, <1>3, <1>4, <1>7, <1>9, RelayMovesQuiet

\* The relay reads a frame: it says why it drops it, ..
LEMMA RejectedQuiet ==
  ASSUME RelayInv, QuietInv, NEW s \in open, up[s] # <<>>, Frame(Head(up[s])),
         NEW code \in {"quota-exceeded", "peer-offline"},
         up' = [up EXCEPT ![s] = Tail(up[s])], down' = Delivered(s, <<Error(code)>>, <<>>),
         peers' = peers, open' = open, connector' = connector, phone' = phone,
         carriedOver' = carriedOver, overQuota => overQuota',
         s[1] = "bridge" => overQuota' \/ peers["phone"] = None
  PROVE  QuietInv'
<1> DEFINE e == Error(code)
           h == Handshake(phone.n, None)
<1>1. /\ RelayTypeOK /\ Queues /\ Sockets /\ Dialled' = Dialled /\ Session' = Session
      /\ GreetingIsOwed /\ OneAtATime
  BY Standing DEF RelayInv, QuietInv
<1>2. /\ s \in Socket /\ up[s] \in Seq(Msg) /\ Head(up[s]) \in Msg
      /\ \A x \in Socket : In(up'[x]) \subseteq In(up[x]) /\ (x # s => up'[x] = up[x])
      /\ In(up[s]) = {Head(up[s])} \cup In(up'[s])
      /\ Closing(up[s]) => Closing(up'[s])
  <2>1. Head(up[s]) # closed
    BY RelaySays
  <2> QED
    BY <1>1, <2>1, LeftToRead
<1>3. e \in Msg /\ <<>> \in Seq(Msg) /\ In(<<>>) = {} /\ Ends(e) /\ ~ First(e) /\ Registered # e
  <2>1. e \in Msg /\ ~ Frame(e) /\ Ends(e) /\ Registered # e
    BY RelaySays, NoticesDiffer
  <2> QED
    BY <2>1, FirstIs, Emptied
<1> HIDE DEF e
<1>4. <<e>> \in Seq(Msg) /\ In(<<e>>) = {e}
  BY <1>3, Single
<1>5. down' = Delivered(s, <<e>>, <<>>)
  BY DEF e
<1>6. BridgeFaces' => BridgeFaces
  <2> SUFFICES ASSUME connector.link = "open", peers["bridge"] = Dialled, ~ Closing(up'[Dialled])
               PROVE  ~ Closing(up[Dialled])
    BY <1>1 DEF BridgeFaces
  <2>1. Dialled \in Socket
    BY <1>1, OwnIs
  <2> QED
    BY <1>2, <2>1
<1>7. BridgeFaces => /\ down'["bridge"] \in {down["bridge"], down["bridge"] \o <<e>>}
                     /\ In(down["bridge"]) \subseteq In(down'["bridge"])
  <2> SUFFICES ASSUME BridgeFaces PROVE /\ down'["bridge"] \in {down["bridge"], down["bridge"] \o <<e>>}
                                        /\ In(down["bridge"]) \subseteq In(down'["bridge"])
    OBVIOUS
  <2>1. down["bridge"] \in Seq(Msg)
    BY FacingIs
  <2>2. down["bridge"] \o <<>> = down["bridge"]
    BY <2>1, ConcatEmptySeq
  <2>3. s[1] \in {"bridge", "phone"}
    BY <1>2, SocketIs, EndIs
  <2>4. down'["bridge"] \in {down["bridge"], down["bridge"] \o <<e>>}
    BY <1>2, <1>3, <1>4, <1>5, <2>1, <2>2, <2>3, ReachesBridge
  <2>5. In(down["bridge"]) \subseteq In(down'["bridge"])
    BY <1>1, <1>2, <1>3, <1>4, <1>5, InboxesAre
  <2> QED
    BY <2>4, <2>5
<1>8. OneAtATime'
  BY <1>1, <1>2, <1>3, <1>6, <1>7, OneAtATimeMoves
<1>9. In(down["phone"]) \subseteq In(down'["phone"])
  BY <1>1, <1>2, <1>3, <1>4, <1>5, InboxesAre
<1>10. ASSUME PhoneWaits' PROVE PhoneWaits /\ s # Session
  <2>1. /\ phone.phase = "handshaking" /\ peers["phone"] = Session
        /\ NoEnds(down'["phone"]) /\ ~ Closing(up'[Session])
    BY <1>1, <1>10 DEF PhoneWaits
  <2>2. Live /\ Hears(Session) /\ Session \in Socket
    BY <1>1, <2>1, LiveIs DEF Live
  <2>3. s # Session
    <3> SUFFICES ASSUME s = Session PROVE FALSE
      OBVIOUS
    <3>1. closed \in In(down'["phone"]) \/ In(down'["phone"]) = In(down["phone"]) \cup In(<<e>>)
      BY <1>2, <1>3, <1>4, <1>5, <2>2, ReachesPhone
    <3>2. closed \in In(down'["phone"]) \/ e \in In(down'["phone"])
      BY <1>4, <3>1
    <3> QED
      BY <1>3, <2>1, <3>2, RelaySays DEF NoEnds
  <2>4. NoEnds(down["phone"])
    BY <1>9, <2>1 DEF NoEnds
  <2> QED
    BY <1>2, <2>1, <2>2, <2>3, <2>4 DEF PhoneWaits
<1>11. ASSUME PhoneWaits', ~ overQuota' PROVE s[1] = "phone" /\ s # Session
  <2>1. PhoneWaits /\ s # Session
    BY <1>10, <1>11
  <2>2. peers["phone"] # None
    BY <2>1, WaitingIs, SocketIs DEF PhoneWaits
  <2>3. s[1] = "phone"
    BY <1>2, <1>11, <2>2, SocketIs, EndIs
  <2> QED
    BY <2>1, <2>3
<1>12. GreetingIsOwed'
  <2>1. ASSUME PhoneWaits', ~ overQuota' PROVE up'[Session] = up[Session] /\ (BridgeFaces => up'[Dialled] = up[Dialled])
    <3>1. Session \in Socket
      BY <1>10, <2>1, WaitingIs
    <3>2. BridgeFaces => Dialled \in Socket /\ Dialled[1] # "phone"
      BY <1>1, FacingIs, OwnIs
    <3> QED
      BY <1>2, <1>11, <2>1, <3>1, <3>2
  <2> QED
    BY <1>1, <1>6, <1>7, <1>9, <1>10, <2>1, OwedStill
<1> QED
  BY <1>3, <1>4, <1>5, <1>8, <1>12, RelayMovesQuiet

\* .. or forwards it.
LEMMA ForwardedQuiet ==
  ASSUME RelayInv, QuietInv, NEW s \in open, up[s] # <<>>, Frame(Head(up[s])),
         peers[Other(s[1])] # None,
         up' = [up EXCEPT ![s] = Tail(up[s])], down' = Delivered(s, <<>>, <<Head(up[s])>>),
         peers' = peers, open' = open, connector' = connector, phone' = phone,
         carriedOver' = carriedOver, overQuota' = overQuota
  PROVE  QuietInv'
<1> DEFINE m == Head(up[s])
           h == Handshake(phone.n, None)
<1>1. /\ RelayTypeOK /\ Queues /\ Sockets /\ Dialled' = Dialled /\ Session' = Session
      /\ GreetingIsOwed /\ OneAtATime /\ FirstIsFirst
  BY Standing DEF RelayInv, QuietInv
<1>2. /\ s \in Socket /\ up[s] \in Seq(Msg) /\ m \in Msg
      /\ \A x \in Socket : In(up'[x]) \subseteq In(up[x]) /\ (x # s => up'[x] = up[x])
      /\ In(up[s]) = {m} \cup In(up'[s])
      /\ Closing(up[s]) => Closing(up'[s])
      /\ s[1] = "phone" => \A g \in In(Tail(up[s])) : ~ First(g)
  <2>1. Head(up[s]) # closed
    BY RelaySays
  <2> QED
    BY <1>1, <2>1, LeftToRead
<1>3. <<>> \in Seq(Msg) /\ In(<<>>) = {} /\ Registered # m /\ Frame(m) /\ up'[s] = Tail(up[s])
  BY <1>1, <1>2, RelaySays, Emptied DEF RelayTypeOK
<1> HIDE DEF m
<1>4. <<m>> \in Seq(Msg) /\ In(<<m>>) = {m}
  BY <1>2, Single
<1>5. down' = Delivered(s, <<>>, <<m>>)
  BY DEF m
<1>14. Hears(Session) /\ s[1] = "bridge" /\ peers["phone"] = Session =>
         closed \in In(down'["phone"]) \/ In(down'["phone"]) = In(down["phone"]) \cup In(<<m>>)
  <2> SUFFICES ASSUME Hears(Session), s[1] = "bridge", peers["phone"] = Session
               PROVE  closed \in In(down'["phone"]) \/ In(down'["phone"]) = In(down["phone"]) \cup In(<<m>>)
    OBVIOUS
  <2>1. RelayInv /\ Hears(Session) /\ s \in Socket /\ <<>> \in Seq(Msg) /\ <<m>> \in Seq(Msg)
    BY <1>2, <1>3, <1>4
  <2> QED
    BY ONLY <1>5, <2>1, ReachesPhone, s[1] = "bridge", peers["phone"] = Session
<1>6. BridgeFaces' => BridgeFaces
  <2> SUFFICES ASSUME connector.link = "open", peers["bridge"] = Dialled, ~ Closing(up'[Dialled])
               PROVE  ~ Closing(up[Dialled])
    BY <1>1 DEF BridgeFaces
  <2>1. Dialled \in Socket
    BY <1>1, OwnIs
  <2> QED
    BY <1>2, <2>1
<1>7. BridgeFaces => /\ s[1] = "phone" => down'["bridge"] = down["bridge"] \o <<m>>
                     /\ s[1] = "bridge" => down'["bridge"] = down["bridge"]
  <2> SUFFICES ASSUME BridgeFaces PROVE /\ s[1] = "phone" => down'["bridge"] = down["bridge"] \o <<m>>
                                        /\ s[1] = "bridge" => down'["bridge"] = down["bridge"]
    OBVIOUS
  <2>1. down["bridge"] \in Seq(Msg)
    BY FacingIs
  <2>2. down["bridge"] \o <<>> = down["bridge"]
    BY <2>1, ConcatEmptySeq
  <2> QED
    BY <1>2, <1>3, <1>4, <1>5, <2>1, <2>2, ReachesBridge
<1>8. s[1] = "phone" => peers["phone"] = s /\ m \in In(up[s])
                        /\ \A x \in Socket : x[1] = "phone" => \A g \in In(up'[x]) : ~ First(g)
  <2> SUFFICES ASSUME s[1] = "phone"
               PROVE  peers["phone"] = s /\ m \in In(up[s])
                      /\ \A x \in Socket : x[1] = "phone" => \A g \in In(up'[x]) : ~ First(g)
    OBVIOUS
  <2>1. m \in In(up[s]) /\ peers["phone"] = s
    BY <1>2, <1>3, SentByPhone
  <2>2. ASSUME NEW x \in Socket, x[1] = "phone", NEW g \in In(up'[x]), First(g) PROVE FALSE
    <3>1. x = s
      BY <1>2, <2>1, <2>2, SentByPhone, FirstIs
    <3> QED
      BY <1>2, <1>3, <2>2, <3>1
  <2> QED
    BY <2>1, <2>2
<1>9. s[1] \in {"bridge", "phone"}
  BY <1>2, SocketIs, EndIs
<1>10. OneAtATime'
  <2>1. CASE s[1] = "phone"
    BY <1>1, <1>2, <1>3, <1>6, <1>7, <1>8, <2>1, OneAtATimeMoves
  <2>2. CASE s[1] = "bridge"
    <3>1. closed \in Msg /\ ~ First(closed)
      BY RelaySays, FirstIs
    <3> QED
      BY <1>1, <1>2, <1>6, <1>7, <2>2, <3>1, OneAtATimeMoves
  <2> QED
    BY <1>9, <2>1, <2>2
<1>11. In(down["phone"]) \subseteq In(down'["phone"]) /\ In(down["bridge"]) \subseteq In(down'["bridge"])
  BY <1>1, <1>2, <1>3, <1>4, <1>5, InboxesAre
<1>12. ASSUME PhoneWaits' PROVE PhoneWaits
  <2>1. /\ phone.phase = "handshaking" /\ peers["phone"] = Session
        /\ NoEnds(down'["phone"]) /\ ~ Closing(up'[Session])
    BY <1>1, <1>12 DEF PhoneWaits
  <2>2. Session \in Socket
    BY <1>1, <2>1, LiveIs DEF Live
  <2>3. NoEnds(down["phone"])
    BY <1>11, <2>1 DEF NoEnds
  <2> QED
    BY <1>2, <2>1, <2>2, <2>3 DEF PhoneWaits
<1>13. GreetingIsOwed'
  <2>1. ASSUME PhoneWaits', h \in In(up[Session])
        PROVE  \/ h \in In(up'[Session])
               \/ peers'["bridge"] # None /\ (BridgeFaces' => h \in In(down'["bridge"]))
    <3>1. Session \in Socket /\ Session[1] = "phone"
      BY <1>1, <1>12, <2>1, WaitingIs, OwnIs
    <3>2. CASE s = Session
      <4>1. peers["bridge"] # None
        BY <3>1, <3>2, EndIs
      <4>2. h = m \/ h \in In(up'[Session])
        BY <1>2, <2>1, <3>2
      <4>3. BridgeFaces' => m \in In(down'["bridge"])
        <5> SUFFICES ASSUME BridgeFaces' PROVE m \in In(down["bridge"] \o <<m>>)
          BY <1>6, <1>7, <3>1, <3>2
        <5>1. down["bridge"] \in Seq(Msg)
          BY <1>6, FacingIs
        <5> QED
          BY <1>4, <5>1, JoinedIn
      <4> QED
        BY <4>1, <4>2, <4>3
    <3>3. CASE s # Session
      BY <1>2, <2>1, <3>1, <3>3
    <3> QED
      BY <3>2, <3>3
  <2>2. ASSUME PhoneWaits', BridgeFaces, NEW g \in In(up[Dialled]) \cup In(down["phone"])
        PROVE  g \in In(up'[Dialled]) \cup In(down'["phone"])
    <3>1. PhoneWaits /\ Hears(Session) /\ peers["phone"] = Session /\ NoEnds(down'["phone"])
      BY <1>1, <1>12, <2>2, WaitingIs DEF PhoneWaits
    <3>2. Dialled \in Socket /\ Dialled[1] = "bridge"
      BY <1>1, <2>2, FacingIs, OwnIs
    <3>3. CASE g \in In(down["phone"])
      BY <1>11, <3>3
    <3>4. CASE g \in In(up[Dialled]) /\ s # Dialled
      BY <1>2, <3>2, <3>4
    <3>5. CASE g \in In(up[Dialled]) /\ s = Dialled
      <4>1. g = m \/ g \in In(up'[Dialled])
        BY <1>2, <3>5
      <4>2. closed \in In(down'["phone"]) \/ In(down'["phone"]) = In(down["phone"]) \cup In(<<m>>)
        <5>1. s[1] = "bridge" /\ peers["phone"] = Session /\ Hears(Session)
          BY <3>1, <3>2, <3>5
        <5> QED
          BY <5>1, <1>14
      <4>3. closed \notin In(down'["phone"])
        BY <3>1, RelaySays DEF NoEnds
      <4> QED
        BY <1>4, <4>1, <4>2, <4>3
    <3> QED
      BY <2>2, <3>3, <3>4, <3>5
  <2> HIDE DEF h
  <2> QED
    BY <1>1, <1>6, <1>11, <1>12, <2>1, <2>2, OwedStill DEF h
<1> QED
  BY <1>3, <1>4, <1>5, <1>10, <1>13, RelayMovesQuiet

\* A socket closes, and its peer hears of it.
LEMMA ClosedQuiet ==
  ASSUME RelayInv, QuietInv, NEW s \in open, up[s] # <<>>, Head(up[s]) = closed,
         open' = open \ {s}, up' = [up EXCEPT ![s] = <<>>],
         peers' = IF peers[s[1]] = s THEN [peers EXCEPT ![s[1]] = None] ELSE peers,
         down' = Delivered(s, <<closed>>, IF peers[s[1]] = s THEN <<PeerOffline>> ELSE <<>>),
         connector' = connector, phone' = phone, carriedOver' = carriedOver, overQuota' = overQuota
  PROVE  QuietInv'
<1> DEFINE ns == IF peers[s[1]] = s THEN <<PeerOffline>> ELSE <<>>
<1>1. /\ RelayTypeOK /\ Dialled' = Dialled /\ Session' = Session
      /\ GreetingIsOwed /\ OneAtATime /\ peers \in [End -> Socket \cup {None}]
      /\ "bridge" \in End /\ "phone" \in End
  BY Standing, EndIs DEF RelayInv, QuietInv, RelayTypeOK
<1>2. /\ s \in Socket /\ s[1] \in {"bridge", "phone"} /\ s # None
      /\ \A x \in Socket : In(up'[x]) \subseteq In(up[x]) /\ (x # s => up'[x] = up[x])
  BY <1>1, LeftToRead, SocketIs, EndIs
<1>3. /\ <<closed>> \in Seq(Msg) /\ ns \in Seq(Msg) /\ Registered \notin In(<<closed>>)
      /\ Registered \notin In(ns) /\ PeerOffline \in Msg /\ ~ First(PeerOffline)
  <2>1. closed \in Msg /\ PeerOffline \in Msg /\ Registered \notin {closed, PeerOffline}
    BY RelaySays, NoticesDiffer
  <2>2. In(<<closed>>) = {closed} /\ In(<<PeerOffline>>) = {PeerOffline} /\ In(<<>>) = {}
    BY <2>1, Single, Emptied
  <2>3. <<closed>> \in Seq(Msg) /\ <<PeerOffline>> \in Seq(Msg) /\ <<>> \in Seq(Msg)
    BY <2>1, Single, Emptied
  <2> QED
    BY <2>1, <2>2, <2>3, FirstIs
<1>4. /\ peers[s[1]] = s => /\ peers'[s[1]] = None
                            /\ \A e \in End : e # s[1] => peers'[e] = peers[e]
      /\ peers[s[1]] # s => peers' = peers
      /\ \A e \in End : peers'[e] \in {peers[e], None}
  <2>1. s[1] \in End
    BY <1>2, EndIs
  <2>2. CASE peers[s[1]] = s
    BY <1>1, <2>1, <2>2
  <2>3. CASE peers[s[1]] # s
    BY <1>1, <2>1, <2>3
  <2> QED
    BY <2>2, <2>3
<1> HIDE DEF ns
<1>5. down' = Delivered(s, <<closed>>, ns)
  BY DEF ns
<1>12. Hears(Session) /\ s[1] = "bridge" /\ peers["phone"] = Session =>
         closed \in In(down'["phone"]) \/ In(down'["phone"]) = In(down["phone"]) \cup In(ns)
  <2> SUFFICES ASSUME Hears(Session), s[1] = "bridge", peers["phone"] = Session
               PROVE  closed \in In(down'["phone"]) \/ In(down'["phone"]) = In(down["phone"]) \cup In(ns)
    OBVIOUS
  <2>1. RelayInv /\ Hears(Session) /\ s \in Socket /\ <<closed>> \in Seq(Msg) /\ ns \in Seq(Msg)
    BY <1>2, <1>3
  <2> QED
    BY ONLY <1>5, <2>1, ReachesPhone, s[1] = "bridge", peers["phone"] = Session
<1>6. BridgeFaces' => BridgeFaces /\ s # Dialled
  <2> SUFFICES ASSUME connector.link = "open", peers'["bridge"] = Dialled, ~ Closing(up'[Dialled])
               PROVE  peers["bridge"] = Dialled /\ ~ Closing(up[Dialled]) /\ s # Dialled
    BY <1>1 DEF BridgeFaces
  <2>1. Dialled \in Socket /\ Dialled[1] = "bridge" /\ Dialled # None
    BY <1>1, OwnIs, SocketIs
  <2>2. s # Dialled
    BY <1>4, <2>1
  <2> QED
    BY <1>1, <1>2, <1>4, <2>1, <2>2
<1>7. BridgeFaces' => /\ s[1] = "phone" => down'["bridge"] = down["bridge"] \o ns
                      /\ s[1] = "bridge" => down'["bridge"] = down["bridge"]
  BY <1>2, <1>3, <1>5, <1>6, ReachesBridge
<1>8. OneAtATime'
  <2>1. BridgeFaces' /\ peers[s[1]] # s => down'["bridge"] = down["bridge"] /\ peers' = peers
    <3>1. BridgeFaces' => down["bridge"] \in Seq(Msg)
      BY <1>6, FacingIs
    <3>2. BridgeFaces' => down["bridge"] \o <<>> = down["bridge"]
      BY <3>1, ConcatEmptySeq
    <3> QED
      BY <1>2, <1>4, <1>7, <3>2 DEF ns
  <2>2. BridgeFaces' /\ peers[s[1]] = s /\ s[1] = "phone" => down'["bridge"] = down["bridge"] \o <<PeerOffline>>
    BY <1>7 DEF ns
  <2>3. BridgeFaces' /\ peers[s[1]] = s /\ s[1] = "bridge" =>
          down'["bridge"] = down["bridge"] /\ peers'["phone"] = peers["phone"]
    BY <1>1, <1>4, <1>7
  <2>4. closed \in Msg /\ ~ First(closed)
    BY RelaySays, FirstIs
  <2>5. CASE peers[s[1]] # s
    BY <1>1, <1>2, <1>6, <2>1, <2>4, <2>5, OneAtATimeMoves
  <2>6. CASE peers[s[1]] = s /\ s[1] = "phone"
    BY <1>1, <1>2, <1>3, <1>6, <2>2, <2>6, OneAtATimeMoves
  <2>7. CASE peers[s[1]] = s /\ s[1] = "bridge"
    BY <1>1, <1>2, <1>6, <2>3, <2>4, <2>7, OneAtATimeMoves
  <2> QED
    BY <1>2, <2>5, <2>6, <2>7
<1>9. In(down["phone"]) \subseteq In(down'["phone"]) /\ In(down["bridge"]) \subseteq In(down'["bridge"])
  BY <1>1, <1>2, <1>3, <1>5, InboxesAre
<1>10. ASSUME PhoneWaits' PROVE PhoneWaits /\ s # Session /\ (peers["bridge"] # None => peers'["bridge"] # None)
  <2>1. /\ phone.phase = "handshaking" /\ peers'["phone"] = Session
        /\ NoEnds(down'["phone"]) /\ ~ Closing(up'[Session])
    BY <1>1, <1>10 DEF PhoneWaits
  <2>2. Live /\ Hears(Session) /\ Session \in Socket /\ Session[1] = "phone" /\ Session # None
    BY <1>1, <2>1, LiveIs, OwnIs, SocketIs DEF Live
  <2>3. peers["phone"] = Session /\ s # Session
    BY <1>1, <1>4, <2>1, <2>2
  <2>4. NoEnds(down["phone"])
    BY <1>9, <2>1 DEF NoEnds
  <2>5. peers["bridge"] # None => peers'["bridge"] # None
    <3> SUFFICES ASSUME peers["bridge"] # None, peers'["bridge"] = None PROVE FALSE
      OBVIOUS
    <3>1. peers[s[1]] = s /\ s[1] = "bridge"
      BY <1>1, <1>4
    <3>2. \/ closed \in In(down'["phone"]) \/ In(down'["phone"]) = In(down["phone"]) \cup In(ns)
      BY <1>12, <2>2, <2>3, <3>1
    <3>3. In(ns) = {PeerOffline}
      BY <1>3, <3>1, Single DEF ns
    <3>4. closed \in In(down'["phone"]) \/ PeerOffline \in In(down'["phone"])
      BY <3>2, <3>3
    <3> QED
      BY <2>1, <3>4, RelaySays DEF NoEnds
  <2> QED
    BY <1>2, <2>1, <2>2, <2>3, <2>4, <2>5 DEF PhoneWaits
<1>11. GreetingIsOwed'
  <2>1. PhoneWaits' => up'[Session] = up[Session]
    BY <1>2, <1>10, WaitingIs
  <2>2. BridgeFaces' => up'[Dialled] = up[Dialled]
    BY <1>2, <1>6, FacingIs
  <2> QED
    BY <1>1, <1>6, <1>9, <1>10, <2>1, <2>2, OwedStill
<1> QED
  BY <1>3, <1>4, <1>5, <1>8, <1>11, RelayMovesQuiet

\* A connection dies.
LEMMA DiesQuiet ==
  ASSUME RelayInv, QuietInv, NEW s \in open, NEW i \in 0 .. Len(up[s]), NEW j \in 0 .. Len(down[s[1]]),
         up' = [up EXCEPT ![s] = SubSeq(up[s], 1, i) \o <<closed>>],
         down' = IF HearsClose(s)
                 THEN [down EXCEPT ![s[1]] = SubSeq(down[s[1]], 1, j) \o <<closed>>] ELSE down,
         peers' = peers, open' = open, connector' = connector, phone' = phone,
         carriedOver' = carriedOver, overQuota' = overQuota
  PROVE  QuietInv'
<1>1. /\ RelayTypeOK /\ Dialled' = Dialled /\ Session' = Session /\ Live' = Live
      /\ GreetingIsOwed /\ OneAtATime /\ Unread /\ FirstIsFirst /\ RegisteredComes /\ BeginsAfresh
      /\ RegisteredFirst /\ TunneledIsNew /\ up \in [Socket -> Seq(Msg)] /\ down \in [End -> Seq(Msg)]
      /\ open \subseteq Socket
  BY Standing DEF RelayInv, QuietInv, RelayTypeOK
<1>2. s \in Socket /\ s[1] \in End /\ up[s] \in Seq(Msg) /\ down[s[1]] \in Seq(Msg)
  BY <1>1, SocketIs
<1> DEFINE u == SubSeq(up[s], 1, i) \o <<closed>>
           d == SubSeq(down[s[1]], 1, j) \o <<closed>>
<1>3. /\ In(u) \subseteq In(up[s]) \cup {closed} /\ Closing(u)
      /\ \A R : Chain(up[s], R) /\ (\A x \in In(up[s]) : <<x, closed>> \in R) => Chain(u, R)
  BY <1>2, Severed
<1>4. /\ In(d) \subseteq In(down[s[1]]) \cup {closed} /\ closed \in In(d)
      /\ \A R : Chain(down[s[1]], R) /\ (\A x \in In(down[s[1]]) : <<x, closed>> \in R) => Chain(d, R)
  BY <1>2, Severed
<1>5. up'[s] = u /\ \A x \in Socket : x # s => up'[x] = up[x]
  BY <1>1, <1>2
<1>6. /\ HearsClose(s) => down'[s[1]] = d /\ \A e \in End : e # s[1] => down'[e] = down[e]
      /\ ~ HearsClose(s) => down' = down
      /\ HearsClose(s) => s \in {Dialled, Session}
  BY <1>1, <1>2 DEF HearsClose, Hears
<1> HIDE DEF u, d
<1>7. Dialled[1] = "bridge" /\ Session[1] = "phone" /\ "bridge" \in End /\ "phone" \in End
  BY <1>1, OwnIs, EndIs
<1>8. \A x \in Socket : \A g \in In(up'[x]) : g \in In(up[x]) \/ g = closed
  BY <1>3, <1>5
<1>9. ~ First(closed) /\ closed \in Msg /\ closed \notin {Register, Registered} /\ Ends(closed)
  BY RelaySays, FirstIs, NoticesDiffer
<1>10. /\ s = Session => closed \in In(down'["phone"]) \/ ~ Hears(Session)
       /\ s # Session => down'["phone"] = down["phone"]
       /\ s # Dialled => down'["bridge"] = down["bridge"]
       /\ s = Dialled => down'["bridge"] = down["bridge"] \/ (down'["bridge"] = d)
  BY <1>4, <1>6, <1>7 DEF HearsClose
<1>11. Unread'
  <2> SUFFICES ASSUME NEW x \in Socket, x \notin open PROVE up'[x] = <<>>
    BY DEF Unread
  <2> QED
    BY <1>1, <1>5 DEF Unread
<1>12. FirstIsFirst'
  <2> SUFFICES ASSUME NEW x \in Socket, x[1] = "phone" PROVE Chain(up'[x], NotFirst)
    BY DEF FirstIsFirst
  <2>1. Chain(up[x], NotFirst)
    BY <1>1 DEF FirstIsFirst
  <2>2. \A g \in In(up[s]) : <<g, closed>> \in NotFirst
    <3>1. \A k \in 1 .. Len(up[s]) : up[s][k] \in Msg
      BY <1>2, ElementOfSeq
    <3> QED
      BY <1>9, <3>1 DEF In, NotFirst
  <2> QED
    BY <1>3, <1>5, <2>1, <2>2
<1>13. RegisteredComes' /\ TunneledIsNew'
  <2>1. NoEnds(down'["phone"]) /\ Hears(Session) => down'["phone"] = down["phone"]
    BY <1>9, <1>10 DEF NoEnds
  <2>2. Live => Hears(Session)
    BY <1>1, LiveIs
  <2>3. phone.phase = "registering" => Live
    BY DEF Live
  <2> QED
    BY <1>1, <2>1, <2>2, <2>3 DEF RegisteredComes, TunneledIsNew
<1>14. BeginsAfresh'
  <2>1. Opening' => Opening
    <3> SUFFICES ASSUME connector.link = "open", Register \in In(up'[Dialled]) PROVE Opening
      BY <1>1 DEF Opening
    <3>1. Dialled \in Socket
      BY <1>1, OwnIs
    <3> QED
      BY <1>8, <1>9, <3>1 DEF Opening
  <2> QED
    BY <1>1, <2>1 DEF BeginsAfresh
<1>15. RegisteredFirst'
  <2> SUFFICES ASSUME connector.link = "open"
               PROVE  /\ Chain(down'["bridge"], NotRegistered)
                      /\ Registered \in In(down'["bridge"]) => connector.state # "tunneled"
    BY DEF RegisteredFirst
  <2>1. CASE down'["bridge"] = down["bridge"]
    BY <1>1, <2>1 DEF RegisteredFirst
  <2>2. CASE s = Dialled /\ down'["bridge"] = d
    <3>1. \A g \in In(down["bridge"]) : <<g, closed>> \in NotRegistered
      <4>1. \A k \in 1 .. Len(down["bridge"]) : down["bridge"][k] \in Msg
        BY <1>1, <1>7, ElementOfSeq
      <4> QED
        BY <1>9, <4>1 DEF In, NotRegistered
    <3>2. Chain(down["bridge"], NotRegistered) /\ s[1] = "bridge"
      BY <1>1, <1>7, <2>2 DEF RegisteredFirst
    <3>3. Registered \in In(d) => Registered \in In(down["bridge"])
      BY <1>4, <1>9, <3>2
    <3> QED
      BY <1>1, <1>4, <2>2, <3>1, <3>2, <3>3 DEF RegisteredFirst
  <2> QED
    BY <1>10, <2>1, <2>2
<1>16. BridgeFaces' => BridgeFaces /\ s # Dialled
  <2> SUFFICES ASSUME connector.link = "open", peers["bridge"] = Dialled, ~ Closing(up'[Dialled])
               PROVE  ~ Closing(up[Dialled]) /\ s # Dialled
    BY <1>1 DEF BridgeFaces
  <2>1. Dialled \in Socket
    BY <1>1, OwnIs
  <2> QED
    BY <1>3, <1>5, <2>1
<1>17. OneAtATime'
  BY <1>1, <1>8, <1>9, <1>10, <1>16, OneAtATimeMoves
<1>18. PhoneWaits' => PhoneWaits /\ s # Session
  <2> SUFFICES ASSUME phone.phase = "handshaking", peers["phone"] = Session,
                      NoEnds(down'["phone"]), ~ Closing(up'[Session])
               PROVE  NoEnds(down["phone"]) /\ ~ Closing(up[Session]) /\ s # Session
    BY <1>1 DEF PhoneWaits
  <2>1. Session \in Socket
    BY <1>1, LiveIs DEF Live
  <2>2. s # Session
    BY <1>3, <1>5
  <2> QED
    BY <1>5, <1>10, <2>1, <2>2
<1>19. GreetingIsOwed'
  <2>1. PhoneWaits' => up'[Session] = up[Session] /\ down'["phone"] = down["phone"]
    BY <1>5, <1>10, <1>18, WaitingIs
  <2>2. BridgeFaces' => up'[Dialled] = up[Dialled] /\ down'["bridge"] = down["bridge"]
    BY <1>5, <1>10, <1>16, FacingIs
  <2> QED
    BY <1>1, <1>16, <1>18, <2>1, <2>2, OwedStill
<1> QED
  BY <1>11, <1>12, <1>13, <1>14, <1>15, <1>17, <1>19 DEF QuietInv

\* A socket is registered.
LEMMA RegisteredQuiet ==
  ASSUME RelayInv, QuietInv, NEW s \in open, up[s] # <<>>, Head(up[s]) = Register, peers[s[1]] = None,
         peers' = [peers EXCEPT ![s[1]] = s], up' = [up EXCEPT ![s] = Tail(up[s])],
         down' = Delivered(s, IF peers[Other(s[1])] = None THEN <<Registered>>
                              ELSE <<Registered, PeerOnline>>, <<PeerOnline>>), open' = open,
         connector' = connector, phone' = phone, carriedOver' = carriedOver, overQuota' = overQuota
  PROVE  QuietInv'
<1> DEFINE ms == IF peers[Other(s[1])] = None THEN <<Registered>> ELSE <<Registered, PeerOnline>>
           ns == <<PeerOnline>>
<1>1. /\ RelayTypeOK /\ Sockets /\ Queues /\ BridgeTold /\ PhoneTold /\ Fresh
      /\ Dialled' = Dialled /\ Session' = Session /\ Live' = Live
      /\ GreetingIsOwed /\ OneAtATime /\ RegisteredComes /\ BeginsAfresh /\ RegisteredFirst /\ TunneledIsNew
      /\ peers \in [End -> Socket \cup {None}] /\ "bridge" \in End /\ "phone" \in End
      /\ down \in [End -> Seq(Msg)]
  BY Standing, EndIs DEF RelayInv, QuietInv, RelayTypeOK
<1>2. /\ s \in Socket /\ s[1] \in {"bridge", "phone"} /\ s # None /\ s[1] \in End
      /\ Register \in In(up[s]) /\ peers[s[1]] # s
      /\ \A x \in Socket : In(up'[x]) \subseteq In(up[x]) /\ (x # s => up'[x] = up[x])
  <2>1. s \in Socket
    BY <1>1 DEF RelayTypeOK
  <2>2. Register \in In(up[s])
    BY <1>1, <2>1, HeadIs
  <2> QED
    BY <1>1, <2>1, <2>2, LeftToRead, SocketIs, EndIs
<1>3. /\ Registered \in Msg /\ PeerOnline \in Msg /\ ~ First(Registered) /\ ~ First(PeerOnline)
      /\ ~ Ends(PeerOnline) /\ Registered # PeerOnline /\ ~ First(closed) /\ closed \in Msg
      /\ closed \notin {Registered, PeerOnline}
  BY RelaySays, NoticesDiffer, FirstIs
<1>4. /\ ms \in Seq(Msg) /\ Registered \in In(ms) /\ In(ms) \subseteq {Registered, PeerOnline}
      /\ ns \in Seq(Msg) /\ In(ns) = {PeerOnline} /\ Chain(ms, NotRegistered)
  <2>1. <<Registered, PeerOnline>> \in NotRegistered
    BY <1>3 DEF NotRegistered
  <2>2. /\ <<Registered>> \in Seq(Msg) /\ In(<<Registered>>) = {Registered}
        /\ Chain(<<Registered>>, NotRegistered)
    BY <1>3, Single
  <2>3. /\ <<Registered, PeerOnline>> \in Seq(Msg)
        /\ In(<<Registered, PeerOnline>>) = {Registered, PeerOnline}
        /\ Chain(<<Registered, PeerOnline>>, NotRegistered)
    BY <1>3, <2>1, Two
  <2>4. ns \in Seq(Msg) /\ In(ns) = {PeerOnline}
    BY <1>3, Single
  <2>5. ms \in {<<Registered>>, <<Registered, PeerOnline>>}
    OBVIOUS
  <2> QED
    BY <2>2, <2>3, <2>4, <2>5
<1> HIDE DEF ms, ns
<1>5. down' = Delivered(s, ms, ns)
  BY DEF ms, ns
<1>6. peers'[s[1]] = s /\ \A e \in End : e # s[1] => peers'[e] = peers[e]
  BY <1>1, <1>2
<1>7. Dialled[1] = "bridge" /\ Session[1] = "phone"
  BY <1>1, OwnIs
<1>8. Unread' /\ FirstIsFirst' /\ BeginsAfresh'
  BY RelayTakesQuiet
<1>9. /\ In(down["phone"]) \subseteq In(down'["phone"])
      /\ In(down'["bridge"]) \subseteq In(down["bridge"]) \cup In(ms) \cup In(ns)
  <2>1. RelayTypeOK /\ s \in Socket /\ ms \in Seq(Msg) /\ ns \in Seq(Msg)
    BY <1>1, <1>2, <1>4
  <2> QED
    BY ONLY <1>5, <2>1, InboxesAre
<1>10. RegisteredComes'
  <2> SUFFICES ASSUME phone.phase = "registering", peers'["phone"] = Session, NoEnds(down'["phone"])
               PROVE  Registered \in In(down'["phone"])
    BY <1>1 DEF RegisteredComes
  <2>1. CASE s = Session
    <3>1. Hears(Session) /\ RelayInv /\ s \in Socket /\ ms \in Seq(Msg) /\ ns \in Seq(Msg)
      BY <1>1, <1>2, <1>4, LiveIs DEF Live
    <3>2. closed \in In(down'["phone"]) \/ In(down'["phone"]) = In(down["phone"]) \cup In(ms)
      BY ONLY <1>5, <2>1, <3>1, ReachesPhone
    <3> QED
      BY <1>4, <3>2, RelaySays DEF NoEnds
  <2>2. CASE s # Session
    <3>1. peers["phone"] = Session
      BY <1>1, <1>2, <1>6, <2>2
    <3>2. NoEnds(down["phone"])
      BY <1>9 DEF NoEnds
    <3> QED
      BY <1>1, <1>9, <3>1, <3>2 DEF RegisteredComes
  <2> QED
    BY <2>1, <2>2
<1>11. GreetingIsOwed'
  <2>1. ASSUME PhoneWaits' PROVE PhoneWaits /\ s[1] = "bridge"
    <3>1. /\ phone.phase = "handshaking" /\ peers'["phone"] = Session
          /\ NoEnds(down'["phone"]) /\ ~ Closing(up'[Session])
      BY <1>1, <2>1 DEF PhoneWaits
    <3>2. Live /\ NoEnds(down["phone"]) /\ closed \notin In(down["phone"])
      BY <1>9, <3>1, RelaySays DEF Live, NoEnds
    <3>3. peers["phone"] = Session
      BY <1>1, <3>1, <3>2 DEF PhoneTold
    <3>4. s # Session /\ Session \in Socket
      BY <1>1, <1>2, <1>7, <3>2, <3>3, LiveIs
    <3>5. s[1] = "bridge"
      BY <1>2, <1>6, <3>1, <3>4
    <3> QED
      BY <1>2, <3>1, <3>2, <3>3, <3>4, <3>5 DEF PhoneWaits
  <2> SUFFICES ASSUME PhoneWaits', ~ overQuota PROVE Handshake(phone.n, None) \in In(up'[Session])
    BY <1>1 DEF GreetingIsOwed
  <2>2. PhoneWaits /\ peers["bridge"] = None /\ s[1] = "bridge"
    BY <2>1
  <2>3. Handshake(phone.n, None) \in In(up[Session])
    BY <1>1, <2>2 DEF GreetingIsOwed
  <2>4. s # Session /\ Session \in Socket
    BY <1>7, <2>2, WaitingIs
  <2> QED
    BY <1>2, <2>3, <2>4
\* The connector hears nothing before it is registered.
<1>12. ASSUME s = Dialled, connector.link = "open"
       PROVE  In(down["bridge"]) \subseteq {closed} /\ Opening
  <2>1. peers["bridge"] # Dialled
    BY <1>2, <1>7, <1>12
  <2> QED
    BY <1>1, <1>2, <1>12, <2>1 DEF BridgeTold, Opening
<1>13. OneAtATime'
  <2>1. CASE s = Dialled
    <3> SUFFICES ASSUME BridgeFaces', ~ carriedOver
                 PROVE  Apart(Committed, down["bridge"])' /\ ~ Faced(Committed, down["bridge"])'
      BY DEF OneAtATime
    <3>1. connector.link = "open"
      BY DEF BridgeFaces
    <3>2. Committed' = FALSE
      BY <1>1, <1>12, <2>1, <3>1 DEF BeginsAfresh, Committed
    <3>3. down'["bridge"] \in Seq(Msg) /\ \A g \in In(down'["bridge"]) : ~ First(g)
      <4>1. \A g \in In(down'["bridge"]) : g \in {closed, Registered, PeerOnline}
        BY <1>4, <1>9, <1>12, <2>1, <3>1
      <4>2. down'["bridge"] \in Seq(Msg)
        BY <1>1, <1>2, <1>4, <1>5, InboxesAre
      <4> QED
        BY <1>3, <4>1, <4>2
    <3>4. Apart(FALSE, down'["bridge"]) /\ ~ Faced(FALSE, down'["bridge"])
      BY <3>3, NobodyGreets
    <3> QED
      BY <3>2, <3>4
  <2>2. CASE s # Dialled
    <3>1. BridgeFaces' => BridgeFaces /\ s[1] = "phone"
      <4> SUFFICES ASSUME connector.link = "open", peers'["bridge"] = Dialled, ~ Closing(up'[Dialled])
                   PROVE  peers["bridge"] = Dialled /\ ~ Closing(up[Dialled]) /\ s[1] = "phone"
        BY <1>1 DEF BridgeFaces
      <4>1. Dialled \in Socket
        BY <1>1, OwnIs
      <4>2. s[1] = "phone"
        BY <1>2, <1>6, <2>2
      <4> QED
        BY <1>1, <1>2, <1>6, <2>2, <4>1, <4>2
    <3>2. BridgeFaces' => down'["bridge"] = down["bridge"] \o <<PeerOnline>>
      BY <1>2, <1>4, <1>5, <3>1, ReachesBridge DEF ns
    <3>3. BridgeFaces' => peers["phone"] = None
      BY <3>1
    <3> QED
      BY <1>1, <1>2, <1>3, <3>1, <3>2, <3>3, OneAtATimeMoves
  <2> QED
    BY <2>1, <2>2
<1>14. RegisteredFirst'
  <2> SUFFICES ASSUME connector.link = "open"
               PROVE  /\ Chain(down'["bridge"], NotRegistered)
                      /\ Registered \in In(down'["bridge"]) => connector.state # "tunneled"
    BY DEF RegisteredFirst
  <2>1. Chain(down["bridge"], NotRegistered) /\ down["bridge"] \in Seq(Msg)
    BY <1>1 DEF RegisteredFirst
  <2>2. CASE s = Dialled
    <3>1. down'["bridge"] = Heard("bridge", ms) /\ Own("bridge") = Dialled
      BY <1>1, <1>2, <1>4, <1>5, <2>2, ToPhone, OwnIs
    <3>2. Hears(Dialled)
      BY <1>1, OwnIs DEF Sockets
    <3>3. CASE Closing(down["bridge"])
      <4>1. down'["bridge"] = down["bridge"]
        BY <1>1, <1>4, <3>1, <3>3, HeardIs
      <4> QED
        BY <1>1, <2>1, <4>1 DEF RegisteredFirst
    <3>4. CASE ~ Closing(down["bridge"])
      <4>1. down["bridge"] = <<>>
        <5> SUFFICES ASSUME down["bridge"] # <<>> PROVE FALSE
          OBVIOUS
        <5>1. Len(down["bridge"]) \in Nat \ {0}
          BY <2>1, Headed
        <5>2. Len(down["bridge"]) \in 1 .. Len(down["bridge"]) /\ Len(down["bridge"]) > 0
          BY <5>1
        <5>3. down["bridge"][Len(down["bridge"])] = closed
          BY <1>12, <2>2, <5>2 DEF In
        <5> QED
          BY <2>1, <3>4, <5>2, <5>3, ClosingIs
      <4>2. down'["bridge"] = <<>> \o ms
        <5>1. RelayTypeOK /\ ms \in Seq(Msg) /\ "bridge" \in End
          BY <1>1, <1>4
        <5> QED
          BY ONLY <3>1, <3>2, <3>4, <4>1, <5>1, HeardIs
      <4>3. <<>> \o ms = ms
        BY <1>4, ConcatEmptySeq
      <4>4. connector.state # "tunneled"
        BY <1>1, <1>12, <2>2 DEF BeginsAfresh
      <4> QED
        BY <1>4, <4>2, <4>3, <4>4
    <3> QED
      BY <3>3, <3>4
  <2>3. CASE s # Dialled
    <3>1. down'["bridge"] \in {down["bridge"], Heard("bridge", ns)}
      <4>1. RelayTypeOK /\ s \in Socket /\ ms \in Seq(Msg) /\ ns \in Seq(Msg) /\ s[1] \in {"bridge", "phone"}
        BY <1>1, <1>2, <1>4
      <4> QED
        BY ONLY <1>5, <2>3, <4>1, ToPhone
    <3>2. Registered \notin In(ns)
      BY <1>3, <1>4
    <3>3. Chain(Heard("bridge", ns), NotRegistered) /\ In(Heard("bridge", ns)) \subseteq In(down["bridge"]) \cup In(ns)
      BY <1>1, <1>4, <2>1, <3>2, NoneRegistered, HeardIs
    <3> QED
      BY <1>1, <2>1, <3>1, <3>2, <3>3 DEF RegisteredFirst
  <2> QED
    BY <2>2, <2>3
<1>15. TunneledIsNew'
  <2> SUFFICES ASSUME connector.link = "open", peers'["bridge"] = Dialled, Live, NoEnds(down'["phone"]),
                      connector.channel # None, connector.channel[1] = phone.n
               PROVE  connector.state = "tunneled"
    BY <1>1 DEF TunneledIsNew
  <2>1. NoEnds(down["phone"]) /\ closed \notin In(down["phone"])
    BY <1>9, RelaySays DEF NoEnds
  <2>2. CASE s[1] = "phone"
    BY <1>1, <1>6, <2>1, <2>2 DEF TunneledIsNew
  <2>3. CASE s[1] = "bridge"
    <3>1. PICK k \in 0 .. MaxSessions : Agreed(connector, phone, PhoneSent, BridgeSent, k)
      BY DEF RelayInv
    <3>2. OneSignature(connector, phone, PhoneSent, BridgeSent) /\ Theirs(connector, phone)
      BY <3>1 DEF Agreed
    <3>3. connector.channel \in Given(connector, PhoneSent)
      BY DEF Given
    <3>4. phone.phase # "closed"
      BY DEF Live
    <3>5. phone.signed
      BY <3>2, <3>3, <3>4 DEF OneSignature
    <3>6. phone.peerEphemeral # 0 /\ phone.phase # "registering"
      BY <3>2, <3>5 DEF Theirs
    <3>7. peers["phone"] = Session
      BY <1>1, <2>1, <3>6 DEF PhoneTold
    <3>8. peers["bridge"] = None
      BY <2>3
    <3> QED
      BY <1>1, <2>1, <3>6, <3>7, <3>8 DEF Fresh
  <2> QED
    BY <1>2, <2>2, <2>3
<1> QED
  BY <1>8, <1>10, <1>11, <1>13, <1>14, <1>15 DEF QuietInv

LEMMA RelayReadsQuiet ==
  ASSUME RelayInv, QuietInv, NEW s \in Socket, RelayReads(s)
  PROVE  QuietInv'
<1> DEFINE m == Head(up[s])
<1>1. /\ s \in open /\ up[s] # <<>> /\ connector' = connector /\ phone' = phone
      /\ carriedOver' = carriedOver
  BY DEF RelayReads
<1>2. CASE m = Register /\ RelayRegisters(s) /\ UNCHANGED <<faults, overQuota>>
  <2>1. CASE peers[s[1]] # None
    <3>1. /\ open' = open \ {s} /\ up' = [up EXCEPT ![s] = <<>>]
          /\ down' = Delivered(s, <<Error("routing-id-taken"), closed>>, <<>>) /\ peers' = peers
      BY <1>2, <2>1 DEF RelayRegisters
    <3> QED
      BY <1>1, <1>2, <2>1, <3>1, RefusedQuiet
  <2>2. CASE peers[s[1]] = None
    <3>1. /\ peers' = [peers EXCEPT ![s[1]] = s] /\ up' = [up EXCEPT ![s] = Tail(up[s])]
          /\ down' = Delivered(s, IF peers[Other(s[1])] = None THEN <<Registered>>
                                  ELSE <<Registered, PeerOnline>>, <<PeerOnline>>)
          /\ open' = open
      BY <1>2, <2>2 DEF RelayRegisters
    <3> QED
      BY <1>1, <1>2, <2>2, <3>1, RegisteredQuiet
  <2> QED
    BY <2>1, <2>2
<1>3. CASE m = closed /\ RelayCloses(s) /\ UNCHANGED <<faults, overQuota>>
  <2>1. /\ open' = open \ {s} /\ up' = [up EXCEPT ![s] = <<>>]
        /\ peers' = IF peers[s[1]] = s THEN [peers EXCEPT ![s[1]] = None] ELSE peers
        /\ down' = Delivered(s, <<closed>>, IF peers[s[1]] = s THEN <<PeerOffline>> ELSE <<>>)
    BY <1>3 DEF RelayCloses
  <2> QED
    BY <1>1, <1>3, <2>1, ClosedQuiet
<1>4. ASSUME m.type \in {"relay/handshake", "relay/data"}, NEW exceeded \in BOOLEAN,
             RelayForwards(s, exceeded)
      PROVE  QuietInv'
  <2>1. /\ up' = [up EXCEPT ![s] = Tail(up[s])] /\ peers' = peers /\ open' = open /\ Frame(m)
        /\ overQuota' = (overQuota \/ (exceeded /\ s[1] = "bridge"))
    BY <1>1, <1>4 DEF RelayForwards, Frame
  <2>2. CASE exceeded
    <3>1. down' = Delivered(s, <<Error("quota-exceeded")>>, <<>>)
      BY <1>4, <2>2 DEF RelayForwards
    <3> QED
      BY <1>1, <2>1, <2>2, <3>1, RejectedQuiet
  <2>3. CASE ~ exceeded /\ peers[Other(s[1])] = None
    <3>1. down' = Delivered(s, <<Error("peer-offline")>>, <<>>)
      BY <1>4, <2>3 DEF RelayForwards
    <3>2. s[1] = "bridge" => peers["phone"] = None
      BY <2>3, EndIs
    <3> QED
      BY <1>1, <2>1, <3>1, <3>2, RejectedQuiet
  <2>4. CASE ~ exceeded /\ peers[Other(s[1])] # None
    <3>1. down' = Delivered(s, <<>>, <<Head(up[s])>>)
      BY <1>4, <2>4 DEF RelayForwards
    <3>2. overQuota' = overQuota
      BY <2>1, <2>4 DEF RelayInv, RelayTypeOK
    <3> QED
      BY <1>1, <2>1, <2>4, <3>1, <3>2, ForwardedQuiet
  <2> QED
    BY <1>4, <2>2, <2>3, <2>4
<1>5. \/ m = Register /\ RelayRegisters(s) /\ UNCHANGED <<faults, overQuota>>
      \/ m = closed /\ RelayCloses(s) /\ UNCHANGED <<faults, overQuota>>
      \/ /\ m.type \in {"relay/handshake", "relay/data"}
         /\ \E exceeded \in BOOLEAN : RelayForwards(s, exceeded)
  BY DEF RelayReads
<1> QED
  BY <1>2, <1>3, <1>4, <1>5

LEMMA ConnectionDiesQuiet ==
  ASSUME RelayInv, QuietInv, NEW s \in Socket, ConnectionDies(s)
  PROVE  QuietInv'
<1>1. /\ s \in open /\ connector' = connector /\ phone' = phone /\ peers' = peers /\ open' = open
      /\ overQuota' = overQuota /\ carriedOver' = carriedOver
  BY DEF ConnectionDies
<1>2. PICK i \in 0 .. Len(up[s]) : up' = [up EXCEPT ![s] = SubSeq(up[s], 1, i) \o <<closed>>]
  BY DEF ConnectionDies
<1>3. PICK j \in 0 .. Len(down[s[1]]) :
        down' = IF HearsClose(s)
                THEN [down EXCEPT ![s[1]] = SubSeq(down[s[1]], 1, j) \o <<closed>>] ELSE down
  <2>1. 0 \in 0 .. Len(down[s[1]])
    <3>1. s[1] \in End /\ down \in [End -> Seq(Msg)]
      BY SocketIs DEF RelayInv, RelayTypeOK
    <3>2. Len(down[s[1]]) \in Nat
      BY <3>1
    <3> QED
      BY <3>2
  <2>2. CASE HearsClose(s)
    BY <2>2 DEF ConnectionDies
  <2>3. CASE ~ HearsClose(s)
    <3>1. down' = down
      BY <2>3 DEF ConnectionDies
    <3> QED
      BY <2>1, <2>3, <3>1
  <2> QED
    BY <2>2, <2>3
<1> QED
  BY <1>1, <1>2, <1>3, DiesQuiet

-----------------------------------------------------------------------------
\* What the connector does leaves the phone's sockets alone; while it does not face the phone,
\* it owes it nothing.
LEMMA AfterConnectorQuiet ==
  ASSUME RelayInv, QuietInv, phone' = phone, peers' = peers, down'["phone"] = down["phone"],
         overQuota' = overQuota, \A x \in Socket : x[1] = "phone" => up'[x] = up[x]
  PROVE  /\ FirstIsFirst' /\ RegisteredComes'
         /\ ~ BridgeFaces' => GreetingIsOwed' /\ OneAtATime'
         /\ connector'.link # "open" => RegisteredFirst' /\ TunneledIsNew'
<1>1. /\ RelayTypeOK /\ FirstIsFirst /\ RegisteredComes /\ GreetingIsOwed
      /\ Session' = Session /\ Live' = Live
  BY DEF RelayInv, QuietInv, Session, Live
<1>2. FirstIsFirst' /\ RegisteredComes'
  BY <1>1 DEF FirstIsFirst, RegisteredComes
<1>3. ASSUME ~ BridgeFaces' PROVE GreetingIsOwed'
  <2> SUFFICES ASSUME PhoneWaits', ~ overQuota'
               PROVE  Handshake(phone.n, None) \in In(up'[Session]) \/ peers["bridge"] # None
    BY <1>1, <1>3 DEF GreetingIsOwed
  <2>1. Session \in Socket /\ Session[1] = "phone"
    <3>1. phone.phase = "handshaking"
      BY DEF PhoneWaits
    <3> QED
      BY <1>1, <3>1, LiveIs, OwnIs DEF Live
  <2>2. PhoneWaits /\ up'[Session] = up[Session]
    BY <1>1, <2>1 DEF PhoneWaits
  <2> QED
    BY <1>1, <2>2 DEF GreetingIsOwed
<1>4. ~ BridgeFaces' => OneAtATime'
  BY DEF OneAtATime
<1>5. connector'.link # "open" => RegisteredFirst' /\ TunneledIsNew'
  BY DEF RegisteredFirst, TunneledIsNew
<1> QED
  BY <1>2, <1>3, <1>4, <1>5

\* What the connector sends, if anything.
LEMMA ConnectorSendsQuiet ==
  ASSUME RelayInv, QuietInv, RelayTypeOK', phone' = phone, peers' = peers, open' = open,
         connector'.n = connector.n, NEW ms \in Seq(Msg), up' = Sent(Dialled, ms), Register \notin In(ms)
  PROVE  /\ Unread' /\ \A x \in Socket : x[1] = "phone" => up'[x] = up[x]
         /\ Dialled' = Dialled /\ Session' = Session /\ Live' = Live
         /\ Register \in In(up'[Dialled]) => Register \in In(up[Dialled]) \/ Dialled \notin Socket
         /\ Dialled \in Socket => In(up[Dialled]) \subseteq In(up'[Dialled])
         /\ Dialled \in Socket /\ ~ Closing(up'[Dialled]) => ~ Closing(up[Dialled])
         /\ Dialled \in open /\ ~ Closing(up[Dialled]) => In(ms) \subseteq In(up'[Dialled])
<1>1. RelayTypeOK /\ Dialled[1] = "bridge" /\ (Dialled \in open => Dialled \in Socket) /\ Unread
      /\ up \in [Socket -> Seq(Msg)]
  <2>1. RelayTypeOK /\ Unread
    BY DEF RelayInv, QuietInv
  <2> QED
    BY <2>1, OwnIs DEF RelayTypeOK
<1>2. /\ \A x \in Socket : x # Dialled => up'[x] = up[x]
      /\ Dialled \in open => up'[Dialled] = Push(up[Dialled], ms)
      /\ Dialled \notin open => up' = up
  BY <1>1, SentIs
<1>3. Dialled' = Dialled /\ Session' = Session /\ Live' = Live
  BY DEF Dialled, Session, Live
<1>4. Unread'
  BY <1>1, <1>2 DEF Unread
<1>5. Dialled \in Socket => up[Dialled] \in Seq(Msg)
  BY <1>1
<1>6. Dialled \in Socket =>
        /\ In(up[Dialled]) \subseteq In(up'[Dialled])
        /\ In(up'[Dialled]) \subseteq In(up[Dialled]) \cup In(ms)
        /\ Closing(up[Dialled]) => up'[Dialled] = up[Dialled]
        /\ Dialled \in open /\ ~ Closing(up[Dialled]) => In(ms) \subseteq In(up'[Dialled])
  <2> SUFFICES ASSUME Dialled \in Socket
               PROVE  /\ In(up[Dialled]) \subseteq In(up'[Dialled])
                      /\ In(up'[Dialled]) \subseteq In(up[Dialled]) \cup In(ms)
                      /\ Closing(up[Dialled]) => up'[Dialled] = up[Dialled]
                      /\ Dialled \in open /\ ~ Closing(up[Dialled]) => In(ms) \subseteq In(up'[Dialled])
    OBVIOUS
  <2>1. CASE Dialled \in open
    <3>1. up[Dialled] \in Seq(Msg) /\ up'[Dialled] = Push(up[Dialled], ms)
      BY <1>2, <1>5, <2>1
    <3>2. /\ In(up[Dialled]) \subseteq In(Push(up[Dialled], ms))
          /\ In(Push(up[Dialled], ms)) \subseteq In(up[Dialled]) \cup In(ms)
          /\ Closing(up[Dialled]) => Push(up[Dialled], ms) = up[Dialled]
          /\ ~ Closing(up[Dialled]) => In(Push(up[Dialled], ms)) = In(up[Dialled]) \cup In(ms)
      BY <3>1, PushIs
    <3> QED
      BY <3>1, <3>2
  <2>2. CASE Dialled \notin open
    BY <1>2, <2>2
  <2> QED
    BY <2>1, <2>2
<1> QED
  BY <1>1, <1>2, <1>3, <1>4, <1>6

\* The connector gives up its socket.
LEMMA DroppedQuiet ==
  ASSUME RelayInv, QuietInv, RelayTypeOK', phone' = phone, peers' = peers, open' = open,
         connector'.n = connector.n, connector'.link \in {"closing", "closed"},
         down'["phone"] = down["phone"], overQuota' = overQuota,
         NEW ms \in Seq(Msg), up' = Sent(Dialled, ms), Register \notin In(ms)
  PROVE  QuietInv'
<1>1. Unread' /\ \A x \in Socket : x[1] = "phone" => up'[x] = up[x]
  BY ConnectorSendsQuiet
<1>2. ~ BridgeFaces' /\ connector'.link # "open" /\ BeginsAfresh'
  BY DEF BridgeFaces, BeginsAfresh, Opening
<1> QED
  BY <1>1, <1>2, AfterConnectorQuiet DEF QuietInv

\* It works on, and may seal a record.
LEMMA SealedQuiet ==
  ASSUME RelayInv, QuietInv, RelayTypeOK', phone' = phone, peers' = peers, open' = open, down' = down,
         KeepsSocket(connector, connector'), SameCore(connector, connector'),
         connector'.signed = connector.signed, connector'.state = connector.state,
         overQuota' = overQuota, carriedOver' = carriedOver,
         NEW ms \in Seq(Msg), up' = Sent(Dialled, ms), Register \notin In(ms)
  PROVE  QuietInv'
<1>1. /\ connector'.n = connector.n /\ connector'.link = connector.link
      /\ connector'.channel = connector.channel /\ connector'.handshake = connector.handshake
  BY DEF KeepsSocket, SameCore
<1>2. /\ Unread' /\ \A x \in Socket : x[1] = "phone" => up'[x] = up[x]
      /\ Dialled' = Dialled /\ Session' = Session /\ Live' = Live
      /\ Register \in In(up'[Dialled]) => Register \in In(up[Dialled]) \/ Dialled \notin Socket
      /\ Dialled \in Socket => In(up[Dialled]) \subseteq In(up'[Dialled])
      /\ Dialled \in Socket /\ ~ Closing(up'[Dialled]) => ~ Closing(up[Dialled])
  BY <1>1, ConnectorSendsQuiet
<1>3. /\ RelayTypeOK /\ OneAtATime /\ GreetingIsOwed /\ BeginsAfresh /\ RegisteredFirst /\ TunneledIsNew
      /\ (connector.link = "open" => Dialled \in Socket)
  <2>1. RelayTypeOK
    BY DEF RelayInv
  <2> QED
    BY <2>1, OwnIs DEF QuietInv
<1>4. FirstIsFirst' /\ RegisteredComes'
  BY <1>2, AfterConnectorQuiet
<1>5. BridgeFaces' => BridgeFaces /\ Dialled \in Socket
  BY <1>1, <1>2, <1>3 DEF BridgeFaces
<1>6. OneAtATime'
  <2>1. Committed' = Committed
    BY <1>1 DEF Committed
  <2> QED
    BY <1>2, <1>3, <1>5, <2>1 DEF OneAtATime
<1>7. GreetingIsOwed'
  <2>1. PhoneWaits' => PhoneWaits /\ up'[Session] = up[Session]
    <3> SUFFICES ASSUME PhoneWaits' PROVE PhoneWaits /\ up'[Session] = up[Session]
      OBVIOUS
    <3>1. phone.phase = "handshaking"
      BY DEF PhoneWaits
    <3>2. Session \in Socket /\ Session[1] = "phone"
      BY <1>3, <3>1, LiveIs, OwnIs DEF Live
    <3> QED
      BY <1>2, <3>2 DEF PhoneWaits
  <2> QED
    BY <1>2, <1>3, <1>5, <2>1, OwedStill
<1>8. BeginsAfresh'
  <2>1. Opening' => Opening
    BY <1>1, <1>2, <1>3 DEF Opening
  <2> QED
    BY <1>1, <1>3, <2>1 DEF BeginsAfresh
<1>9. RegisteredFirst' /\ TunneledIsNew'
  BY <1>1, <1>2, <1>3 DEF RegisteredFirst, TunneledIsNew
<1> QED
  BY <1>2, <1>4, <1>6, <1>7, <1>8, <1>9 DEF QuietInv

\* What a step of the connector is, as far as the quiet tunnel goes: when it reads m and keeps
\* its socket, it is committed to whoever greets it, and answers.
Answers(c, m, r) ==
  /\ r.object.handshake # 0 /\ r.object.signed =>
       m # PeerOffline /\ ((c.handshake # 0 /\ c.signed) \/ First(m))
  /\ r.object.channel # None =>
       \/ r.object.state = "tunneled"
       \/ r.object.channel = c.channel /\ (r.object.state = c.state \/ m = Registered)
  /\ First(m) /\ ~ (c.handshake # 0 /\ c.signed) => \E g \in In(r.sent) : SignedFor(g, m.eph)
Sound(c, m, r) ==
  /\ r.sent \in Seq(Msg) /\ \A g \in In(r.sent) : Frame(g)
  /\ r.object.n = c.n
  /\ r.closes => r.object.link = (IF c.link = "open" THEN "closing" ELSE "closed")
  /\ ~ r.closes => r.object.link = c.link /\ Answers(c, m, r)

LEMMA FailSound ==
  ASSUME NEW c \in Connector, NEW m, NEW ms \in Seq(Msg), \A g \in In(ms) : Frame(g),
         NEW d \in Connector, d.n = c.n, d.link = c.link
  PROVE  Sound(c, m, Fail(d, ms))
BY FailIs DEF Sound

LEMMA StepSound ==
  ASSUME NEW c, NEW m, NEW d, NEW ms \in Seq(Msg), \A g \in In(ms) : Frame(g),
         d.n = c.n, d.link = c.link, Answers(c, m, Step(d, ms))
  PROVE  Sound(c, m, Step(d, ms))
BY DEF Sound, Step

LEMMA SealSound ==
  ASSUME NEW c \in Connector, NEW m \in Greeting
  PROVE  Sound(c, m, OnSealHandshake(c, m))
<1> DEFINE begun == BeginSeal(c)
           b == begun.object
           own == b.handshake
           signed == [b EXCEPT !.signed = TRUE]
           sent == begun.sent \o (IF b.signed THEN <<>> ELSE <<BridgeSigned(own, m.eph)>>)
           done == [signed EXCEPT !.channel = m.sig, !.handshake = 0, !.state = "tunneled"]
           r == OnSealHandshake(c, m)
           x == BridgeCompletes(own, m)
           g == BridgeSigned(own, m.eph)
<1>1. r = IF c.channel # None THEN Fail(c, <<>>)
          ELSE IF m.sig = None THEN Step(signed, sent)
          ELSE IF x THEN Step(done, sent)
          ELSE Fail(signed, sent)
  BY DEF OnSealHandshake
<1>2. m.eph \in Nat /\ m.sig \in Keys \cup {None} /\ m.type = "relay/handshake" /\ m # PeerOffline
      /\ c.ephemerals \in Nat /\ c.handshake \in Nat
  BY DEF Greeting, PeerOffline, Connector
<1>3. /\ b \in Connector /\ b.n = c.n /\ b.link = c.link /\ b.channel = c.channel
      /\ IF c.channel # None \/ c.handshake # 0 THEN b = c /\ begun.sent = <<>>
         ELSE ~ b.signed /\ begun.sent = <<Handshake(c.ephemerals + 1, None)>>
  BY BeginSealIs DEF KeepsSocket
<1>4. begun.sent \in Seq(Msg) /\ \A y \in In(begun.sent) : Frame(y)
  <2>1. <<>> \in Seq(Msg) /\ In(<<>>) = {}
    BY Emptied
  <2>2. Handshake(c.ephemerals + 1, None) \in Msg /\ Frame(Handshake(c.ephemerals + 1, None))
    BY <1>2, GreetingIs
  <2>3. /\ <<Handshake(c.ephemerals + 1, None)>> \in Seq(Msg)
        /\ In(<<Handshake(c.ephemerals + 1, None)>>) = {Handshake(c.ephemerals + 1, None)}
    BY <2>2, Single
  <2> QED
    BY <1>3, <2>1, <2>2, <2>3
<1>5. g \in Msg /\ Frame(g) /\ SignedFor(g, m.eph)
  <2>1. own \in Nat
    BY <1>3 DEF Connector
  <2>2. <<m.eph, own>> \in Keys /\ <<m.eph, own>> # None /\ <<m.eph, own>>[1] = m.eph
    BY <1>2, <2>1 DEF Keys, None
  <2>3. g = Handshake(own, <<m.eph, own>>)
    BY DEF BridgeSigned, Transcript
  <2>4. g \in Msg /\ Frame(g) /\ g.type = "relay/handshake" /\ g.sig = <<m.eph, own>>
    BY <2>1, <2>2, <2>3, GreetingIs
  <2> QED
    BY <2>2, <2>4 DEF SignedFor
<1> HIDE DEF g
<1>6. /\ sent \in Seq(Msg) /\ \A y \in In(sent) : Frame(y)
      /\ ~ b.signed => g \in In(sent)
  <2> DEFINE rest == IF b.signed THEN <<>> ELSE <<g>>
  <2>1. <<>> \in Seq(Msg) /\ In(<<>>) = {} /\ <<g>> \in Seq(Msg) /\ In(<<g>>) = {g}
    BY <1>5, Single, Emptied
  <2>2. rest \in Seq(Msg) /\ (\A y \in In(rest) : Frame(y)) /\ (~ b.signed => g \in In(rest))
    BY <1>5, <2>1
  <2>3. sent = begun.sent \o rest
    BY DEF g
  <2> HIDE DEF rest, sent, begun
  <2>4. sent \in Seq(Msg) /\ In(sent) = In(begun.sent) \cup In(rest)
    BY <1>4, <2>2, <2>3, JoinedIn
  <2> QED
    BY <1>4, <2>2, <2>4
<1>7. /\ signed \in Connector /\ signed.n = c.n /\ signed.link = c.link /\ signed.channel = c.channel
      /\ done.n = c.n /\ done.link = c.link /\ done.handshake = 0 /\ done.state = "tunneled"
  BY <1>3 DEF Connector
<1> HIDE DEF begun, b, sent, signed, done, x, r
<1>8. CASE c.channel # None
  <2>1. <<>> \in Seq(Msg) /\ In(<<>>) = {}
    BY Emptied
  <2> QED
    BY <1>1, <1>8, <2>1, FailSound DEF r
<1>9. CASE c.channel = None /\ m.sig = None
  <2>1. r = Step(signed, sent) /\ First(m)
    BY <1>1, <1>2, <1>9 DEF First
  <2>2. ~ (c.handshake # 0 /\ c.signed) => ~ b.signed
    BY <1>3, <1>9
  <2>3. Answers(c, m, Step(signed, sent))
    BY <1>2, <1>5, <1>6, <1>7, <1>9, <2>1, <2>2 DEF Answers, Step
  <2> QED
    BY <1>6, <1>7, <2>1, <2>3, StepSound DEF r
<1>10. CASE c.channel = None /\ m.sig # None /\ x
  <2>1. r = Step(done, sent) /\ ~ First(m)
    BY <1>1, <1>10 DEF First
  <2>2. Answers(c, m, Step(done, sent))
    BY <1>7, <2>1 DEF Answers, Step
  <2> QED
    BY <1>6, <1>7, <2>1, <2>2, StepSound DEF r
<1>11. CASE c.channel = None /\ m.sig # None /\ ~ x
  BY <1>1, <1>6, <1>7, <1>11, FailSound DEF r
<1> QED
  BY <1>8, <1>9, <1>10, <1>11

LEMMA OnControlSound ==
  ASSUME NEW c \in Connector, NEW m \in Msg, m # closed
  PROVE  Sound(c, m, OnControl(c, m))
<1> DEFINE r == OnControl(c, m)
<1>1. <<>> \in Seq(Msg) /\ In(<<>>) = {}
  BY Emptied
<1>2. CASE m = Registered
  <2> DEFINE d == [c EXCEPT !.state = "registered"]
  <2>1. r = Step(d, <<>>) /\ d.n = c.n /\ d.link = c.link /\ d.channel = c.channel
        /\ d.handshake = c.handshake /\ d.signed = c.signed
    BY <1>2, OnControlIs DEF Connector
  <2> HIDE DEF d, r
  <2>2. ~ First(m) /\ m # PeerOffline
    BY <1>2, FirstIs, NoticesDiffer
  <2>3. Answers(c, m, Step(d, <<>>))
    BY <1>2, <2>1, <2>2 DEF Answers, Step
  <2> QED
    BY <1>1, <2>1, <2>3, StepSound DEF r
<1>3. CASE m = PeerOnline
  <2> DEFINE b == BeginSeal(c)
             e == Handshake(c.ephemerals + 1, None)
  <2>1. /\ r = b /\ KeepsSocket(c, b.object) /\ ~ b.closes /\ b.object.channel = c.channel
        /\ IF c.channel # None \/ c.handshake # 0 THEN b.object = c /\ b.sent = <<>>
           ELSE ~ b.object.signed /\ b.sent = <<e>>
    BY <1>3, OnControlIs, BeginSealIs
  <2>2. e \in Msg /\ Frame(e)
    <3>1. c.ephemerals + 1 \in Nat
      BY DEF Connector
    <3> QED
      BY <3>1, GreetingIs
  <2>3. b.sent \in Seq(Msg) /\ \A g \in In(b.sent) : Frame(g)
    <3>1. <<e>> \in Seq(Msg) /\ In(<<e>>) = {e}
      BY <2>2, Single
    <3> QED
      BY <1>1, <2>1, <2>2, <3>1
  <2> HIDE DEF b, e, r
  <2>4. ~ First(m) /\ m # PeerOffline
    BY <1>3, FirstIs, NoticesDiffer
  <2>5. Answers(c, m, b)
    BY <2>1, <2>4 DEF Answers
  <2>6. Sound(c, m, b)
    BY <2>1, <2>3, <2>5 DEF Sound, KeepsSocket
  <2> QED
    BY <2>1, <2>6 DEF r
<1>4. CASE m = PeerOffline
  <2> DEFINE d == OnPeerOffline(c)
  <2>1. r = Step(d, <<>>) /\ KeepsSocket(c, d) /\ d.handshake = 0 /\ d.channel = None
    BY <1>4, OnControlIs, OnPeerOfflineIs
  <2> HIDE DEF d, r
  <2>2. ~ First(m)
    BY <1>4, FirstIs
  <2>3. Answers(c, m, Step(d, <<>>))
    BY <2>1, <2>2 DEF Answers, Step
  <2> QED
    BY <1>1, <2>1, <2>3, StepSound DEF r, KeepsSocket
<1>5. CASE m.type = "relay/handshake"
  <2>1. m \in Greeting /\ r = OnSealHandshake(c, m)
    BY <1>5, FrameIs, OnControlIs DEF Frame
  <2> QED
    BY <2>1, SealSound
<1>6. \A d : /\ d.n = c.n /\ d.link = c.link /\ d.handshake = c.handshake /\ d.signed = c.signed
             /\ d.channel = c.channel /\ d.state = c.state /\ ~ First(m) /\ m # PeerOffline
             => \A ms \in Seq(Msg) : (\A g \in In(ms) : Frame(g)) => Sound(c, m, Step(d, ms))
  <2> SUFFICES ASSUME NEW d, d.n = c.n, d.link = c.link, d.handshake = c.handshake,
                      d.signed = c.signed, d.channel = c.channel, d.state = c.state,
                      ~ First(m), m # PeerOffline, NEW ms \in Seq(Msg), \A g \in In(ms) : Frame(g)
               PROVE  Sound(c, m, Step(d, ms))
    OBVIOUS
  <2>1. Answers(c, m, Step(d, ms))
    BY DEF Answers, Step
  <2> QED
    BY <2>1, StepSound
<1>7. CASE m.type = "relay/data"
  <2>1. ~ First(m) /\ m # PeerOffline /\ Frame(m)
    BY <1>7 DEF First, PeerOffline, Frame
  <2>2. r \in {CloseStream(c), Step(c, <<>>), Fail(c, <<>>)}
    BY <1>7, OnControlIs
  <2>3. Sound(c, m, Step(c, <<>>)) /\ Sound(c, m, Fail(c, <<>>))
    BY <1>1, <1>6, <2>1, FailSound
  <2>4. Sound(c, m, CloseStream(c))
    <3> DEFINE u == Ungreeted(c)
               ms == CloseStream(c).sent
    <3>1. /\ u.n = c.n /\ u.link = c.link /\ u.handshake = c.handshake /\ u.signed = c.signed
          /\ u.channel = c.channel /\ u.state = c.state
      BY DEF Ungreeted, Connector
    <3>2. ms \in Seq(Msg) /\ \A g \in In(ms) : Frame(g)
      <4> DEFINE g == Data(c.channel, Tunnel("unsubscribed", 0, c.stream))
      <4>1. ms \in {<<>>, SendTunnel(c, Tunnel("unsubscribed", 0, c.stream))} /\ c.stream \in Nat
        BY CloseStreamIs
      <4>2. "unsubscribed" \in Kinds
        BY DEF Kinds
      <4> DEFINE sealed == SendTunnel(c, Tunnel("unsubscribed", 0, c.stream))
      <4>6. sealed = <<>> \/ (sealed = <<g>> /\ g \in Record)
        BY <4>1, <4>2, SendTunnelIs
      <4>3. ms = <<>> \/ (ms = <<g>> /\ g \in Record)
        BY <4>1, <4>6
      <4> HIDE DEF g
      <4>4. g \in Record => g \in Msg /\ Frame(g)
        BY DEF Record, Msg, Frame
      <4>5. g \in Record => <<g>> \in Seq(Msg) /\ In(<<g>>) = {g}
        BY <4>4, Single
      <4> QED
        BY <1>1, <4>3, <4>4, <4>5
    <3>3. CloseStream(c) = Step(u, ms)
      BY DEF CloseStream, Step
    <3> HIDE DEF u, ms
    <3>4. Sound(c, m, Step(u, ms))
      BY <1>6, <2>1, <3>1, <3>2
    <3> QED
      BY <3>3, <3>4
  <2> QED
    BY <2>2, <2>3, <2>4
<1>8. CASE ~ Frame(m) /\ m \notin {Registered, PeerOnline, PeerOffline}
  <2>1. r \in {Step(c, <<>>), Fail(c, <<>>)} /\ ~ First(m) /\ m # PeerOffline
    BY <1>8, OnControlIs, FirstIs
  <2>2. Sound(c, m, Step(c, <<>>)) /\ Sound(c, m, Fail(c, <<>>))
    BY <1>1, <1>6, <2>1, FailSound
  <2> QED
    BY <2>1, <2>2
<1> QED
  BY <1>2, <1>3, <1>4, <1>5, <1>7, <1>8 DEF Frame

\* The connector reads a message and keeps its socket.
LEMMA HeardQuiet ==
  ASSUME RelayInv, QuietInv, RelayTypeOK', phone' = phone, peers' = peers, open' = open,
         HearsClose(Dialled), down["bridge"] # <<>>, Head(down["bridge"]) # closed,
         NEW r, r = OnControl(connector, Head(down["bridge"])), ~ r.closes, connector' = r.object,
         up' = Sent(Dialled, r.sent), down' = [down EXCEPT !["bridge"] = Tail(down["bridge"])],
         overQuota' = overQuota, carriedOver' = carriedOver
  PROVE  QuietInv'
<1> DEFINE q == down["bridge"]
           m == Head(q)
           t == Tail(q)
           c == connector
           ms == r.sent
<1>1. /\ RelayTypeOK /\ Sockets /\ Queues /\ BridgeTold
      /\ OneAtATime /\ GreetingIsOwed /\ BeginsAfresh /\ RegisteredFirst /\ TunneledIsNew /\ Unread
      /\ c \in Connector /\ down \in [End -> Seq(Msg)] /\ "bridge" \in End /\ "phone" \in End
  BY EndIs DEF RelayInv, QuietInv, RelayTypeOK
<1>2. q \in Seq(Msg) /\ q # <<>> /\ down'["bridge"] = t /\ down'["phone"] = down["phone"]
  BY <1>1
<1>3. /\ m \in Msg /\ m \in In(q) /\ t \in Seq(Msg) /\ In(q) = {m} \cup In(t)
      /\ Chain(q, NotRegistered) => \A k \in In(t) : <<m, k>> \in NotRegistered
      /\ Chain(q, NotRegistered) => Chain(t, NotRegistered)
  BY <1>2, Headed
<1>4. m # closed
  OBVIOUS
<1>5. Sound(c, m, r)
  BY <1>1, <1>3, <1>4, OnControlSound
<1>6. /\ ms \in Seq(Msg) /\ (\A g \in In(ms) : Frame(g)) /\ connector'.n = c.n /\ connector'.link = c.link
      /\ Answers(c, m, r)
  BY <1>5 DEF Sound
<1> HIDE DEF m, t, q
<1>7. c.link = "open" /\ Dialled \in Socket
  <2>1. c.link \in {"open", "closing"} /\ Dialled \in Socket
    BY <1>1, OwnIs
  <2> QED
    BY <1>1, <1>3, <1>4, <2>1 DEF Sockets, q
<1>8. Register \notin In(ms)
  BY <1>6, RelaySays
<1>9. /\ Unread' /\ \A x \in Socket : x[1] = "phone" => up'[x] = up[x]
      /\ Dialled' = Dialled /\ Session' = Session /\ Live' = Live
      /\ Register \in In(up'[Dialled]) => Register \in In(up[Dialled])
      /\ In(up[Dialled]) \subseteq In(up'[Dialled])
      /\ ~ Closing(up'[Dialled]) => ~ Closing(up[Dialled])
      /\ Dialled \in open /\ ~ Closing(up[Dialled]) => In(ms) \subseteq In(up'[Dialled])
  BY <1>6, <1>7, <1>8, ConnectorSendsQuiet
<1>10. FirstIsFirst' /\ RegisteredComes'
  BY <1>2, <1>9, AfterConnectorQuiet
<1>11. BridgeFaces' => BridgeFaces /\ Dialled \in open
  <2>1. BridgeFaces' => BridgeFaces
    BY <1>6, <1>9 DEF BridgeFaces
  <2> QED
    BY <2>1, FacingIs
\* It reads nothing before it is registered.
<1>12. BeginsAfresh'
  <2>1. ~ Opening'
    <3> SUFFICES ASSUME Register \in In(up[Dialled]) PROVE FALSE
      BY <1>6, <1>7, <1>9 DEF Opening
    <3>1. peers["bridge"] # Dialled
      <4>1. Dialled[1] = "bridge"
        BY <1>1, OwnIs
      <4> QED
        BY <1>1, <1>7, <4>1 DEF Queues
    <3>2. Dialled \in open
      BY <1>1, <1>7, Emptied DEF Unread
    <3> QED
      BY <1>1, <1>3, <1>4, <1>7, <3>1, <3>2 DEF BridgeTold, q
  <2> QED
    BY <2>1 DEF BeginsAfresh
<1>13. RegisteredFirst'
  <2>1. Chain(q, NotRegistered)
    BY <1>1, <1>7 DEF RegisteredFirst, q
  <2>2. Registered \notin In(t)
    BY <1>3, <2>1 DEF NotRegistered
  <2> QED
    BY <1>2, <1>3, <2>1, <2>2 DEF RegisteredFirst
<1>14. TunneledIsNew'
  <2> SUFFICES ASSUME peers["bridge"] = Dialled, Live, NoEnds(down["phone"]),
                      connector'.channel # None, connector'.channel[1] = phone.n
               PROVE  connector'.state = "tunneled"
    BY <1>2, <1>9 DEF TunneledIsNew
  <2>1. \/ connector'.state = "tunneled"
        \/ connector'.channel = c.channel /\ (connector'.state = c.state \/ m = Registered)
    BY <1>6 DEF Answers
  <2>2. ASSUME connector'.channel = c.channel PROVE c.state = "tunneled"
    BY <1>1, <1>7, <2>2 DEF TunneledIsNew
  <2>3. m = Registered => c.state # "tunneled"
    BY <1>1, <1>3, <1>7 DEF RegisteredFirst, q
  <2> QED
    BY <2>1, <2>2, <2>3
<1>15. ASSUME BridgeFaces', ~ carriedOver'
       PROVE  /\ Apart(Committed', t) /\ (Faced(Committed', t) => Faced(Committed, q))
              /\ First(m) => ~ Committed
  <2>1. Apart(Committed, q)
    BY <1>1, <1>11, <1>15 DEF OneAtATime, q
  <2>2. Committed' => m # PeerOffline /\ (Committed \/ First(m))
    BY <1>6 DEF Answers, Committed
  <2> DEFINE b == Committed
             b2 == Committed'
  <2> HIDE DEF b, b2
  <2>3. Apart(b, q) /\ (b2 => m # PeerOffline /\ (b \/ First(m)))
    BY <2>1, <2>2 DEF b, b2
  <2>4. Apart(b2, t) /\ (Faced(b2, t) => Faced(b, q)) /\ (First(m) => ~ b)
    BY <1>2, <2>3, ApartTail DEF m, t
  <2> QED
    BY <2>4 DEF b, b2
<1>16. OneAtATime'
  <2> SUFFICES ASSUME BridgeFaces', ~ carriedOver'
               PROVE  /\ Apart(Committed', t)
                      /\ Faced(Committed', t) =>
                           /\ \A s \in Socket : s[1] = "phone" => \A g \in In(up[s]) : ~ First(g)
                           /\ peers["phone"] # None
                           /\ peers["phone"] = Session => phone.phase # "registering"
    BY <1>2, <1>9 DEF OneAtATime
  <2> QED
    BY <1>1, <1>11, <1>15 DEF OneAtATime, q
<1>17. GreetingIsOwed'
  <2>1. PhoneWaits' => PhoneWaits /\ up'[Session] = up[Session]
    <3> SUFFICES ASSUME PhoneWaits' PROVE PhoneWaits /\ up'[Session] = up[Session]
      OBVIOUS
    <3>1. phone.phase = "handshaking"
      BY DEF PhoneWaits
    <3>2. Session \in Socket /\ Session[1] = "phone"
      BY <1>1, <3>1, LiveIs, OwnIs DEF Live
    <3> QED
      BY <1>2, <1>9, <3>2 DEF PhoneWaits
  <2> DEFINE h == Handshake(phone.n, None)
  <2>2. ASSUME PhoneWaits', BridgeFaces', ~ carriedOver', h \in In(q)
        PROVE  h \in In(t) \/ \E g \in In(up'[Dialled]) : SignedFor(g, phone.n)
    <3> SUFFICES ASSUME h = m PROVE \E g \in In(up'[Dialled]) : SignedFor(g, phone.n)
      BY <1>3, <2>2
    <3>1. phone.n \in Nat
      <4>1. phone.n \in 1 .. MaxSessions
        BY <2>1, <2>2, WaitingIs
      <4> QED
        BY <4>1
    <3>2. First(m) /\ m.eph = phone.n
      BY <3>1, GreetingIsFirst DEF Author, Handshake
    <3>3. ~ (c.handshake # 0 /\ c.signed)
      BY <1>15, <2>2, <3>2 DEF Committed
    <3>4. \E g \in In(ms) : SignedFor(g, phone.n)
      BY <1>6, <3>2, <3>3 DEF Answers
    <3>5. In(ms) \subseteq In(up'[Dialled])
      BY <1>9, <1>11, <2>2 DEF BridgeFaces
    <3> QED
      BY <3>4, <3>5
  <2>3. PhoneWaits' /\ BridgeFaces' /\ ~ carriedOver' /\ h \in In(down["bridge"]) =>
          \/ h \in In(down'["bridge"])
          \/ \E g \in In(up'[Dialled]) \cup In(down'["phone"]) : SignedFor(g, phone.n)
    BY <1>2, <2>2 DEF q
  <2> HIDE DEF h
  <2> QED
    BY <1>1, <1>2, <1>9, <1>11, <2>1, <2>3, OwedStill DEF h
<1> QED
  BY <1>9, <1>10, <1>12, <1>13, <1>14, <1>16, <1>17 DEF QuietInv

\* What the connector does not send.
LEMMA SaysNothing ==
  ASSUME RelayTypeOK
  PROVE  /\ <<>> \in Seq(Msg) /\ Register \notin In(<<>>) /\ Sent(Dialled, <<>>) = up
         /\ <<closed>> \in Seq(Msg) /\ Register \notin In(<<closed>>)
<1>1. <<>> \in Seq(Msg) /\ In(<<>>) = {}
  BY Emptied
<1>2. closed \in Msg /\ closed # Register
  BY RelaySays, NoticesDiffer
<1>3. <<closed>> \in Seq(Msg) /\ In(<<closed>>) = {closed}
  BY <1>2, Single
<1>4. Dialled \in open => Dialled \in Socket
  BY DEF RelayTypeOK
<1>5. Sent(Dialled, <<>>) = up
  BY <1>1, <1>4, SentIs
<1> QED
  BY <1>1, <1>2, <1>3, <1>5

LEMMA ConnectorReadsQuiet ==
  ASSUME RelayInv, QuietInv, RelayTypeOK', ConnectorReads
  PROVE  QuietInv'
<1> DEFINE m == Head(down["bridge"])
           r == OnControl(connector, m)
           ms == r.sent \o (IF r.closes THEN <<closed>> ELSE <<>>)
<1>1. /\ HearsClose(Dialled) /\ down["bridge"] # <<>> /\ phone' = phone
      /\ peers' = peers /\ open' = open /\ overQuota' = overQuota /\ carriedOver' = carriedOver
  BY DEF ConnectorReads
<1>2. /\ RelayTypeOK /\ connector \in Connector /\ down \in [End -> Seq(Msg)] /\ "bridge" \in End
      /\ "phone" \in End /\ connector.link \in {"open", "closing"}
  <2>1. RelayTypeOK
    BY DEF RelayInv
  <2> QED
    BY <1>1, <2>1, EndIs, OwnIs DEF RelayTypeOK
<1>3. m \in Msg
  <2>1. down["bridge"] \in Seq(Msg)
    BY <1>2
  <2> QED
    BY <1>1, <2>1, Headed
<1>4. CASE m = closed
  <2>1. /\ connector' = [RedialLater(Torn(connector)) EXCEPT !.link = "closed"]
        /\ down' = [down EXCEPT !["bridge"] = <<>>] /\ up' = up
    BY <1>4 DEF ConnectorReads
  <2> DEFINE e == RedialLater(Torn(connector))
  <2>2. e \in Connector /\ e.n = connector.n /\ connector' = [e EXCEPT !.link = "closed"]
    BY <1>2, <2>1, TornIs
  <2> HIDE DEF e
  <2>3. connector'.n = connector.n /\ connector'.link = "closed"
    BY <2>2 DEF Connector
  <2>4. down'["phone"] = down["phone"]
    BY <1>2, <2>1
  <2>5. up' = Sent(Dialled, <<>>) /\ <<>> \in Seq(Msg) /\ Register \notin In(<<>>)
    BY <1>2, <2>1, SaysNothing
  <2> QED
    BY <1>1, <2>3, <2>4, <2>5, DroppedQuiet
<1>5. CASE m # closed
  <2>1. /\ connector' = r.object /\ up' = Sent(Dialled, ms)
        /\ down' = [down EXCEPT !["bridge"] = IF r.closes THEN Closes(Tail(down["bridge"]))
                                              ELSE Tail(down["bridge"])]
    BY <1>5 DEF ConnectorReads
  <2>2. Sound(connector, m, r)
    BY <1>2, <1>3, <1>5, OnControlSound
  <2>3. r.sent \in Seq(Msg) /\ (\A g \in In(r.sent) : Frame(g)) /\ r.object.n = connector.n
        /\ (r.closes => r.object.link \in {"closing", "closed"})
    BY <2>2 DEF Sound
  <2>4. CASE r.closes
    <3>1. ms \in Seq(Msg) /\ In(ms) \subseteq In(r.sent) \cup {closed}
      BY <2>3, WithItsClose
    <3>2. Register \notin In(ms)
      BY <2>3, <3>1, RelaySays, NoticesDiffer
    <3>3. down'["phone"] = down["phone"]
      BY <1>2, <2>1
    <3> HIDE DEF ms
    <3> QED
      BY <1>1, <2>1, <2>3, <2>4, <3>1, <3>2, <3>3, DroppedQuiet
  <2>5. CASE ~ r.closes
    <3>1. ms = r.sent
      <4>1. ms = r.sent \o <<>>
        BY <2>5
      <4> QED
        BY <2>3, <4>1, ConcatEmptySeq
    <3>2. up' = Sent(Dialled, r.sent) /\ down' = [down EXCEPT !["bridge"] = Tail(down["bridge"])]
      BY <2>1, <2>5, <3>1
    <3> QED
      BY <1>1, <1>5, <2>1, <2>5, <3>2, HeardQuiet
  <2> QED
    BY <2>4, <2>5
<1> QED
  BY <1>4, <1>5

LEMMA SealsRecords ==
  ASSUME RelayTypeOK, NEW k \in Kinds, NEW i \in Nat, NEW n \in Nat
  PROVE  LET ms == SendTunnel(connector, Tunnel(k, i, n)) IN ms \in Seq(Msg) /\ Register \notin In(ms)
<1> DEFINE g == Data(connector.channel, Tunnel(k, i, n))
           ms == SendTunnel(connector, Tunnel(k, i, n))
<1>1. ms = <<>> \/ (ms = <<g>> /\ g \in Record)
  BY SendTunnelIs DEF RelayTypeOK
<1> HIDE DEF g, ms
<1>2. g \in Record => g \in Msg /\ Frame(g)
  BY DEF Record, Msg, Frame
<1>3. g \in Record => <<g>> \in Seq(Msg) /\ In(<<g>>) = {g}
  BY <1>2, Single
<1>4. ms \in Seq(Msg) /\ Register \notin In(ms)
  <2>1. CASE ms = <<>>
    BY <2>1, Emptied
  <2>2. CASE ms = <<g>> /\ g \in Record
    BY <1>2, <1>3, <2>2, RelaySays
  <2> QED
    BY <1>1, <2>1, <2>2
<1> QED
  BY <1>4 DEF ms

LEMMA BackendAnswersQuiet ==
  ASSUME RelayInv, QuietInv, RelayTypeOK', NEW r \in backend, BackendAnswers(r)
  PROVE  QuietInv'
<1> DEFINE ms == SendTunnel(connector, Tunnel("response", r.id, r.of))
<1>1. /\ connector' = connector /\ phone' = phone /\ peers' = peers /\ open' = open /\ down' = down
      /\ overQuota' = overQuota /\ carriedOver' = carriedOver /\ up' = Sent(Dialled, ms)
  BY DEF BackendAnswers
<1>2. r.id \in Nat /\ r.of \in Nat /\ RelayTypeOK /\ "response" \in Kinds
  BY DEF RelayInv, RelayTypeOK, Work, Kinds
<1>3. ms \in Seq(Msg) /\ Register \notin In(ms)
  BY <1>2, SealsRecords
<1>4. KeepsSocket(connector, connector') /\ SameCore(connector, connector')
  BY <1>1 DEF KeepsSocket, SameCore
<1> HIDE DEF ms
<1> QED
  BY <1>1, <1>3, <1>4, SealedQuiet

\* What the connector knows of its streams is no matter of the tunnel.
LEMMA StreamsQuiet ==
  ASSUME RelayTypeOK, NEW n, NEW L, connector' = [connector EXCEPT !.stream = n, !.live = L]
  PROVE  /\ KeepsSocket(connector, connector') /\ SameCore(connector, connector')
         /\ connector'.signed = connector.signed /\ connector'.state = connector.state
BY DEF RelayTypeOK, Connector, KeepsSocket, SameCore

LEMMA SubscribeAnsweredQuiet ==
  ASSUME RelayInv, QuietInv, RelayTypeOK', NEW r \in backend, SubscribeAnswered(r)
  PROVE  QuietInv'
<1>1. /\ phone' = phone /\ peers' = peers /\ open' = open /\ down' = down
      /\ overQuota' = overQuota /\ carriedOver' = carriedOver
  BY DEF SubscribeAnswered
<1>2. r.id \in Nat /\ r.of \in Nat /\ RelayTypeOK /\ "subscribe-failed" \in Kinds
  BY DEF RelayInv, RelayTypeOK, Work, Kinds
<1>3. CASE /\ up' = Sent(Dialled, SendTunnel(connector, Tunnel("subscribe-failed", r.id, r.of)))
           /\ connector' = connector
  <2> DEFINE ms == SendTunnel(connector, Tunnel("subscribe-failed", r.id, r.of))
  <2>1. ms \in Seq(Msg) /\ Register \notin In(ms)
    BY <1>2, SealsRecords
  <2>2. KeepsSocket(connector, connector') /\ SameCore(connector, connector') /\ up' = Sent(Dialled, ms)
    BY <1>3 DEF KeepsSocket, SameCore
  <2> HIDE DEF ms
  <2> QED
    BY <1>1, <1>3, <2>1, <2>2, SealedQuiet
<1>4. CASE StreamOpens(r) /\ up' = up
  <2>1. /\ KeepsSocket(connector, connector') /\ SameCore(connector, connector')
        /\ connector'.signed = connector.signed /\ connector'.state = connector.state
    BY <1>2, <1>4, StreamsQuiet DEF StreamOpens
  <2>2. up' = Sent(Dialled, <<>>) /\ <<>> \in Seq(Msg) /\ Register \notin In(<<>>)
    BY <1>2, <1>4, SaysNothing
  <2> QED
    BY <1>1, <2>1, <2>2, SealedQuiet
<1> QED
  BY <1>3, <1>4 DEF SubscribeAnswered

LEMMA StreamGreetsQuiet ==
  ASSUME RelayInv, QuietInv, RelayTypeOK', NEW n \in connector.live, StreamGreets(n)
  PROVE  QuietInv'
<1> DEFINE ms == SendTunnel(connector, Tunnel("hello", 0, n))
<1>1. /\ connector' = connector /\ phone' = phone /\ peers' = peers /\ open' = open /\ down' = down
      /\ overQuota' = overQuota /\ carriedOver' = carriedOver /\ up' = Sent(Dialled, ms)
  BY DEF StreamGreets
<1>2. n \in Nat /\ RelayTypeOK /\ "hello" \in Kinds
  BY DEF RelayInv, RelayTypeOK, Connector, Kinds
<1>3. ms \in Seq(Msg) /\ Register \notin In(ms)
  BY <1>2, SealsRecords
<1>4. KeepsSocket(connector, connector') /\ SameCore(connector, connector')
  BY <1>1 DEF KeepsSocket, SameCore
<1> HIDE DEF ms
<1> QED
  BY <1>1, <1>3, <1>4, SealedQuiet

LEMMA StreamEndsQuiet ==
  ASSUME RelayInv, QuietInv, RelayTypeOK', NEW n \in connector.live, StreamEnds(n)
  PROVE  QuietInv'
<1> DEFINE ms == SendTunnel(connector, Tunnel("unsubscribed", 0, n))
<1>1. /\ phone' = phone /\ peers' = peers /\ open' = open /\ down' = down
      /\ overQuota' = overQuota /\ carriedOver' = carriedOver /\ up' = Sent(Dialled, ms)
      /\ connector' = [connector EXCEPT !.stream = 0, !.live = connector.live \ {n}]
  BY DEF StreamEnds, Unsubscribed
<1>2. n \in Nat /\ RelayTypeOK /\ "unsubscribed" \in Kinds
  BY DEF RelayInv, RelayTypeOK, Connector, Kinds
<1>3. ms \in Seq(Msg) /\ Register \notin In(ms)
  BY <1>2, SealsRecords
<1>4. /\ KeepsSocket(connector, connector') /\ SameCore(connector, connector')
      /\ connector'.signed = connector.signed /\ connector'.state = connector.state
  BY <1>1, <1>2, StreamsQuiet
<1> HIDE DEF ms
<1> QED
  BY <1>1, <1>3, <1>4, SealedQuiet

LEMMA ConnectorStopsQuiet ==
  ASSUME RelayInv, QuietInv, RelayTypeOK', ConnectorStops
  PROVE  QuietInv'
<1>1. /\ phone' = phone /\ peers' = peers /\ open' = open /\ overQuota' = overQuota
      /\ down' = [down EXCEPT !["bridge"] = <<>>]
      /\ connector' = [Torn(connector) EXCEPT !.stopped = TRUE, !.state = "idle", !.timers = 0]
      /\ up' = IF connector.link = "open" THEN Sent(Dialled, <<closed>>) ELSE up
  BY DEF ConnectorStops
<1>2. RelayTypeOK /\ connector \in Connector /\ down'["phone"] = down["phone"]
  BY <1>1, EndIs DEF RelayInv, RelayTypeOK
<1> DEFINE e == Torn(connector)
<1>3. /\ e \in Connector /\ e.n = connector.n /\ e.link \in {"closing", "closed"}
      /\ connector' = [e EXCEPT !.stopped = TRUE, !.state = "idle", !.timers = 0]
  BY <1>1, <1>2, TornIs
<1> HIDE DEF e
<1>4. connector'.n = connector.n /\ connector'.link \in {"closing", "closed"}
  BY <1>3 DEF Connector
<1>5. up' = Sent(Dialled, <<closed>>) \/ up' = Sent(Dialled, <<>>)
  BY <1>1, <1>2, SaysNothing
<1>6. /\ <<>> \in Seq(Msg) /\ Register \notin In(<<>>)
      /\ <<closed>> \in Seq(Msg) /\ Register \notin In(<<closed>>)
  BY <1>2, SaysNothing
<1> QED
  BY <1>1, <1>2, <1>4, <1>5, <1>6, DroppedQuiet

LEMMA ConnectorSocketFailsQuiet ==
  ASSUME RelayInv, QuietInv, RelayTypeOK', ConnectorSocketFails
  PROVE  QuietInv'
<1>1. /\ phone' = phone /\ peers' = peers /\ open' = open /\ overQuota' = overQuota
      /\ down' = down /\ up' = up
      /\ connector.link = "dialing" /\ connector' = RedialLater(Torn(connector))
  BY DEF ConnectorSocketFails
<1>2. RelayTypeOK /\ connector \in Connector
  BY DEF RelayInv, RelayTypeOK
<1>3. connector'.n = connector.n /\ connector'.link = "closed"
  BY <1>1, <1>2, TornIs
<1>4. up' = Sent(Dialled, <<>>) /\ <<>> \in Seq(Msg) /\ Register \notin In(<<>>)
  BY <1>1, <1>2, SaysNothing
<1> QED
  BY <1>1, <1>3, <1>4, DroppedQuiet

LEMMA ConnectorDialsQuiet ==
  ASSUME RelayInv, QuietInv, ConnectorDials
  PROVE  QuietInv'
<1>1. /\ phone' = phone /\ peers' = peers /\ open' = open /\ up' = up /\ overQuota' = overQuota
      /\ down' = [down EXCEPT !["bridge"] = <<>>] /\ carriedOver' = (connector.handshake # 0)
      /\ connector' \in {Dial(connector), [Dial(connector) EXCEPT !.timers = connector.timers - 1]}
  BY DEF ConnectorDials, Dial
<1>2. /\ connector \in Connector /\ down'["phone"] = down["phone"] /\ Unread
  BY <1>1, EndIs DEF RelayInv, RelayTypeOK, QuietInv
<1>3. /\ connector'.link = "dialing" /\ connector'.state = "dialing"
      /\ connector'.handshake = connector.handshake
  BY <1>1, <1>2 DEF Dial, Connector
<1>4. ~ BridgeFaces' /\ connector'.link # "open"
  BY <1>3 DEF BridgeFaces
<1>5. BeginsAfresh'
  BY <1>1, <1>3 DEF BeginsAfresh
<1>6. Unread'
  BY <1>1, <1>2 DEF Unread
<1> QED
  BY <1>1, <1>2, <1>4, <1>5, <1>6, AfterConnectorQuiet DEF QuietInv

LEMMA ConnectorSocketOpensQuiet ==
  ASSUME RelayInv, QuietInv, ConnectorSocketOpens
  PROVE  QuietInv'
<1>1. /\ phone' = phone /\ peers' = peers /\ down' = down /\ overQuota' = overQuota
      /\ carriedOver' = carriedOver /\ connector.link = "dialing"
      /\ connector' = [connector EXCEPT !.link = "open"]
      /\ open' = open \cup {Dialled} /\ up' = [up EXCEPT ![Dialled] = <<Register>>]
  BY DEF ConnectorSocketOpens
<1>2. /\ RelayTypeOK /\ Sockets /\ connector \in Connector /\ up \in [Socket -> Seq(Msg)]
      /\ Unread /\ BeginsAfresh /\ Dialled[1] = "bridge" /\ Dialled \in Socket
  <2>1. RelayTypeOK /\ Sockets /\ connector \in Connector /\ up \in [Socket -> Seq(Msg)]
        /\ Unread /\ BeginsAfresh
    BY DEF RelayInv, RelayTypeOK, QuietInv
  <2> QED
    BY <1>1, <2>1, OwnIs
<1>3. /\ connector'.n = connector.n /\ connector'.link = "open" /\ connector'.state = connector.state
      /\ connector'.handshake = connector.handshake
  BY <1>1, <1>2 DEF Connector
<1>4. Dialled' = Dialled /\ \A x \in Socket : x # Dialled => up'[x] = up[x]
  BY <1>1, <1>2, <1>3 DEF Dialled
<1>5. peers["bridge"] # Dialled
  <2>1. Dialled # None /\ Dialled \notin open
    BY <1>1, <1>2, SocketIs DEF Sockets
  <2> QED
    BY <1>2, <2>1, EndIs DEF Sockets
<1>6. ~ BridgeFaces'
  BY <1>1, <1>4, <1>5 DEF BridgeFaces
<1>7. \A x \in Socket : x[1] = "phone" => up'[x] = up[x]
  BY <1>2, <1>4
<1>8. Unread'
  BY <1>1, <1>2, <1>4 DEF Unread
<1>9. BeginsAfresh'
  <2>1. Opening
    BY <1>1 DEF Opening
  <2> QED
    BY <1>1, <1>2, <1>3, <2>1 DEF BeginsAfresh
<1>10. RegisteredFirst'
  <2>1. down'["bridge"] = <<>>
    BY <1>1, <1>2 DEF Sockets
  <2> QED
    BY <2>1, Emptied DEF RegisteredFirst
<1>11. TunneledIsNew'
  BY <1>1, <1>4, <1>5 DEF TunneledIsNew
<1> QED
  BY <1>1, <1>6, <1>7, <1>8, <1>9, <1>10, <1>11, AfterConnectorQuiet DEF QuietInv

-----------------------------------------------------------------------------
\* What a step of the phone is: it greets once, as it begins, and follows the handshake on.
Greeted(p, m, ms) ==
  /\ ms \in Seq(Msg) /\ Chain(ms, NotFirst)
  /\ (\E g \in In(ms) : First(g)) => p.phase = "registering" /\ m # closed
Follows(p, m, r) ==
  /\ ~ Ends(m) /\ r.object.phase \in {"registering", "handshaking", "sealed"}
  /\ r.object.phase = "registering" => p.phase = "registering" /\ m # Registered
  /\ r.object.phase = "handshaking" =>
       \/ p.phase = "handshaking" /\ ~ SignedFor(m, p.n)
       \/ Handshake(p.n, None) \in In(r.sent)
Proper(p, m, r) ==
  /\ Greeted(p, m, r.sent) /\ r.object.n = p.n
  /\ r.closes => r.object.phase = "closed"
  /\ ~ r.closes => Follows(p, m, r)

LEMMA FinishProper ==
  ASSUME NEW p, NEW m, NEW ms, NEW q, q.n = p.n, Greeted(p, m, ms), NEW e
  PROVE  Proper(p, m, Finished(q, ms, e))
BY DEF Proper, Finished, Finish, unbuilt

LEMMA StepProper ==
  ASSUME NEW p, NEW m, NEW ms, NEW q, q.n = p.n, Greeted(p, m, ms), Follows(p, m, Step(q, ms))
  PROVE  Proper(p, m, Step(q, ms))
BY DEF Proper, Step

LEMMA SilenceGreeted ==
  ASSUME NEW p, NEW m
  PROVE  Greeted(p, m, <<>>)
BY Emptied DEF Greeted

\* The phone begins: what it sends, and what it then is.
BeginsOnce(p, m) ==
  LET b == PhoneBeginSeal(p)
      h == Handshake(p.n, None)
  IN  /\ Greeted(p, m, b.sent) /\ In(b.sent) \subseteq {h} /\ b.object.n = p.n /\ ~ b.closes
      /\ b.object \in Phone /\ b.object.peerEphemeral = p.peerEphemeral
      /\ \/ p.phase \in {"handshaking", "sealed"} /\ b.object = p /\ b.sent = <<>>
         \/ p.phase = "registering" /\ b.object.phase = "handshaking" /\ b.sent = <<h>>
      /\ b = Step(b.object, b.sent)
LEMMA BeginProper ==
  ASSUME NEW p \in Phone, p.phase \in {"registering", "handshaking", "sealed"},
         p.phase = "registering" <=> p.channel = None /\ ~ p.begun,
         NEW m, m # closed
  PROVE  BeginsOnce(p, m)
<1> DEFINE b == PhoneBeginSeal(p)
           h == Handshake(p.n, None)
<1>1. /\ b.object \in Phone /\ b.object.n = p.n /\ ~ b.closes
      /\ b.object.peerEphemeral = p.peerEphemeral
      /\ IF p.channel # None \/ p.begun THEN b.object = p /\ b.sent = <<>>
         ELSE b.object.phase = "handshaking" /\ b.sent = <<h>>
  BY PhoneBeginSealIs
<1>2. p.phase = "registering" <=> ~ (p.channel # None \/ p.begun)
  OBVIOUS
<1>3. b = Step(b.object, b.sent)
  BY DEF PhoneBeginSeal, Step
<1>4. p.n \in Nat
  <2>1. p.n \in 0 .. MaxSessions /\ MaxSessions \in Nat
    BY SocketIs DEF Phone
  <2> QED
    BY <2>1
<1>5. h \in Msg
  BY <1>4, GreetingIsFirst
<1> HIDE DEF b, h
<1>6. <<h>> \in Seq(Msg) /\ In(<<h>>) = {h} /\ Chain(<<h>>, NotFirst)
  BY <1>5, Single
<1>7. ASSUME p.phase = "registering"
      PROVE  /\ Greeted(p, m, b.sent) /\ In(b.sent) \subseteq {h}
             /\ b.object.phase = "handshaking" /\ b.sent = <<h>>
  <2>1. b.sent = <<h>> /\ b.object.phase = "handshaking"
    BY <1>1, <1>2, <1>7
  <2> QED
    BY <1>6, <1>7, <2>1 DEF Greeted
<1>8. ASSUME p.phase # "registering"
      PROVE  /\ Greeted(p, m, b.sent) /\ In(b.sent) \subseteq {h}
             /\ p.phase \in {"handshaking", "sealed"} /\ b.object = p /\ b.sent = <<>>
  <2>1. b.object = p /\ b.sent = <<>> /\ Greeted(p, m, b.sent) /\ In(b.sent) = {}
    BY <1>1, <1>2, <1>8, SilenceGreeted, Emptied
  <2> QED
    BY <1>8, <2>1
<1>9. /\ Greeted(p, m, b.sent) /\ In(b.sent) \subseteq {h}
      /\ \/ p.phase \in {"handshaking", "sealed"} /\ b.object = p /\ b.sent = <<>>
         \/ p.phase = "registering" /\ b.object.phase = "handshaking" /\ b.sent = <<h>>
  BY <1>7, <1>8
<1> QED
  BY <1>1, <1>3, <1>9 DEF BeginsOnce, b, h

LEMMA FrameProper ==
  ASSUME NEW c, NEW p \in Phone, Theirs(c, p), p.phase \in {"registering", "handshaking", "sealed"},
         NEW m \in Greeting
  PROVE  Proper(p, m, OnHandshakeFrame(p, m))
<1> DEFINE begun == PhoneBeginSeal(p)
           b == begun.object
           h == Handshake(p.n, None)
           g == PhoneSigned(p.n, m.eph)
           signed == [b EXCEPT !.signed = TRUE, !.peerEphemeral = m.eph]
           rest == IF b.signed THEN <<>> ELSE <<g>>
           sent == begun.sent \o rest
           done == [signed EXCEPT !.channel = m.sig, !.begun = FALSE, !.phase = "sealed"]
           r == OnHandshakeFrame(p, m)
           x == PhoneCompletes(p.n, m)
<1>1. r = IF p.channel # None THEN Finished(p, <<>>, "retry")
          ELSE IF p.peerEphemeral \notin {0, m.eph} THEN Finished(b, begun.sent, "retry")
          ELSE IF m.sig = None THEN Step(signed, sent)
          ELSE IF x THEN Step(done, sent)
          ELSE Finished(signed, sent, "pin-mismatch")
  BY DEF OnHandshakeFrame
<1>2. /\ m.eph \in Nat /\ m.sig \in Keys \cup {None} /\ m.type = "relay/handshake" /\ m # closed
      /\ m # Registered /\ ~ Ends(m)
  BY DEF Greeting, closed, Registered, Ends
<1>3. /\ Greeted(p, m, begun.sent) /\ In(begun.sent) \subseteq {h} /\ b.n = p.n /\ b \in Phone
      /\ \/ p.phase \in {"handshaking", "sealed"} /\ b = p /\ begun.sent = <<>>
         \/ p.phase = "registering" /\ b.phase = "handshaking" /\ begun.sent = <<h>>
  <2>1. p.phase = "registering" <=> p.channel = None /\ ~ p.begun
    BY DEF Theirs
  <2>2. BeginsOnce(p, m)
    BY <1>2, <2>1, BeginProper
  <2> QED
    BY <2>2 DEF BeginsOnce, begun, b, h
<1>4. g \in Msg /\ ~ First(g)
  <2>1. p.n \in Nat
    <3>1. p.n \in 0 .. MaxSessions /\ MaxSessions \in Nat
      BY SocketIs DEF Phone
    <3> QED
      BY <3>1
  <2>2. <<p.n, m.eph>> \in Keys /\ <<p.n, m.eph>> # None
    BY <1>2, <2>1 DEF Keys, None
  <2>3. g = Handshake(p.n, <<p.n, m.eph>>)
    BY DEF PhoneSigned, Transcript
  <2>4. g \in Msg /\ g.sig = <<p.n, m.eph>>
    BY <2>1, <2>2, <2>3, GreetingIs
  <2> QED
    BY <2>2, <2>4 DEF First
<1> HIDE DEF g
<1>5. /\ rest \in Seq(Msg) /\ Chain(rest, NotFirst) /\ \A y \in In(rest) : y \in Msg /\ ~ First(y)
  <2>1. <<>> \in Seq(Msg) /\ In(<<>>) = {} /\ Chain(<<>>, NotFirst)
    BY Emptied
  <2>2. <<g>> \in Seq(Msg) /\ In(<<g>>) = {g} /\ Chain(<<g>>, NotFirst)
    BY <1>4, Single
  <2> QED
    BY <1>4, <2>1, <2>2
<1>6. Greeted(p, m, sent) /\ In(begun.sent) \subseteq In(sent)
  <2> HIDE DEF begun, rest
  <2>1. begun.sent \in Seq(Msg) /\ Chain(begun.sent, NotFirst)
    BY <1>3 DEF Greeted
  <2>2. \A y \in In(begun.sent) : y \in Msg
    <3>1. \A i \in 1 .. Len(begun.sent) : begun.sent[i] \in Msg
      BY <2>1, ElementOfSeq
    <3> QED
      BY <3>1 DEF In
  <2>3. \A y \in In(begun.sent), z \in In(rest) : <<y, z>> \in NotFirst
    BY <1>5, <2>2 DEF NotFirst
  <2>4. /\ sent \in Seq(Msg) /\ In(sent) = In(begun.sent) \cup In(rest) /\ Chain(sent, NotFirst)
    BY <1>5, <2>1, <2>3, Joined
  <2> HIDE DEF sent
  <2>5. (\E y \in In(sent) : First(y)) => p.phase = "registering" /\ m # closed
    BY <1>3, <1>5, <2>4 DEF Greeted
  <2> QED
    BY <2>4, <2>5 DEF Greeted
<1>7. /\ signed.n = p.n /\ signed.phase = b.phase /\ done.n = p.n /\ done.phase = "sealed"
  BY <1>3 DEF Phone
<1>8. In(<<h>>) = {h}
  BY DEF In
<1> HIDE DEF begun, b, sent, signed, done, x, r, rest, h
<1>9. CASE p.channel # None
  <2>1. Proper(p, m, Finished(p, <<>>, "retry"))
    BY SilenceGreeted, FinishProper
  <2> QED
    BY <1>1, <1>9, <2>1 DEF r
<1>10. CASE p.channel = None /\ p.peerEphemeral \notin {0, m.eph}
  <2>1. Proper(p, m, Finished(b, begun.sent, "retry"))
    BY <1>3, FinishProper
  <2> QED
    BY <1>1, <1>10, <2>1 DEF r
<1>11. CASE p.channel = None /\ p.peerEphemeral \in {0, m.eph} /\ m.sig = None
  <2>1. ~ SignedFor(m, p.n)
    BY <1>11 DEF SignedFor
  <2>2. p.phase # "sealed"
    BY <1>11 DEF Theirs
  <2>3. b.phase = "handshaking"
    BY <1>3, <2>2
  <2>4. p.phase = "handshaking" \/ h \in In(sent)
    <3>1. p.phase = "registering" => h \in In(begun.sent)
      BY <1>3, <1>8
    <3> QED
      BY <1>6, <2>2, <3>1
  <2>5. Follows(p, m, Step(signed, sent))
    BY <1>2, <1>7, <2>1, <2>3, <2>4 DEF Follows, Step, h
  <2>6. Proper(p, m, Step(signed, sent))
    BY <1>6, <1>7, <2>5, StepProper
  <2> QED
    BY <1>1, <1>11, <2>6 DEF r
<1>12. CASE p.channel = None /\ p.peerEphemeral \in {0, m.eph} /\ m.sig # None /\ x
  <2>1. Follows(p, m, Step(done, sent))
    BY <1>2, <1>7 DEF Follows, Step
  <2>2. Proper(p, m, Step(done, sent))
    BY <1>6, <1>7, <2>1, StepProper
  <2> QED
    BY <1>1, <1>12, <2>2 DEF r
<1>13. CASE p.channel = None /\ p.peerEphemeral \in {0, m.eph} /\ m.sig # None /\ ~ x
  <2>1. Proper(p, m, Finished(signed, sent, "pin-mismatch"))
    BY <1>6, <1>7, FinishProper
  <2> QED
    BY <1>1, <1>13, <2>1 DEF r
<1> QED
  BY <1>9, <1>10, <1>11, <1>12, <1>13

LEMMA OnMessageProper ==
  ASSUME NEW c, NEW p \in Phone, Theirs(c, p), p.phase \in {"registering", "handshaking", "sealed"},
         NEW m \in Msg
  PROVE  Proper(p, m, OnMessage(p, m))
<1> DEFINE r == OnMessage(p, m)
           b == PhoneBeginSeal(p)
           h == Handshake(p.n, None)
<1>1. \A e : Proper(p, m, Finished(p, <<>>, e))
  BY SilenceGreeted, FinishProper
<1>2. CASE m \in {Registered, PeerOnline}
  <2>1. m # closed /\ ~ Ends(m) /\ ~ SignedFor(m, p.n) /\ r = b
    <3>1. m # closed /\ ~ Ends(m) /\ r = b
      BY <1>2, NoticesDiffer, OnMessageIs
    <3> QED
      BY <1>2, <3>1 DEF SignedFor, Registered, PeerOnline
  <2> HIDE DEF r
  <2>2. /\ Greeted(p, m, b.sent) /\ b.object.n = p.n /\ b = Step(b.object, b.sent)
        /\ \/ p.phase \in {"handshaking", "sealed"} /\ b.object = p /\ b.sent = <<>>
           \/ p.phase = "registering" /\ b.object.phase = "handshaking" /\ b.sent = <<h>>
    <3>1. p.phase = "registering" <=> p.channel = None /\ ~ p.begun
      BY DEF Theirs
    <3>2. BeginsOnce(p, m)
      BY <2>1, <3>1, BeginProper
    <3> QED
      BY <3>2 DEF BeginsOnce, b, h
  <2>3. In(<<h>>) = {h}
    BY DEF In
  <2> HIDE DEF b
  <2>4. Follows(p, m, b)
    BY <2>1, <2>2, <2>3 DEF Follows
  <2>5. Proper(p, m, Step(b.object, b.sent))
    BY <2>2, <2>4, StepProper
  <2> QED
    BY <2>1, <2>2, <2>5 DEF r
<1>3. CASE m.type = "relay/handshake"
  <2>1. m \in Greeting /\ r = OnHandshakeFrame(p, m)
    BY <1>3, FrameIs, OnMessageIs DEF Frame
  <2> QED
    BY <2>1, FrameProper
<1>4. CASE m.type = "relay/data"
  <2>1. m \in Record /\ ~ Ends(m) /\ ~ SignedFor(m, p.n) /\ m # Registered
    <3>1. m \in Record
      BY <1>4, FrameIs DEF Frame
    <3> QED
      BY <1>4, <3>1 DEF Ends, SignedFor, Registered
  <2>2. \A q : q.n = p.n /\ q.phase = p.phase => Proper(p, m, Step(q, <<>>))
    <3> SUFFICES ASSUME NEW q, q.n = p.n, q.phase = p.phase PROVE Proper(p, m, Step(q, <<>>))
      OBVIOUS
    <3>1. Follows(p, m, Step(q, <<>>))
      BY <2>1 DEF Follows, Step
    <3> QED
      BY <3>1, SilenceGreeted, StepProper
  <2>3. LET q == OnTunnelMessage(p, m) IN q.n = p.n /\ q.phase = p.phase
    BY <2>1, OnTunnelMessageIs DEF SameSession
  <2>4. r \in {Step(p, <<>>), Finished(p, <<>>, "retry"), Step(OnTunnelMessage(p, m), <<>>)}
    BY <1>4, OnMessageIs
  <2>5. Proper(p, m, Step(p, <<>>)) /\ Proper(p, m, Step(OnTunnelMessage(p, m), <<>>))
    BY <2>2, <2>3
  <2> QED
    BY <1>1, <2>4, <2>5
<1>5. CASE ~ Frame(m) /\ m \notin {Registered, PeerOnline}
  <2>1. r = Finished(p, <<>>, "retry") \/ r = Finished(p, <<>>, "routing-collision")
    BY <1>5, OnMessageIs
  <2> QED
    BY <1>1, <2>1
<1> QED
  BY <1>2, <1>3, <1>4, <1>5 DEF Frame

\* Whatever the phone sends, the connector is as it was, and the phone greets while no other
\* session of it is still faced.
LEMMA AfterPhoneQuiet ==
  ASSUME RelayInv, QuietInv, RelayTypeOK', connector' = connector, peers' = peers, open' = open,
         carriedOver' = carriedOver, overQuota' = overQuota, down'["bridge"] = down["bridge"],
         phone'.n = phone.n, NEW ms \in Seq(Msg), up' = Sent(Session, ms), Chain(ms, NotFirst),
         \A g \in In(ms) : First(g) => /\ phone.phase = "registering"
                                       /\ Session \in open => peers["phone"] = Session,
         phone'.phase = "registering" => phone.phase = "registering"
  PROVE  /\ Unread' /\ FirstIsFirst' /\ OneAtATime' /\ BeginsAfresh' /\ RegisteredFirst'
         /\ Session' = Session /\ Dialled' = Dialled
         /\ BridgeFaces' => BridgeFaces /\ up'[Dialled] = up[Dialled]
         /\ Session \in Socket => In(up[Session]) \subseteq In(up'[Session])
         /\ Session \in Socket /\ ~ Closing(up'[Session]) => ~ Closing(up[Session])
         /\ Session \in open /\ ~ Closing(up[Session]) => In(ms) \subseteq In(up'[Session])
<1>1. /\ RelayTypeOK /\ Sockets /\ Unread /\ FirstIsFirst /\ OneAtATime /\ BeginsAfresh
      /\ RegisteredFirst /\ up \in [Socket -> Seq(Msg)] /\ (Session \in open => Session \in Socket)
      /\ (connector.link \in {"open", "dialing"} => Dialled \in Socket) /\ Dialled # Session
      /\ Session[1] = "phone"
  <2>1. RelayTypeOK
    BY DEF RelayInv
  <2> QED
    BY <2>1, OwnIs DEF RelayInv, QuietInv, RelayTypeOK
<1>2. Session' = Session /\ Dialled' = Dialled
  BY DEF Session, Dialled
<1>3. /\ \A x \in Socket : x # Session => up'[x] = up[x]
      /\ Session \in open => up'[Session] = Push(up[Session], ms)
      /\ Session \notin open => up' = up
  BY <1>1, SentIs
<1>4. connector.link \in {"open", "dialing"} => up'[Dialled] = up[Dialled]
  BY <1>1, <1>3
<1>5. Unread' /\ BeginsAfresh' /\ RegisteredFirst'
  <2>1. Unread'
    BY <1>1, <1>3 DEF Unread
  <2>2. Opening' => Opening
    BY <1>2, <1>4 DEF Opening
  <2>3. BeginsAfresh'
    BY <1>1, <2>2 DEF BeginsAfresh
  <2>4. RegisteredFirst'
    BY <1>1 DEF RegisteredFirst
  <2> QED
    BY <2>1, <2>3, <2>4
<1>6. BridgeFaces' => BridgeFaces /\ up'[Dialled] = up[Dialled]
  BY <1>2, <1>4 DEF BridgeFaces
<1>7. CASE Session \notin open \/ Closing(up[Session])
  <2>1. up'[Session] = up[Session] /\ \A x \in Socket : up'[x] = up[x]
    <3>1. CASE Session \notin open
      BY <1>3, <3>1
    <3>2. CASE Session \in open /\ Closing(up[Session])
      <4>1. up[Session] \in Seq(Msg)
        BY <1>1, <3>2
      <4> QED
        BY <1>3, <3>2, <4>1, PushIs
    <3> QED
      BY <1>7, <3>1, <3>2
  <2>2. FirstIsFirst'
    BY <1>1, <2>1 DEF FirstIsFirst
  <2>3. Committed' = Committed
    BY DEF Committed
  <2>4. OneAtATime'
    <3> SUFFICES ASSUME BridgeFaces, ~ carriedOver,
                        Faced(Committed, down["bridge"])
                 PROVE  /\ peers["phone"] = Session => phone'.phase # "registering"
      BY <1>1, <1>2, <1>6, <2>1, <2>3 DEF OneAtATime
    <3> QED
      BY <1>1 DEF OneAtATime
  <2> QED
    BY <1>2, <1>5, <1>6, <1>7, <2>1, <2>2, <2>4
<1>8. CASE Session \in open /\ ~ Closing(up[Session])
  <2> DEFINE q == up[Session]
             q2 == up'[Session]
  <2>1. q \in Seq(Msg) /\ Session \in Socket
    BY <1>1, <1>8
  <2>2. q2 = q \o ms
    BY <1>3, <1>8, <2>1, PushIs
  <2> HIDE DEF q, q2
  <2>3. In(q2) = In(q) \cup In(ms) /\ \A m \in In(q) : m \in Msg
    <3>1. \A m \in In(q) : m \in Msg
      <4>1. \A i \in 1 .. Len(q) : q[i] \in Msg
        BY <2>1, ElementOfSeq
      <4> QED
        BY <4>1 DEF In
    <3>2. In(q \o ms) = In(q) \cup In(ms)
      BY <2>1, JoinedIn
    <3> QED
      BY <2>2, <3>1, <3>2
  <2>4. Chain(q2, NotFirst)
    <3>1. Chain(q, NotFirst)
      BY <1>1, <2>1 DEF FirstIsFirst, q
    <3>2. ASSUME NEW m \in In(q), NEW k \in In(ms) PROVE <<m, k>> \in NotFirst
      <4>1. k \in Msg
        <5>1. \A i \in 1 .. Len(ms) : ms[i] \in Msg
          BY ElementOfSeq
        <5> QED
          BY <3>2, <5>1 DEF In
      <4>2. First(k) => ~ Frame(m)
        BY <1>1, <2>1, <3>2, SentByPhone DEF q
      <4> QED
        BY <2>3, <3>2, <4>1, <4>2 DEF NotFirst
    <3> QED
      BY <2>1, <2>2, <3>1, <3>2, Joined
  <2>5. FirstIsFirst'
    <3> SUFFICES ASSUME NEW x \in Socket, x[1] = "phone" PROVE Chain(up'[x], NotFirst)
      BY DEF FirstIsFirst
    <3>1. CASE x = Session
      BY <2>4, <3>1 DEF q2
    <3>2. CASE x # Session
      BY <1>1, <1>3, <3>2 DEF FirstIsFirst
    <3> QED
      BY <3>1, <3>2
  <2>6. Committed' = Committed
    BY DEF Committed
  <2>7. OneAtATime'
    <3> SUFFICES ASSUME BridgeFaces, ~ carriedOver,
                        Faced(Committed, down["bridge"])
                 PROVE  /\ \A x \in Socket : x[1] = "phone" => \A m \in In(up'[x]) : ~ First(m)
                        /\ peers["phone"] = Session => phone'.phase # "registering"
      BY <1>1, <1>2, <1>6, <2>6 DEF OneAtATime
    <3>1. /\ \A x \in Socket : x[1] = "phone" => \A m \in In(up[x]) : ~ First(m)
          /\ peers["phone"] = Session => phone.phase # "registering"
      BY <1>1 DEF OneAtATime
    <3>2. \A m \in In(ms) : ~ First(m)
      BY <1>8, <3>1
    <3>3. \A m \in In(q2) : ~ First(m)
      BY <1>1, <2>1, <2>3, <3>1, <3>2 DEF q
    <3> QED
      BY <1>3, <3>1, <3>3 DEF q2
  <2> QED
    BY <1>2, <1>5, <1>6, <1>8, <2>3, <2>5, <2>7 DEF q, q2
<1> QED
  BY <1>7, <1>8

\* The phone gives up its session.
LEMMA PhoneFinishesQuiet ==
  ASSUME RelayInv, QuietInv, RelayTypeOK', NEW r, NEW rest, PhoneDoes(r, rest), r.closes,
         r.object.phase = "closed", r.object.n = phone.n, r.sent \in Seq(Msg), Chain(r.sent, NotFirst),
         \A g \in In(r.sent) : First(g) => /\ phone.phase = "registering"
                                           /\ Session \in open => peers["phone"] = Session
  PROVE  QuietInv'
<1> DEFINE ms == r.sent \o <<closed>>
<1>1. /\ phone' = r.object /\ up' = Sent(Session, ms) /\ down' = [down EXCEPT !["phone"] = <<>>]
      /\ connector' = connector /\ peers' = peers /\ open' = open
      /\ carriedOver' = carriedOver /\ overQuota' = overQuota
  BY DEF PhoneDoes
<1>2. closed \in Msg /\ ~ First(closed)
  BY RelaySays DEF First, closed
<1>3. /\ <<closed>> \in Seq(Msg) /\ In(<<closed>>) = {closed} /\ Chain(<<closed>>, NotFirst)
  BY <1>2, Single
<1>4. \A m \in In(r.sent) : m \in Msg
  <2>1. \A i \in 1 .. Len(r.sent) : r.sent[i] \in Msg
    BY ElementOfSeq
  <2> QED
    BY <2>1 DEF In
<1>5. \A m \in In(r.sent), k \in In(<<closed>>) : <<m, k>> \in NotFirst
  BY <1>2, <1>3, <1>4 DEF NotFirst
<1>6. ms \in Seq(Msg) /\ In(ms) = In(r.sent) \cup {closed} /\ Chain(ms, NotFirst)
  <2> DEFINE a == r.sent
             b == <<closed>>
  <2>1. /\ a \in Seq(Msg) /\ b \in Seq(Msg) /\ Chain(a, NotFirst) /\ Chain(b, NotFirst)
        /\ In(b) = {closed} /\ \A m \in In(a), k \in In(b) : <<m, k>> \in NotFirst
    BY <1>3, <1>5
  <2> HIDE DEF a, b
  <2>2. a \o b \in Seq(Msg) /\ In(a \o b) = In(a) \cup In(b) /\ Chain(a \o b, NotFirst)
    BY <2>1, Joined
  <2> QED
    BY <2>1, <2>2 DEF a, b
<1> HIDE DEF ms
<1>7. \A g \in In(ms) : First(g) => /\ phone.phase = "registering"
                                    /\ Session \in open => peers["phone"] = Session
  BY <1>2, <1>6
<1>8. down'["bridge"] = down["bridge"]
  BY <1>1, EndIs DEF RelayInv, RelayTypeOK
<1>9. phone'.n = phone.n /\ phone'.phase = "closed"
  BY <1>1
<1>10. Unread' /\ FirstIsFirst' /\ OneAtATime' /\ BeginsAfresh' /\ RegisteredFirst'
  BY <1>1, <1>6, <1>7, <1>8, <1>9, AfterPhoneQuiet
<1>11. RegisteredComes' /\ GreetingIsOwed' /\ TunneledIsNew'
  BY <1>9 DEF RegisteredComes, GreetingIsOwed, PhoneWaits, TunneledIsNew, Live
<1> QED
  BY <1>10, <1>11 DEF QuietInv

\* The phone goes on, and has read m unless its inbox is as it was.
LEMMA PhoneGoesOnQuiet ==
  ASSUME RelayInv, QuietInv, RelayTypeOK', NEW r, NEW rest, PhoneDoes(r, rest), ~ r.closes,
         r.object.n = phone.n, r.sent \in Seq(Msg), Chain(r.sent, NotFirst), Live,
         \A g \in In(r.sent) : First(g) => /\ phone.phase = "registering"
                                           /\ Session \in open => peers["phone"] = Session,
         NEW m, rest = down["phone"] \/ In(down["phone"]) = {m} \cup In(rest), ~ Ends(m),
         r.object.phase = "registering" => phone.phase = "registering" /\ m # Registered,
         r.object.phase = "handshaking" =>
            \/ phone.phase = "handshaking" /\ ~ SignedFor(m, phone.n)
            \/ Handshake(phone.n, None) \in In(r.sent)
  PROVE  QuietInv'
<1> DEFINE ms == r.sent
<1>1. /\ phone' = r.object /\ up' = Sent(Session, ms) /\ down' = [down EXCEPT !["phone"] = rest]
      /\ connector' = connector /\ peers' = peers /\ open' = open
      /\ carriedOver' = carriedOver /\ overQuota' = overQuota
  <2>1. up' = Sent(Session, r.sent \o <<>>) /\ r.sent \o <<>> = r.sent
    BY ConcatEmptySeq DEF PhoneDoes
  <2> QED
    BY <2>1 DEF PhoneDoes
<1>2. /\ RelayTypeOK /\ down'["bridge"] = down["bridge"] /\ down'["phone"] = rest
      /\ GreetingIsOwed /\ RegisteredComes /\ TunneledIsNew /\ Session \in Socket
  <2>1. RelayTypeOK
    BY DEF RelayInv
  <2>2. Session \in Socket
    BY <2>1, LiveIs
  <2> QED
    BY <1>1, <2>1, <2>2, EndIs DEF RelayTypeOK, QuietInv
<1>3. phone'.n = phone.n /\ phone'.phase = r.object.phase
  BY <1>1
<1> HIDE DEF ms
<1>4. /\ Unread' /\ FirstIsFirst' /\ OneAtATime' /\ BeginsAfresh' /\ RegisteredFirst'
      /\ Session' = Session /\ Dialled' = Dialled
      /\ BridgeFaces' => BridgeFaces /\ up'[Dialled] = up[Dialled]
      /\ In(up[Session]) \subseteq In(up'[Session])
      /\ ~ Closing(up'[Session]) => ~ Closing(up[Session])
      /\ Session \in open /\ ~ Closing(up[Session]) => In(ms) \subseteq In(up'[Session])
  BY <1>1, <1>2, <1>3, AfterPhoneQuiet DEF ms
\* What it has not read is there still, and it has read no end.
<1>5. /\ NoEnds(rest) => NoEnds(down["phone"])
      /\ \A g \in In(down["phone"]) : g = m \/ g \in In(rest)
  BY DEF NoEnds
<1>6. RegisteredComes'
  <2> SUFFICES ASSUME r.object.phase = "registering", peers["phone"] = Session, NoEnds(rest)
               PROVE  Registered \in In(rest)
    BY <1>1, <1>2, <1>3, <1>4 DEF RegisteredComes
  <2> QED
    BY <1>2, <1>5 DEF RegisteredComes
<1>7. TunneledIsNew'
  BY <1>1, <1>2, <1>3, <1>4, <1>5 DEF TunneledIsNew
<1>8. GreetingIsOwed'
  <2>1. CASE r.object.phase = "handshaking" /\ Handshake(phone.n, None) \in In(r.sent)
    <3> SUFFICES ASSUME PhoneWaits' PROVE Handshake(phone.n, None) \in In(up'[Session])
      BY <1>3, <1>4 DEF GreetingIsOwed
    <3>1. peers["phone"] = Session /\ ~ Closing(up[Session])
      BY <1>1, <1>4 DEF PhoneWaits
    <3>2. Session \in open
      <4>1. Session # None /\ Sockets
        BY <1>2, SocketIs DEF RelayInv
      <4> QED
        BY <3>1, <4>1, EndIs DEF Sockets
    <3> QED
      BY <1>4, <2>1, <3>1, <3>2 DEF ms
  <2>2. CASE r.object.phase # "handshaking"
    BY <1>3, <2>2 DEF GreetingIsOwed, PhoneWaits
  <2>3. CASE phone.phase = "handshaking" /\ ~ SignedFor(m, phone.n)
    <3>1. PhoneWaits' => PhoneWaits
      BY <1>1, <1>2, <1>4, <1>5, <2>3 DEF PhoneWaits
    <3> DEFINE h == Handshake(phone.n, None)
    <3>2. \A g \in In(down["phone"]) : SignedFor(g, phone.n) => g \in In(down'["phone"])
      BY <1>2, <1>5, <2>3
    <3> HIDE DEF h
    <3> QED
      BY <1>1, <1>2, <1>3, <1>4, <3>1, <3>2, OwedStill DEF h
  <2> QED
    BY <2>1, <2>2, <2>3
<1> QED
  BY <1>4, <1>6, <1>7, <1>8 DEF QuietInv

LEMMA PhoneReadsQuiet ==
  ASSUME RelayInv, QuietInv, RelayTypeOK', PhoneReads
  PROVE  QuietInv'
<1> DEFINE m == Head(down["phone"])
           rest == Tail(down["phone"])
           r == OnMessage(phone, m)
<1>1. down["phone"] # <<>> /\ Hears(Session) /\ PhoneDoes(r, rest)
  BY DEF PhoneReads
<1>2. /\ RelayTypeOK /\ PhoneTold /\ phone \in Phone /\ down["phone"] \in Seq(Msg) /\ Live
      /\ phone.phase \in {"registering", "handshaking", "sealed"}
  <2>1. RelayTypeOK /\ PhoneTold
    BY DEF RelayInv
  <2>2. Live
    BY <1>1, <2>1, LiveIs
  <2> QED
    BY <2>1, <2>2, EndIs DEF RelayTypeOK, Live
<1>3. m \in Msg /\ m \in In(down["phone"]) /\ In(down["phone"]) = {m} \cup In(rest)
  BY <1>1, <1>2, Headed
<1>4. Theirs(connector, phone)
  <2>1. PICK s \in 0 .. MaxSessions : Agreed(connector, phone, PhoneSent, BridgeSent, s)
    BY DEF RelayInv
  <2> QED
    BY <2>1 DEF Agreed
<1> HIDE DEF m, rest, r
<1>5. Proper(phone, m, r)
  BY <1>2, <1>3, <1>4, OnMessageProper DEF r
<1>6. r.sent \in Seq(Msg) /\ Chain(r.sent, NotFirst) /\ r.object.n = phone.n
  BY <1>5 DEF Proper, Greeted
<1>7. \A g \in In(r.sent) : First(g) => /\ phone.phase = "registering"
                                        /\ Session \in open => peers["phone"] = Session
  <2> SUFFICES ASSUME NEW g \in In(r.sent), First(g)
               PROVE  /\ phone.phase = "registering"
                      /\ Session \in open => peers["phone"] = Session
    OBVIOUS
  <2>1. phone.phase = "registering" /\ m # closed
    BY <1>5 DEF Proper, Greeted
  <2>2. Session \in open => peers["phone"] = Session
    BY <1>2, <1>3, <2>1 DEF PhoneTold
  <2> QED
    BY <2>1, <2>2
<1>8. CASE r.closes
  <2>1. r.object.phase = "closed"
    BY <1>5, <1>8 DEF Proper
  <2> QED
    BY <1>1, <1>6, <1>7, <1>8, <2>1, PhoneFinishesQuiet
<1>9. CASE ~ r.closes
  <2>1. Follows(phone, m, r)
    BY <1>5, <1>9 DEF Proper
  <2>2. /\ ~ Ends(m)
        /\ r.object.phase = "registering" => phone.phase = "registering" /\ m # Registered
        /\ r.object.phase = "handshaking" =>
             \/ phone.phase = "handshaking" /\ ~ SignedFor(m, phone.n)
             \/ Handshake(phone.n, None) \in In(r.sent)
    BY <2>1 DEF Follows
  <2> QED
    BY <1>1, <1>2, <1>3, <1>6, <1>7, <1>9, <2>2, PhoneGoesOnQuiet
<1> QED
  BY <1>8, <1>9

\* A record of the phone is no greeting.
LEMMA PhoneSeals ==
  ASSUME RelayInv, phone.phase = "sealed", NEW k \in Kinds, NEW i \in Nat
  PROVE  LET ms == <<Data(phone.channel, Tunnel(k, i, phone.n))>>
         IN  ms \in Seq(Msg) /\ Chain(ms, NotFirst) /\ \A g \in In(ms) : ~ First(g)
<1> DEFINE d == Data(phone.channel, Tunnel(k, i, phone.n))
<1>1. PICK s \in 0 .. MaxSessions : Agreed(connector, phone, PhoneSent, BridgeSent, s)
  BY DEF RelayInv
<1>2. phone \in Phone /\ phone.n \in Nat /\ phone.channel # None
  <2>1. Theirs(connector, phone) /\ RelayTypeOK
    BY <1>1 DEF Agreed, RelayInv
  <2> QED
    BY <2>1, SocketIs DEF Theirs, RelayTypeOK, Phone
<1>3. phone.channel \in Keys
  BY <1>2 DEF Phone
<1>4. d \in Record
  BY <1>2, <1>3, RecordIs
<1>5. d \in Msg /\ ~ First(d)
  BY <1>4 DEF Msg, Record, First
<1> HIDE DEF d
<1>6. <<d>> \in Seq(Msg) /\ In(<<d>>) = {d} /\ Chain(<<d>>, NotFirst)
  BY <1>5, Single
<1> QED
  BY <1>5, <1>6 DEF d

\* It ends its session of itself: nothing, or a last record, goes out first.
LEMMA PhoneEndsQuiet ==
  ASSUME RelayInv, QuietInv, RelayTypeOK', NEW ms,
         \/ ms = <<>>
         \/ phone.phase = "sealed" /\ ms = <<Data(phone.channel, Tunnel("unsubscribe", 0, phone.n))>>,
         PhoneDoes(Finished(phone, ms, "retry"), <<>>)
  PROVE  QuietInv'
<1> DEFINE r == Finished(phone, ms, "retry")
<1>1. r.closes /\ r.object.phase = "closed" /\ r.object.n = phone.n /\ r.sent = ms
  BY DEF Finished, Finish, unbuilt
<1>2. ms \in Seq(Msg) /\ Chain(ms, NotFirst) /\ \A g \in In(ms) : ~ First(g)
  <2>1. CASE ms = <<>>
    BY <2>1, Emptied
  <2>2. CASE phone.phase = "sealed" /\ ms = <<Data(phone.channel, Tunnel("unsubscribe", 0, phone.n))>>
    BY <2>2, PhoneSeals DEF Kinds
  <2> QED
    BY <2>1, <2>2
<1> HIDE DEF r
<1> QED
  BY <1>1, <1>2, PhoneFinishesQuiet DEF r

LEMMA PhoneSocketFailsQuiet ==
  ASSUME RelayInv, QuietInv, RelayTypeOK', PhoneSocketFails
  PROVE  QuietInv'
BY PhoneEndsQuiet DEF PhoneSocketFails

LEMMA HandshakeTimeoutQuiet ==
  ASSUME RelayInv, QuietInv, RelayTypeOK', HandshakeTimeout
  PROVE  QuietInv'
BY PhoneEndsQuiet DEF HandshakeTimeout

LEMMA PhoneClosesQuiet ==
  ASSUME RelayInv, Waiting, QuietInv, RelayTypeOK', PhoneCloses
  PROVE  QuietInv'
<1> DEFINE ms == IF phone.sub \in {"asked", "following"}
                 THEN <<Data(phone.channel, Tunnel("unsubscribe", 0, phone.n))>> ELSE <<>>
<1>1. PhoneDoes(Finished(phone, ms, "retry"), <<>>)
  BY DEF PhoneCloses
<1>2. \/ ms = <<>>
      \/ phone.phase = "sealed" /\ ms = <<Data(phone.channel, Tunnel("unsubscribe", 0, phone.n))>>
  BY DEF Waiting
<1> HIDE DEF ms
<1> QED
  BY <1>1, <1>2, PhoneEndsQuiet

\* A sealed phone seals a record, or notes that one will not come.
LEMMA PhoneSealedQuiet ==
  ASSUME RelayInv, QuietInv, RelayTypeOK', phone.phase = "sealed", NEW q, q.n = phone.n,
         q.phase = phone.phase, NEW ms \in Seq(Msg), Chain(ms, NotFirst), \A g \in In(ms) : ~ First(g),
         PhoneDoes(Step(q, ms), down["phone"])
  PROVE  QuietInv'
<1> DEFINE r == Step(q, ms)
<1>1. ~ r.closes /\ r.object = q /\ r.sent = ms
  BY DEF Step
<1>2. Live
  BY DEF Live
<1>3. ~ Ends(Register)
  BY DEF Ends, Register
<1> HIDE DEF r
<1> QED
  BY <1>1, <1>2, <1>3, PhoneGoesOnQuiet DEF r

LEMMA PhoneRequestsQuiet ==
  ASSUME RelayInv, QuietInv, RelayTypeOK', PhoneRequests
  PROVE  QuietInv'
<1> DEFINE ms == <<Data(phone.channel, Tunnel("request", phone.nextId, phone.n))>>
           q == [phone EXCEPT !.nextId = @ + 1, !.pending = @ \cup {phone.nextId}]
<1>1. phone \in Phone /\ phone.phase = "sealed" /\ PhoneDoes(Step(q, ms), down["phone"])
  BY DEF RelayInv, RelayTypeOK, PhoneRequests
<1>2. phone.nextId \in Nat /\ q.n = phone.n /\ q.phase = phone.phase
  BY <1>1 DEF Phone
<1>3. ms \in Seq(Msg) /\ Chain(ms, NotFirst) /\ \A g \in In(ms) : ~ First(g)
  BY <1>1, <1>2, PhoneSeals DEF Kinds
<1> HIDE DEF ms, q
<1> QED
  BY <1>1, <1>2, <1>3, PhoneSealedQuiet

LEMMA PhoneSubscribesQuiet ==
  ASSUME RelayInv, QuietInv, RelayTypeOK', PhoneSubscribes
  PROVE  QuietInv'
<1> DEFINE ms == <<Data(phone.channel, Tunnel("subscribe", phone.nextId, phone.n))>>
           q == [phone EXCEPT !.nextId = @ + 1, !.sub = "asked", !.subId = phone.nextId]
<1>1. phone \in Phone /\ phone.phase = "sealed" /\ PhoneDoes(Step(q, ms), down["phone"])
  BY DEF RelayInv, RelayTypeOK, PhoneSubscribes
<1>2. phone.nextId \in Nat /\ q.n = phone.n /\ q.phase = phone.phase
  BY <1>1 DEF Phone
<1>3. ms \in Seq(Msg) /\ Chain(ms, NotFirst) /\ \A g \in In(ms) : ~ First(g)
  BY <1>1, <1>2, PhoneSeals DEF Kinds
<1> HIDE DEF ms, q
<1> QED
  BY <1>1, <1>2, <1>3, PhoneSealedQuiet

LEMMA RequestTimesOutQuiet ==
  ASSUME RelayInv, Waiting, QuietInv, RelayTypeOK', NEW id \in phone.pending, RequestTimesOut(id)
  PROVE  QuietInv'
<1> DEFINE q == [phone EXCEPT !.pending = @ \ {id}]
<1>1. phone \in Phone /\ phone.phase = "sealed" /\ PhoneDoes(Step(q, <<>>), down["phone"])
  BY DEF RelayInv, RelayTypeOK, RequestTimesOut, Waiting
<1>2. q.n = phone.n /\ q.phase = phone.phase
  BY <1>1 DEF Phone
<1>3. <<>> \in Seq(Msg) /\ Chain(<<>>, NotFirst) /\ In(<<>>) = {}
  BY Emptied
<1> HIDE DEF q
<1> QED
  BY <1>1, <1>2, <1>3, PhoneSealedQuiet

LEMMA PhoneConnectsQuiet ==
  ASSUME RelayInv, QuietInv, PhoneConnects
  PROVE  QuietInv'
<1>1. /\ connector' = connector /\ peers' = peers /\ open' = open /\ up' = up /\ down' = down
      /\ carriedOver' = carriedOver /\ overQuota' = overQuota
      /\ phone' = [unbuilt EXCEPT !.n = phone.n + 1, !.phase = "opening"]
  BY DEF PhoneConnects
<1>2. phone'.phase = "opening"
  BY <1>1 DEF unbuilt
<1>3. RegisteredComes' /\ GreetingIsOwed' /\ TunneledIsNew'
  BY <1>2 DEF RegisteredComes, GreetingIsOwed, PhoneWaits, TunneledIsNew, Live
<1>4. Dialled' = Dialled /\ Committed' = Committed /\ BridgeFaces' = BridgeFaces /\ Opening' = Opening
  BY <1>1 DEF Dialled, Committed, BridgeFaces, Opening
<1>5. Unread' /\ FirstIsFirst' /\ BeginsAfresh' /\ RegisteredFirst'
  BY <1>1, <1>4 DEF QuietInv, Unread, FirstIsFirst, BeginsAfresh, RegisteredFirst
<1>6. OneAtATime'
  BY <1>1, <1>2, <1>4 DEF QuietInv, OneAtATime
<1> QED
  BY <1>3, <1>5, <1>6 DEF QuietInv

LEMMA PhoneSocketOpensQuiet ==
  ASSUME RelayInv, QuietInv, PhoneSocketOpens
  PROVE  QuietInv'
<1>1. /\ phone.phase = "opening" /\ phone' = [phone EXCEPT !.phase = "registering"]
      /\ open' = open \cup {Session} /\ up' = [up EXCEPT ![Session] = <<Register>>]
      /\ connector' = connector /\ peers' = peers /\ down' = down
      /\ carriedOver' = carriedOver /\ overQuota' = overQuota
  BY DEF PhoneSocketOpens
<1>2. /\ RelayTypeOK /\ Sockets /\ phone \in Phone /\ up \in [Socket -> Seq(Msg)]
      /\ Session \in Socket /\ Session[1] = "phone" /\ Session # None /\ Dialled # Session
      /\ (connector.link \in {"open", "dialing"} => Dialled \in Socket)
  <2>1. RelayTypeOK
    BY DEF RelayInv
  <2> QED
    BY <1>1, <2>1, OwnIs, SocketIs DEF RelayInv, RelayTypeOK
<1>3. phone'.phase = "registering" /\ phone'.n = phone.n /\ phone'.channel = phone.channel
  BY <1>1, <1>2 DEF Phone
<1>4. Session' = Session /\ Dialled' = Dialled /\ Committed' = Committed
  BY <1>1, <1>3 DEF Session, Dialled, Committed
<1>5. up'[Session] = <<Register>> /\ \A x \in Socket : x # Session => up'[x] = up[x]
  BY <1>1, <1>2
\* The relay has not registered it yet.
<1>6. peers["phone"] # Session
  BY <1>1, <1>2, EndIs DEF Sockets
<1>7. RegisteredComes' /\ GreetingIsOwed'
  BY <1>1, <1>3, <1>4, <1>6 DEF RegisteredComes, GreetingIsOwed, PhoneWaits
<1>8. Register \in Msg /\ ~ First(Register)
  BY RelaySays DEF First, Register
<1>9. In(<<Register>>) = {Register} /\ Chain(<<Register>>, NotFirst)
  BY <1>8, Single
<1>10. Unread'
  BY <1>1, <1>5 DEF QuietInv, Unread
<1>11. FirstIsFirst'
  <2> SUFFICES ASSUME NEW x \in Socket, x[1] = "phone" PROVE Chain(up'[x], NotFirst)
    BY DEF FirstIsFirst
  <2> QED
    BY <1>5, <1>9 DEF QuietInv, FirstIsFirst
<1>12. connector.link \in {"open", "dialing"} => up'[Dialled] = up[Dialled]
  BY <1>2, <1>5
<1>13. BridgeFaces' => BridgeFaces
  BY <1>1, <1>4, <1>12 DEF BridgeFaces
<1>14. Opening' => Opening
  BY <1>1, <1>4, <1>12 DEF Opening
<1>15. BeginsAfresh' /\ RegisteredFirst'
  BY <1>1, <1>14 DEF QuietInv, BeginsAfresh, RegisteredFirst
<1>16. OneAtATime'
  <2> SUFFICES ASSUME BridgeFaces', ~ carriedOver
               PROVE  /\ Apart(Committed, down["bridge"])
                      /\ Faced(Committed, down["bridge"]) =>
                           /\ \A s \in Socket : s[1] = "phone" => \A m \in In(up'[s]) : ~ First(m)
                           /\ peers["phone"] # None
    BY <1>1, <1>4, <1>6 DEF OneAtATime
  <2>1. /\ Apart(Committed, down["bridge"])
        /\ Faced(Committed, down["bridge"]) =>
             /\ \A s \in Socket : s[1] = "phone" => \A m \in In(up[s]) : ~ First(m)
             /\ peers["phone"] # None
    BY <1>13 DEF QuietInv, OneAtATime
  <2>2. \A m \in In(up'[Session]) : ~ First(m)
    BY <1>5, <1>8, <1>9
  <2> QED
    BY <1>5, <2>1, <2>2
<1>17. TunneledIsNew'
  <2> SUFFICES ASSUME connector.channel # None, connector.channel[1] = phone.n PROVE FALSE
    BY <1>1, <1>3 DEF TunneledIsNew
  <2>1. PICK s \in 0 .. MaxSessions : Agreed(connector, phone, PhoneSent, BridgeSent, s)
    BY DEF RelayInv
  <2>2. s \in Nat /\ phone.n \in Nat
    BY <1>2, <2>1, SocketIs DEF Phone
  <2>3. s < phone.n /\ connector.channel[1] = s
    BY <1>1, <2>1 DEF Agreed, Answered
  <2> QED
    BY <2>2, <2>3
<1> QED
  BY <1>7, <1>10, <1>11, <1>15, <1>16, <1>17 DEF QuietInv

-----------------------------------------------------------------------------
LEMMA QuietInvStarts ==
  ASSUME RelayInit
  PROVE  QuietInv
<1>1. /\ connector = undialled /\ phone = unbuilt /\ peers = [e \in End |-> None]
      /\ up = [s \in Socket |-> <<>>] /\ down = [e \in End |-> <<>>]
  BY DEF RelayInit
<1>2. connector.link = "none" /\ phone.phase = "idle"
  BY <1>1 DEF undialled, unbuilt
<1>3. \A R : Chain(<<>>, R)
  BY Emptied
<1>4. Unread /\ FirstIsFirst
  BY <1>1, <1>3 DEF Unread, FirstIsFirst
<1>5. RegisteredComes /\ GreetingIsOwed
  BY <1>2 DEF RegisteredComes, GreetingIsOwed, PhoneWaits
<1>6. OneAtATime /\ BeginsAfresh /\ RegisteredFirst /\ TunneledIsNew
  BY <1>2 DEF OneAtATime, BridgeFaces, BeginsAfresh, Opening, RegisteredFirst, TunneledIsNew
<1> QED
  BY <1>4, <1>5, <1>6 DEF QuietInv

LEMMA StepKeepsQuietInv ==
  ASSUME RelayInvHolds, QuietInv, RelayNext
  PROVE  QuietInv'
<1>1. RelayInv /\ Waiting /\ QuietInv
  BY DEF RelayInvHolds
<1>2. RelayTypeOK'
  BY <1>1, StepKeepsRelayInv DEF RelayInv
<1>3. ASSUME NEW s \in Socket, RelayReads(s) \/ ConnectionDies(s) PROVE QuietInv'
  BY <1>1, <1>3, RelayReadsQuiet, ConnectionDiesQuiet
<1>4. CASE ConnectorReads \/ ConnectorDials \/ ConnectorStops
  BY <1>1, <1>2, <1>4, ConnectorReadsQuiet, ConnectorDialsQuiet, ConnectorStopsQuiet
<1>5. CASE ConnectorSocketOpens \/ ConnectorSocketFails
  BY <1>1, <1>2, <1>5, ConnectorSocketOpensQuiet, ConnectorSocketFailsQuiet
<1>6. ASSUME NEW r \in backend, BackendAnswers(r) \/ SubscribeAnswered(r) PROVE QuietInv'
  BY <1>1, <1>2, <1>6, BackendAnswersQuiet, SubscribeAnsweredQuiet
<1>7. ASSUME NEW n \in connector.live, StreamGreets(n) \/ StreamEnds(n) PROVE QuietInv'
  BY <1>1, <1>2, <1>7, StreamGreetsQuiet, StreamEndsQuiet
<1>8. CASE PhoneReads \/ PhoneConnects \/ PhoneSocketOpens \/ PhoneSocketFails
  BY <1>1, <1>2, <1>8, PhoneReadsQuiet, PhoneConnectsQuiet, PhoneSocketOpensQuiet,
     PhoneSocketFailsQuiet
<1>9. CASE PhoneCloses \/ HandshakeTimeout \/ PhoneRequests \/ PhoneSubscribes
  BY <1>1, <1>2, <1>9, PhoneClosesQuiet, HandshakeTimeoutQuiet, PhoneRequestsQuiet,
     PhoneSubscribesQuiet
<1>10. ASSUME NEW id \in phone.pending, RequestTimesOut(id) PROVE QuietInv'
  BY <1>1, <1>2, <1>10, RequestTimesOutQuiet
<1> QED
  BY <1>3, <1>4, <1>5, <1>6, <1>7, <1>8, <1>9, <1>10 DEF RelayNext

LEMMA QuietInvStutters ==
  ASSUME QuietInv, UNCHANGED relayVars
  PROVE  QuietInv'
<1>1. /\ connector' = connector /\ phone' = phone /\ peers' = peers /\ open' = open /\ up' = up
      /\ down' = down /\ overQuota' = overQuota /\ carriedOver' = carriedOver
  BY DEF relayVars
<1>2. Dialled' = Dialled /\ Session' = Session /\ Live' = Live /\ Committed' = Committed
  BY <1>1 DEF Dialled, Session, Live, Committed
<1>3. BridgeFaces' = BridgeFaces /\ Opening' = Opening /\ PhoneWaits' = PhoneWaits
  BY <1>1, <1>2 DEF BridgeFaces, Opening, PhoneWaits
<1>4. Unread' /\ FirstIsFirst' /\ RegisteredComes'
  BY <1>1, <1>2 DEF QuietInv, Unread, FirstIsFirst, RegisteredComes
<1>5. GreetingIsOwed' /\ OneAtATime'
  BY <1>1, <1>2, <1>3 DEF QuietInv, GreetingIsOwed, OneAtATime
<1>6. BeginsAfresh' /\ RegisteredFirst' /\ TunneledIsNew'
  BY <1>1, <1>2, <1>3 DEF QuietInv, BeginsAfresh, RegisteredFirst, TunneledIsNew
<1> QED
  BY <1>4, <1>5, <1>6 DEF QuietInv

\* What brings a handshake on is always under way, as onControl and onSealHandshake of
\* connector.ts, onMessage of relay-transport.ts and the relay's notices (server.ts) have it:
\* the first frame of a session comes first, the connector answers one session at a time and
\* begins each socket afresh, and its answer is on its way to the phone that waits for it.
THEOREM QuietInvAlways == RelaySpec => []QuietInv
<1>1. RelayInvHolds /\ QuietInv /\ [RelayNext]_relayVars => QuietInv'
  BY StepKeepsQuietInv, QuietInvStutters
<1> QED
  BY <1>1, QuietInvStarts, RelayInvAlways, PTL DEF RelaySpec

LEMMA QuietMeansSealedThen ==
  ASSUME RelayInv, QuietInv
  PROVE  QuietMeansSealed
<1> SUFFICES ASSUME \A e \in End : down[e] = <<>>, \A s \in open : up[s] = <<>>,
                    peers["bridge"] = Dialled, Hears(Dialled),
                    peers["phone"] = Session, Hears(Session), ~ overQuota, ~ carriedOver
             PROVE  /\ phone.channel # None /\ connector.channel = phone.channel
                    /\ connector.state = "tunneled"
  BY DEF QuietMeansSealed
<1>1. RelayTypeOK /\ Sockets /\ Queues /\ Fresh /\ Paired
  BY DEF RelayInv
<1>2. PICK s \in 0 .. MaxSessions : Agreed(connector, phone, PhoneSent, BridgeSent, s)
  BY DEF RelayInv
<1>3. /\ down["phone"] = <<>> /\ down["bridge"] = <<>> /\ connector.link = "open"
      /\ connector \in Connector /\ phone \in Phone /\ phone.n \in Nat
  <2>1. down["phone"] = <<>> /\ down["bridge"] = <<>>
    BY EndIs
  <2>2. connector.link = "open"
    BY <1>1, OwnIs
  <2>3. connector \in Connector /\ phone \in Phone
    BY <1>1 DEF RelayTypeOK
  <2>4. phone.n \in Nat
    BY <2>3, SocketIs DEF Phone
  <2> QED
    BY <2>1, <2>2, <2>3, <2>4
<1>4. Live /\ Session \in Socket /\ Dialled \in Socket
  BY <1>1, <1>3, LiveIs, OwnIs
<1>5. \A x \in Socket : up[x] = <<>>
  BY DEF QuietInv, Unread
<1>6. In(<<>>) = {} /\ ~ Closing(<<>>)
  BY Emptied DEF Closing
<1>7. /\ BridgeFaces /\ NoEnds(down["phone"]) /\ ~ Closing(up[Session]) /\ ~ Closing(up[Dialled])
      /\ In(up[Session]) = {} /\ In(up[Dialled]) = {} /\ In(down["phone"]) = {} /\ In(down["bridge"]) = {}
  BY <1>3, <1>4, <1>5, <1>6 DEF BridgeFaces, NoEnds
\* The phone would read that it is registered, or its greeting would be answered.
<1>8. phone.phase # "registering"
  BY <1>7 DEF QuietInv, RegisteredComes
<1>9. phone.phase # "handshaking"
  BY <1>7 DEF QuietInv, GreetingIsOwed, PhoneWaits
<1>10. phone.channel = <<phone.n, phone.peerEphemeral>> /\ phone.channel # None /\ phone.signed
  <2>1. phone.phase = "sealed"
    BY <1>4, <1>8, <1>9 DEF Live
  <2> QED
    BY <1>2, <2>1 DEF Agreed, Theirs
<1>11. PhoneSent = {}
  BY <1>1, <1>3, <1>5, <1>6, OnTheirWay
<1>12. Mutual(connector, phone, PhoneSent, BridgeSent)
  BY <1>1, <1>3, <1>4, <1>7 DEF Paired, Facing
<1>13. phone.channel \in Said(phone, BridgeSent) /\ phone.channel[1] = phone.n
       /\ phone.channel[2] = phone.peerEphemeral
  BY <1>10 DEF Said
<1>14. connector.channel = phone.channel
  BY <1>10, <1>11, <1>12, <1>13 DEF Mutual
<1>15. connector.state = "tunneled"
  BY <1>3, <1>4, <1>7, <1>10, <1>13, <1>14 DEF QuietInv, TunneledIsNew
<1> QED
  BY <1>10, <1>14, <1>15

\* The handshake never stalls: two registered ends with nothing left to read hold one channel
\* and the connector shows its tunnel. Of the handshakes of connector.ts and
\* relay-transport.ts, through whatever notices and late frames server.ts hands them.
THEOREM QuietAlwaysMeansSealed == RelaySpec => []QuietMeansSealed
<1>1. RelayInvHolds /\ QuietInv => QuietMeansSealed
  BY QuietMeansSealedThen DEF RelayInvHolds
<1> QED
  BY <1>1, RelayInvAlways, QuietInvAlways, PTL

-----------------------------------------------------------------------------
\* Who waits.

IsRecord(m, kind) == m.type = "relay/data" /\ m.kind = kind
\* The two ends face each other and the phone is sealed: what it waits for it may still get.
Meets == Facing /\ phone.channel # None
\* What is on its way to the phone, and what is on its way from it.
Incoming == In(up[Dialled]) \cup In(down["phone"])
Outgoing == In(up[Session]) \cup In(down["bridge"])

\* A session greets before it sends records.
GreetedFirst == {x \in Msg \X Msg : x[1].type = "relay/data" /\ x[2].type = "relay/handshake"
                                      => Author(x[1]) # Author(x[2])}
RecordsLast ==
  /\ Chain(down["bridge"], GreetedFirst)
  /\ \A s \in Socket : s[1] = "phone" =>
       /\ Chain(up[s], GreetedFirst)
       /\ \A x \in In(down["bridge"]), y \in In(up[s]) : <<x, y>> \in GreetedFirst
\* The phone asks once it is sealed, each session for itself and for one stream.
Spoken ==
  \A m \in PhoneSent : m.type = "relay/data" =>
    /\ m.of = m.key[1] /\ m.kind \in {"request", "subscribe", "unsubscribe"}
    /\ m.of = phone.n => \/ phone.phase = "closed"
                         \/ phone.phase = "sealed" /\ (m.kind = "subscribe" => phone.sub # "none")
\* The bridge knows of no session and no stream that did not ask.
Known ==
  /\ \A r \in backend : /\ r.of <= phone.n
                        /\ r.of = phone.n =>
                             \/ phone.phase = "closed"
                             \/ phone.phase = "sealed" /\ (r.kind = "subscribe" => phone.sub # "none")
  /\ \A n \in connector.live \cup greeted :
       /\ n <= phone.n
       /\ n = phone.n => phone.phase = "closed" \/ (phone.phase = "sealed" /\ phone.sub # "none")
\* Who works for the session holds its channel.
Reached ==
  Meets /\ (phone.sub = "following" \/ phone.n \in connector.live \/ \E r \in backend : r.of = phone.n)
    => connector.channel = phone.channel
\* A hello on its way is of a stream that lives, or its end is on its way behind it.
Recalls(q, i) == \E j \in i + 1 .. Len(q) : IsRecord(q[j], "unsubscribed")
Held(q, key, live) ==
  \A i \in 1 .. Len(q) :
    IsRecord(q[i], "hello") /\ q[i].key = key => q[i].of \in live \/ Recalls(q, i)
HellosHold ==
  /\ connector.link = "open" /\ Dialled \in open /\ ~ Closing(up[Dialled]) =>
       Held(up[Dialled], connector.channel, connector.live)
  /\ Facing /\ ~ overQuota /\ (\A m \in In(up[Dialled]) : ~ IsRecord(m, "unsubscribed")) =>
       Held(down["phone"], connector.channel, connector.live)
\* What the phone waits for, in each of its states.
Followed ==
  Meets /\ ~ overQuota /\ phone.sub = "following" =>
    phone.hello \in connector.live \/ \E m \in Incoming : IsRecord(m, "unsubscribed")
Informs(m) == \/ IsRecord(m, "hello") \/ IsRecord(m, "unsubscribed")
              \/ IsRecord(m, "subscribe-failed") /\ m.id = phone.subId
Wanted(kind, id) ==
  LET r == Tunnel(kind, id, phone.n) IN Data(phone.channel, r) \in Outgoing \/ r \in backend
Awaited == phone.n \notin greeted /\ (Wanted("subscribe", phone.subId) \/ phone.n \in connector.live)
Replies(m, id) == IsRecord(m, "response") /\ m.id = id
Asked ==
  Meets /\ ~ overQuota /\ phone.sub = "asked" => (\E m \in Incoming : Informs(m)) \/ Awaited
Requested ==
  Meets /\ ~ overQuota =>
    \A id \in phone.pending : (\E m \in Incoming : Replies(m, id)) \/ Wanted("request", id)

WaitInv ==
  /\ RecordsLast /\ Spoken /\ Known /\ Reached /\ HellosHold /\ Followed /\ Asked /\ Requested

\* Hellos in a queue that is read from, and in one that is added to.
LEMMA HeldTail ==
  ASSUME NEW q \in Seq(Msg), q # <<>>, NEW k, NEW L, Held(q, k, L)
  PROVE  /\ Held(Tail(q), k, L)
         /\ IsRecord(Head(q), "hello") /\ Head(q).key = k =>
              Head(q).of \in L \/ \E g \in In(Tail(q)) : IsRecord(g, "unsubscribed")
<1> DEFINE t == Tail(q)
           n == Len(t)
<1>1. /\ n \in Nat /\ Len(q) = n + 1 /\ Head(q) = q[1]
      /\ \A i \in 1 .. n : t[i] = q[i + 1]
  <2>1. /\ Len(q) \in Nat \ {0} /\ Head(q) = q[1] /\ Len(Tail(q)) = Len(q) - 1
        /\ \A i \in 1 .. Len(Tail(q)) : Tail(q)[i] = q[i + 1]
    BY Headed
  <2> QED
    BY <2>1
<1> HIDE DEF t
<1>2. ASSUME NEW i \in 0 .. n, Recalls(q, i + 1)
      PROVE  \E j \in i + 1 .. n : IsRecord(t[j], "unsubscribed")
  <2>1. PICK j \in i + 1 + 1 .. n + 1 : IsRecord(q[j], "unsubscribed")
    BY <1>1, <1>2 DEF Recalls
  <2>2. j - 1 \in i + 1 .. n /\ j - 1 \in 1 .. n /\ (j - 1) + 1 = j
    BY <1>1, <2>1
  <2> QED
    BY <1>1, <2>1, <2>2
<1>3. Held(t, k, L)
  <2> SUFFICES ASSUME NEW i \in 1 .. n, IsRecord(t[i], "hello"), t[i].key = k, t[i].of \notin L
               PROVE  Recalls(t, i)
    BY DEF Held
  <2>1. i + 1 \in 1 .. Len(q) /\ t[i] = q[i + 1] /\ i \in 0 .. n
    BY <1>1
  <2>2. Recalls(q, i + 1)
    BY <2>1 DEF Held
  <2> QED
    BY <1>2, <2>1, <2>2 DEF Recalls
<1>4. ASSUME IsRecord(q[1], "hello"), q[1].key = k, q[1].of \notin L
      PROVE  \E g \in In(t) : IsRecord(g, "unsubscribed")
  <2>1. 1 \in 1 .. Len(q) /\ 0 \in 0 .. n /\ 0 + 1 = 1
    BY <1>1
  <2>2. Recalls(q, 0 + 1)
    BY <1>4, <2>1 DEF Held
  <2> QED
    BY <1>2, <2>1, <2>2 DEF In
<1> QED
  BY <1>1, <1>3, <1>4 DEF t

LEMMA HeldJoin ==
  ASSUME NEW q \in Seq(Msg), NEW r \in Seq(Msg), NEW k, NEW L, NEW M, Held(q, k, L),
         L \subseteq M \/ \E g \in In(r) : IsRecord(g, "unsubscribed"),
         \A g \in In(r) : IsRecord(g, "hello") /\ g.key = k => g.of \in M
  PROVE  Held(q \o r, k, M)
<1> DEFINE t == q \o r
<1>1. /\ Len(q) \in Nat /\ Len(r) \in Nat /\ Len(t) = Len(q) + Len(r)
      /\ \A i \in 1 .. Len(q) : t[i] = q[i]
      /\ \A i \in 1 .. Len(r) : t[Len(q) + i] = r[i]
  BY Joined
<1> HIDE DEF t
<1> SUFFICES ASSUME NEW i \in 1 .. Len(t), IsRecord(t[i], "hello"), t[i].key = k, t[i].of \notin M
             PROVE  Recalls(t, i)
  BY DEF Held, t
<1>2. i \in 1 .. Len(q)
  <2> SUFFICES ASSUME i \notin 1 .. Len(q) PROVE FALSE
    OBVIOUS
  <2>1. i - Len(q) \in 1 .. Len(r) /\ i = Len(q) + (i - Len(q))
    BY <1>1
  <2>2. t[i] = r[i - Len(q)]
    BY <1>1, <2>1
  <2> QED
    BY <2>1, <2>2 DEF In
<1>3. CASE L \subseteq M
  <2>1. Recalls(q, i)
    BY <1>1, <1>2, <1>3 DEF Held
  <2>2. PICK j \in i + 1 .. Len(q) : IsRecord(q[j], "unsubscribed")
    BY <2>1 DEF Recalls
  <2>3. j \in i + 1 .. Len(t) /\ t[j] = q[j]
    BY <1>1, <1>2, <2>2
  <2> QED
    BY <2>2, <2>3 DEF Recalls
<1>4. CASE \E g \in In(r) : IsRecord(g, "unsubscribed")
  <2>1. PICK j \in 1 .. Len(r) : IsRecord(r[j], "unsubscribed")
    BY <1>4 DEF In
  <2>2. Len(q) + j \in i + 1 .. Len(t) /\ t[Len(q) + j] = r[j]
    BY <1>1, <1>2, <2>1
  <2> QED
    BY <2>1, <2>2 DEF Recalls
<1> QED
  BY <1>3, <1>4

\* What ends every stream lets every hello before it go.
LEMMA HeldOver ==
  ASSUME NEW q \in Seq(Msg), NEW m \in Msg, IsRecord(m, "unsubscribed"), NEW k, NEW L
  PROVE  Held(q \o <<m>>, k, L)
<1>1. Held(q, k, Nat \cup {q[i].of : i \in 1 .. Len(q)})
  BY DEF Held
<1>2. <<m>> \in Seq(Msg) /\ In(<<m>>) = {m}
  BY Single
<1>3. ~ IsRecord(m, "hello")
  BY DEF IsRecord
<1> QED
  BY <1>1, <1>2, <1>3, HeldJoin

LEMMA NothingHeld ==
  ASSUME NEW q, NEW k, NEW L, \A g \in In(q) : ~ (IsRecord(g, "hello") /\ g.key = k)
  PROVE  Held(q, k, L)
BY DEF Held, In

\* Two ends that meet are registered and hear each other.
Meeting ==
  /\ Session \in Socket /\ Session \in open /\ Session[1] = "phone" /\ peers["phone"] = Session
  /\ Hears(Session) /\ Live /\ phone.phase = "sealed"
  /\ Dialled \in Socket /\ Dialled \in open /\ Dialled[1] = "bridge" /\ peers["bridge"] = Dialled
  /\ BridgeFaces /\ Hears(Dialled)
  /\ phone.n \in 1 .. MaxSessions /\ phone.channel \in Keys /\ phone.channel[1] = phone.n
  /\ phone.peerEphemeral = phone.channel[2] /\ phone.peerEphemeral # 0
  /\ PeerOffline \notin In(down["bridge"])
  /\ up[Session] \in Seq(Msg) /\ up[Dialled] \in Seq(Msg)
  /\ down["phone"] \in Seq(Msg) /\ down["bridge"] \in Seq(Msg)

LEMMA MeetsMeans == RelayInv /\ Meets => Meeting
<1> SUFFICES ASSUME RelayInv, Meets PROVE Meeting
  OBVIOUS
<1>1. RelayTypeOK /\ Sockets /\ Queues /\ PhoneTold
  BY DEF RelayInv
<1>2. PICK s \in 0 .. MaxSessions :
        Agreed(connector, phone, PhoneSent, BridgeSent, s) /\ Present(s)
  BY DEF RelayInv
<1>3. /\ Live /\ NoEnds(down["phone"]) /\ connector.link = "open" /\ peers["bridge"] = Dialled
      /\ ~ Closing(up[Dialled]) /\ BridgeFaces /\ phone.channel # None
  BY DEF Meets, Facing, BridgeFaces
<1>4. /\ phone.phase = "sealed" /\ phone.channel = <<phone.n, phone.peerEphemeral>> /\ phone.signed
      /\ phone.peerEphemeral # 0
  <2>1. Theirs(connector, phone)
    BY <1>2 DEF Agreed
  <2> QED
    BY <1>3, <2>1 DEF Theirs
<1>5. /\ up \in [Socket -> Seq(Msg)] /\ down["phone"] \in Seq(Msg) /\ down["bridge"] \in Seq(Msg)
      /\ phone \in Phone
  BY <1>1, EndIs DEF RelayTypeOK
<1>6. Session \in Socket /\ Hears(Session) /\ Session[1] = "phone"
  BY <1>1, <1>4, OwnIs
<1>7. Dialled \in Socket /\ Dialled \in open /\ Hears(Dialled) /\ Dialled[1] = "bridge"
  BY <1>1, <1>3, FacingIs, OwnIs
<1>8. Session \in open /\ peers["phone"] = Session
  <2>1. closed \notin In(down["phone"])
    BY <1>3, NoticesDiffer DEF NoEnds
  <2> QED
    BY <1>1, <1>3, <1>4, <2>1 DEF PhoneTold
<1>9. phone.n \in 1 .. MaxSessions
  BY <1>6, SocketIs DEF Session
<1>10. PeerOffline \notin In(down["bridge"])
  <2>1. s = phone.n
    BY <1>2, <1>3 DEF Agreed, Answered
  <2> QED
    BY <1>2, <1>3, <1>8, <2>1 DEF Present
<1>11. phone.channel \in Keys /\ phone.channel[1] = phone.n /\ phone.channel[2] = phone.peerEphemeral
  <2>1. phone.channel \in Keys \cup {None}
    BY <1>5 DEF Phone
  <2>2. phone.channel[1] = phone.n /\ phone.channel[2] = phone.peerEphemeral
    BY <1>4
  <2> QED
    BY <1>3, <2>1, <2>2
<1> QED
  BY <1>3, <1>4, <1>5, <1>6, <1>7, <1>8, <1>9, <1>10, <1>11 DEF Meeting

\* The frames of the phone that are still unread are those on its own socket and in the
\* connector's inbox.
LEMMA OnlyItsOwn ==
  ASSUME RelayInv, Meets
  PROVE  PhoneSent = {m \in Outgoing : Frame(m)}
<1>1. Meeting /\ RelayTypeOK /\ Queues
  BY MeetsMeans DEF RelayInv
<1>2. \A g : g \in PhoneSent <=>
            Frame(g) /\ (g \in In(down["bridge"]) \/ \E x \in Socket : x[1] = "phone" /\ g \in In(up[x]))
  BY <1>1, OnTheirWay
<1>3. ASSUME NEW x \in Socket, x[1] = "phone", NEW g \in In(up[x]), Frame(g) PROVE x = Session
  BY <1>1, <1>3 DEF Queues, Meeting
<1> QED
  BY <1>1, <1>2, <1>3 DEF Meeting, Outgoing

\* Two ends that meet hold one channel, or the signature that gives it is on its way.
LEMMA SharedOrSoon ==
  ASSUME RelayInv, Meets
  PROVE  \/ connector.channel = phone.channel
         \/ /\ connector.handshake = phone.channel[2] /\ connector.handshake # 0
            /\ connector.channel = None /\ Handshake(phone.n, phone.channel) \in Outgoing
<1>1. Meeting /\ RelayTypeOK /\ Paired
  BY MeetsMeans DEF RelayInv
<1>2. Mutual(connector, phone, PhoneSent, BridgeSent) /\ phone.channel # None
  BY <1>1 DEF Paired, Meets
<1>3. PICK s \in 0 .. MaxSessions : Agreed(connector, phone, PhoneSent, BridgeSent, s)
  BY DEF RelayInv
<1>4. Ours(connector, phone, BridgeSent) /\ Theirs(connector, phone)
  BY <1>3 DEF Agreed
<1>5. phone \in Phone /\ BridgeSent \in SUBSET Frames
  BY <1>1, OnTheirWay DEF RelayTypeOK
<1>6. phone.channel \in Said(phone, BridgeSent)
  BY <1>2, <1>5, SaidIs
<1>7. connector.channel = phone.channel \/ connector.handshake = phone.channel[2]
  BY <1>1, <1>2, <1>6 DEF Mutual, Meeting
<1>8. ASSUME connector.handshake = phone.channel[2]
      PROVE  Handshake(phone.n, phone.channel) \in Outgoing /\ connector.channel = None
  <2>1. phone.channel = <<phone.n, phone.peerEphemeral>> /\ phone.signed
    BY <1>2, <1>4 DEF Theirs
  <2>2. Handshake(phone.n, phone.channel) \in PhoneSent
    BY <1>1, <1>2, <1>8, <2>1 DEF Mutual, Meeting
  <2> QED
    BY <1>1, <1>4, <1>8, <2>2, OnlyItsOwn DEF Ours, Meeting
<1> QED
  BY <1>1, <1>7, <1>8 DEF Meeting

\* A bridge that has sealed for the phone's channel holds it.
LEMMA SealerHolds ==
  ASSUME RelayInv, Meets, NEW m \in BridgeSent, m.type = "relay/data", m.key = phone.channel
  PROVE  connector.channel = phone.channel
<1>1. Meeting /\ RelayTypeOK
  BY MeetsMeans DEF RelayInv
<1>2. PICK s \in 0 .. MaxSessions : Agreed(connector, phone, PhoneSent, BridgeSent, s)
  BY DEF RelayInv
<1>3. Ours(connector, phone, BridgeSent)
  BY <1>2 DEF Agreed
<1>4. m \in Records(BridgeSent)
  BY DEF Records
<1>5. phone.channel[2] \in Nat
  BY <1>1, KeyIsPair DEF Meeting
<1>6. ASSUME connector.handshake = phone.channel[2], connector.handshake # 0 PROVE FALSE
  <2>1. m.key[2] < connector.ephemerals /\ connector.handshake = connector.ephemerals
    BY <1>3, <1>4, <1>6 DEF Ours
  <2> QED
    BY <1>5, <1>6, <2>1
<1> QED
  BY <1>6, SharedOrSoon

\* A record that the connector reads from a phone it meets is for the channel of both.
LEMMA RecordFindsItsKey ==
  ASSUME RelayInv, RecordsLast, Meets, down["bridge"] # <<>>, Head(down["bridge"]).type = "relay/data"
  PROVE  /\ Head(down["bridge"]).key = phone.channel /\ connector.channel = phone.channel
         /\ Head(down["bridge"]) \in PhoneSent
<1> DEFINE m == Head(down["bridge"])
           h == Handshake(phone.n, phone.channel)
<1>1. Meeting /\ RelayTypeOK /\ HonestRecordsOpen
  BY MeetsMeans, HonestRecordsOpenThen DEF RelayInv
<1>2. PICK s \in 0 .. MaxSessions : Agreed(connector, phone, PhoneSent, BridgeSent, s)
  BY DEF RelayInv
<1>3. PhoneSent \in SUBSET Frames /\ PhoneSent = {x \in Outgoing : Frame(x)}
  BY <1>1, OnTheirWay, OnlyItsOwn
<1>4. m \in In(down["bridge"]) /\ In(down["bridge"]) = {m} \cup In(Tail(down["bridge"]))
  BY <1>1, Headed DEF Meeting
<1>5. m \in PhoneSent /\ m \in Records(PhoneSent)
  BY <1>3, <1>4 DEF Outgoing, Frame, Records
<1>6. connector.channel # None => m.key = connector.channel
  BY <1>1, EndIs DEF HonestRecordsOpen
<1>7. Author(m) = phone.n
  <2>1. s = phone.n /\ Author(m) >= s /\ m.key[1] <= s
    BY <1>2, <1>5 DEF Agreed, Answered, Meets
  <2>2. Author(m) = m.key[1] /\ m.key \in Keys
    BY <1>3, <1>5, FramesAre
  <2>3. m.key[1] \in Nat /\ phone.n \in Nat
    BY <1>1, <2>2, KeyIsPair DEF Meeting
  <2> HIDE DEF m
  <2> QED
    BY <2>1, <2>2, <2>3
<1>8. ASSUME h \in Outgoing PROVE FALSE
  <2>1. h.type = "relay/handshake" /\ Author(h) = phone.n
    BY <1>1, GreetingIs DEF Meeting
  <2>2. CASE h \in In(up[Session])
    <3>1. <<m, h>> \in GreetedFirst
      BY <1>1, <1>4, <2>2 DEF RecordsLast, Meeting
    <3> QED
      BY <1>7, <2>1, <3>1 DEF GreetedFirst
  <2>3. CASE h \in In(down["bridge"])
    <3>1. h # m
      BY <2>1
    <3>2. Chain(down["bridge"], GreetedFirst) /\ h \in In(Tail(down["bridge"]))
      BY <1>4, <2>3, <3>1 DEF RecordsLast
    <3> HIDE DEF h
    <3>3. <<m, h>> \in GreetedFirst
      BY <1>1, <3>2, Headed DEF Meeting
    <3> QED
      BY <1>7, <2>1, <3>3 DEF GreetedFirst
  <2> QED
    BY <1>8, <2>2, <2>3 DEF Outgoing
<1>9. connector.channel = phone.channel
  BY <1>8, SharedOrSoon
<1>10. phone.channel # None
  BY DEF Meets
<1> QED
  BY <1>5, <1>6, <1>9, <1>10

-----------------------------------------------------------------------------
\* The relay, and who waits.

LEMMA GreetsFirst ==
  /\ \A x \in Msg, y \in Msg : ~ Frame(x) \/ ~ Frame(y) => <<x, y>> \in GreetedFirst
  /\ \A x \in Msg, y \in Msg : x.type # "relay/data" \/ y.type # "relay/handshake" => <<x, y>> \in GreetedFirst
  /\ \A x \in Msg, y \in Msg : Author(x) # Author(y) => <<x, y>> \in GreetedFirst
BY DEF GreetedFirst, Frame

\* The relay reads the head of a queue, or closes it, and hands frames on as they come.
LEMMA RelayKeepsOrder ==
  ASSUME RelayInv, RecordsLast, NEW s \in open, up[s] # <<>>, NEW q \in {Tail(up[s]), <<>>},
         up' = [up EXCEPT ![s] = q], NEW ms \in Seq(Msg), NEW ns \in Seq(Msg),
         down' = Delivered(s, ms, ns), connector' = connector, \A g \in In(ms) : ~ Frame(g),
         \/ ns = <<Head(up[s])>> /\ q = Tail(up[s])
         \/ \A g \in In(ns) : ~ Frame(g)
  PROVE  RecordsLast'
<1> DEFINE R == GreetedFirst
           h == Head(up[s])
<1>1. /\ RelayTypeOK /\ Queues /\ up \in [Socket -> Seq(Msg)] /\ down["bridge"] \in Seq(Msg)
  BY EndIs DEF RelayInv, RelayTypeOK
<1>2. /\ s \in Socket /\ up[s] \in Seq(Msg) /\ h \in Msg
      /\ \A x \in Socket : In(up'[x]) \subseteq In(up[x]) /\ (x # s => up'[x] = up[x])
  BY LeftToRead
<1>3. q \in Seq(Msg) /\ up'[s] = q /\ h \in In(up[s])
  <2>1. Tail(up[s]) \in Seq(Msg) /\ h \in In(up[s])
    BY <1>2, Headed
  <2>2. q \in Seq(Msg)
    BY <2>1, Emptied
  <2> QED
    BY <1>1, <1>2, <2>1, <2>2
<1>4. /\ Chain(down["bridge"], R)
      /\ \A x \in Socket : x[1] = "phone" =>
           /\ Chain(up[x], R)
           /\ \A y \in In(down["bridge"]), z \in In(up[x]) : <<y, z>> \in R
  BY DEF RecordsLast
<1>5. \A x \in Socket : \A g \in In(up[x]) : g \in Msg
  BY <1>1 DEF In
<1>6. \A g \in In(down["bridge"]) \cup In(ms) \cup In(ns) : g \in Msg
  BY <1>1 DEF In
<1>7. s[1] = "phone" => Chain(q, R) /\ (q = Tail(up[s]) => \A m \in In(q) : <<h, m>> \in R)
  <2> SUFFICES ASSUME s[1] = "phone" PROVE Chain(q, R) /\ (q = Tail(up[s]) => \A m \in In(q) : <<h, m>> \in R)
    OBVIOUS
  <2>1. Chain(up[s], R)
    BY <1>2, <1>4
  <2> HIDE DEF R
  <2>2. Chain(Tail(up[s]), R) /\ \A m \in In(Tail(up[s])) : <<h, m>> \in R
    BY <1>2, <2>1, Headed
  <2>3. Chain(<<>>, R)
    BY Emptied
  <2> QED
    BY <2>2, <2>3
<1>8. ASSUME \A g \in In(ns) : ~ Frame(g) PROVE Chain(ns, R)
  BY <1>6, <1>8, GreetsFirst DEF Chain, In
<1>9. Chain(ms, R)
  BY <1>6, GreetsFirst DEF Chain, In
<1>10. In(<<h>>) = {h} /\ Chain(<<h>>, R)
  BY <1>2, Single
<1> HIDE DEF h
<1>11. \A y \in In(down["bridge"]), z \in In(ms) : <<y, z>> \in R
  BY <1>6, GreetsFirst
<1>12. s[1] = "phone" => Chain(ns, R) /\ \A y \in In(down["bridge"]), z \in In(ns) : <<y, z>> \in R
  <2>1. CASE \A g \in In(ns) : ~ Frame(g)
    BY <1>6, <1>8, <2>1, GreetsFirst
  <2>2. CASE ns = <<h>>
    BY <1>2, <1>3, <1>4, <1>10, <2>2
  <2> QED
    BY <2>1, <2>2 DEF h
<1>13. Chain(down'["bridge"], R)
  BY <1>1, <1>2, <1>4, <1>9, <1>11, <1>12, InboxesAre
<1>14. \A g \in In(down'["bridge"]) :
         g \in In(down["bridge"]) \/ (g \in Msg /\ ~ Frame(g)) \/ (s[1] = "phone" /\ q = Tail(up[s]) /\ g = h)
  <2>1. In(down'["bridge"]) \subseteq In(down["bridge"]) \cup
              (IF s = Dialled THEN In(ms)
               ELSE IF s[1] = "phone" /\ peers["bridge"] = Dialled THEN In(ns) ELSE {})
    BY <1>1, <1>2, InboxesAre
  <2> QED
    BY <1>6, <1>10, <2>1 DEF h
<1>15. ASSUME NEW x \in Socket, x[1] = "phone"
       PROVE  /\ Chain(up'[x], R)
              /\ \A y \in In(down'["bridge"]), z \in In(up'[x]) : <<y, z>> \in R
  <2>1. Chain(up'[x], R)
    BY <1>2, <1>3, <1>4, <1>7, <1>15
  <2>2. ASSUME NEW y \in In(down'["bridge"]), NEW z \in In(up'[x]) PROVE <<y, z>> \in R
    <3>1. z \in In(up[x]) /\ z \in Msg
      BY <1>2, <1>5
    <3>2. CASE y \in In(down["bridge"])
      BY <1>4, <1>15, <3>1, <3>2
    <3>3. CASE y \in Msg /\ ~ Frame(y)
      BY <3>1, <3>3, GreetsFirst
    <3>4. CASE s[1] = "phone" /\ q = Tail(up[s]) /\ y = h
      <4>1. CASE x = s
        BY <1>3, <1>7, <2>2, <3>4, <4>1
      <4>2. CASE x # s /\ Frame(y) /\ Frame(z)
        <5>1. peers["phone"] = x /\ peers["phone"] = s
          BY <1>2, <1>3, <1>15, <3>1, <3>4, <4>2, SentByPhone
        <5> QED
          BY <4>2, <5>1
      <4>3. CASE ~ Frame(y) \/ ~ Frame(z)
        BY <1>2, <3>1, <3>4, <4>3, GreetsFirst
      <4> QED
        BY <4>1, <4>2, <4>3
    <3> QED
      BY <1>14, <3>2, <3>3, <3>4
  <2> QED
    BY <2>1, <2>2
<1> QED
  BY <1>13, <1>15 DEF RecordsLast

\* What the phone has sent is not more than before.
LEMMA RelayAddsNoFrame ==
  ASSUME RelayInv, RelayTypeOK', NEW s \in open, up[s] # <<>>, NEW q \in {Tail(up[s]), <<>>},
         up' = [up EXCEPT ![s] = q], NEW ms \in Seq(Msg), NEW ns \in Seq(Msg),
         down' = Delivered(s, ms, ns), \A g \in In(ms) : ~ Frame(g),
         ns = <<Head(up[s])>> \/ \A g \in In(ns) : ~ Frame(g)
  PROVE  PhoneSent' \subseteq PhoneSent
<1>1. RelayTypeOK
  BY DEF RelayInv
<1>2. /\ s \in Socket /\ up[s] \in Seq(Msg) /\ Head(up[s]) \in Msg
      /\ \A x \in Socket : In(up'[x]) \subseteq In(up[x])
  BY LeftToRead
<1>3. Head(up[s]) \in In(up[s]) /\ In(<<Head(up[s])>>) = {Head(up[s])}
  BY <1>2, Headed, Single
<1>4. In(down'["bridge"]) \subseteq In(down["bridge"]) \cup
              (IF s = Dialled THEN In(ms)
               ELSE IF s[1] = "phone" /\ peers["bridge"] = Dialled THEN In(ns) ELSE {})
  BY <1>1, <1>2, InboxesAre
<1>5. ASSUME NEW g \in PhoneSent' PROVE g \in PhoneSent
  <2>1. Frame(g) /\ (g \in In(down'["bridge"]) \/ \E x \in Socket : x[1] = "phone" /\ g \in In(up'[x]))
    BY OnTheirWayNext
  <2>2. g \in In(down["bridge"]) \/ \E x \in Socket : x[1] = "phone" /\ g \in In(up[x])
    BY <1>2, <1>3, <1>4, <2>1
  <2> QED
    BY <1>1, <2>1, <2>2, OnTheirWay
<1> QED
  BY <1>5

\* Who waits, when the two ends do nothing and nothing of theirs is lost.
LEMMA RelayKeepsWait ==
  ASSUME RelayInv, RelayInv', WaitInv, connector' = connector, phone' = phone, backend' = backend,
         greeted' = greeted, RecordsLast', HellosHold', PhoneSent' \subseteq PhoneSent,
         Meets' => Meets,
         Meets' /\ ~ overQuota' =>
           /\ ~ overQuota
           /\ \A g \in Outgoing : Frame(g) => g \in Outgoing'
           /\ \A g \in Incoming : Frame(g) => g \in Incoming'
  PROVE  WaitInv'
<1>1. Spoken /\ Known /\ Reached /\ Followed /\ Asked /\ Requested
  BY DEF WaitInv
<1>2. Spoken' /\ Known' /\ Reached'
  BY <1>1 DEF Spoken, Known, Reached
<1>3. \A m, k : IsRecord(m, k) => Frame(m)
  BY DEF IsRecord, Frame
<1>4. \A m : Informs(m) => Frame(m)
  BY <1>3 DEF Informs
<1>5. \A k, i, n : Frame(Data(phone.channel, Tunnel(k, i, n)))
  BY DEF Data, Frame
<1>6. \A m : Informs(m)' <=> Informs(m)
  BY DEF Informs
<1>7. Followed'
  BY <1>1, <1>3 DEF Followed
<1>8. ASSUME Meets', ~ overQuota' PROVE \A k, i : Wanted(k, i) => Wanted(k, i)'
  BY <1>5, <1>8 DEF Wanted
<1>9. Asked'
  <2> SUFFICES ASSUME Meets', ~ overQuota', phone.sub = "asked"
               PROVE  (\E m \in Incoming' : Informs(m)) \/ Awaited'
    BY <1>6 DEF Asked, Informs
  <2> QED
    BY <1>1, <1>4, <1>8 DEF Asked, Awaited
<1>10. Requested'
  <2> SUFFICES ASSUME Meets', ~ overQuota', NEW id \in phone.pending
               PROVE  (\E m \in Incoming' : Replies(m, id)) \/ Wanted("request", id)'
    BY DEF Requested, Replies
  <2> QED
    BY <1>1, <1>3, <1>8 DEF Requested, Replies
<1> QED
  BY <1>2, <1>7, <1>9, <1>10 DEF WaitInv

\* A phone that its relay has not registered has read and been sent nothing.
LEMMA Unheard ==
  ASSUME RelayInv, Live, NoEnds(down["phone"]), peers["phone"] # Session \/ peers["bridge"] = None
  PROVE  phone.peerEphemeral = 0 /\ phone.channel = None /\ \A m \in In(down["phone"]) : ~ Frame(m)
<1>1. RelayTypeOK /\ PhoneTold /\ Fresh
  BY DEF RelayInv
<1>2. PICK s \in 0 .. MaxSessions : Agreed(connector, phone, PhoneSent, BridgeSent, s)
  BY DEF RelayInv
<1>3. Theirs(connector, phone)
  BY <1>2 DEF Agreed
<1>4. CASE peers["phone"] = Session
  BY <1>1, <1>3, <1>4 DEF Fresh, Theirs
<1>5. CASE peers["phone"] # Session
  <2>1. closed \notin In(down["phone"])
    BY NoticesDiffer DEF NoEnds
  <2>2. phone.phase = "registering" /\ In(down["phone"]) = {}
    BY <1>1, <1>5, <2>1 DEF PhoneTold
  <2> QED
    BY <1>3, <2>2 DEF Theirs
<1> QED
  BY <1>4, <1>5

\* What the relay adds to the inbox of a phone that it hears.
LEMMA PhoneIsHanded ==
  ASSUME RelayTypeOK, Hears(Session), NoEnds(down["phone"]), NEW s \in Socket, NEW ms \in Seq(Msg),
         NEW ns \in Seq(Msg), down' = Delivered(s, ms, ns)
  PROVE  \E r \in Seq(Msg) :
           /\ down'["phone"] = down["phone"] \o r
           /\ r = IF s = Session THEN ms
                  ELSE IF s[1] = "bridge" /\ peers["phone"] = Session THEN ns ELSE <<>>
<1>1. "phone" \in End /\ Own("phone") = Session /\ down["phone"] \in Seq(Msg) /\ Session[1] = "phone"
  BY OwnIs, EndIs DEF RelayTypeOK
<1>2. ~ Closing(down["phone"])
  BY <1>1, ClosingIs, NoticesDiffer DEF NoEnds
<1>3. \A ks \in Seq(Msg) : Heard("phone", ks) = down["phone"] \o ks
  BY <1>1, <1>2, HeardIs
<1>4. <<>> \in Seq(Msg) /\ down["phone"] \o <<>> = down["phone"]
  BY <1>1, Emptied, ConcatEmptySeq
<1>5. s[1] \in {"bridge", "phone"}
  BY SocketIs, EndIs
<1>6. /\ s = Session => down'["phone"] = Heard("phone", ms)
      /\ s[1] = "phone" /\ s # Session => down'["phone"] = down["phone"]
      /\ s[1] = "bridge" => down'["phone"] = IF peers["phone"] = Session
                                             THEN Heard("phone", ns) ELSE down["phone"]
  BY ToPhone
<1>7. CASE s = Session
  BY <1>1, <1>3, <1>6, <1>7
<1>8. CASE s # Session /\ s[1] = "bridge" /\ peers["phone"] = Session
  BY <1>3, <1>6, <1>8
<1>9. CASE s # Session /\ ~ (s[1] = "bridge" /\ peers["phone"] = Session)
  BY <1>4, <1>5, <1>6, <1>9
<1> QED
  BY <1>7, <1>8, <1>9

\* A queue that is added to, under the name it has afterwards.
LEMMA Added ==
  ASSUME NEW q \in Seq(Msg), NEW r \in Seq(Msg), NEW t, t = q \o r
  PROVE  /\ In(t) = In(q) \cup In(r)
         /\ \A m \in Msg : r = <<m>> /\ IsRecord(m, "unsubscribed") => \A k, L : Held(t, k, L)
<1>1. In(t) = In(q) \cup In(r)
  BY JoinedIn
<1>2. ASSUME NEW m \in Msg, r = <<m>>, IsRecord(m, "unsubscribed"), NEW k, NEW L PROVE Held(t, k, L)
  BY <1>2, HeldOver
<1> QED
  BY <1>1, <1>2

LEMMA HeldLonger ==
  ASSUME NEW q \in Seq(Msg), NEW r \in Seq(Msg), NEW k, NEW L, Held(q, k, L),
         \A g \in In(r) : IsRecord(g, "hello") /\ g.key = k => g.of \in L
  PROVE  Held(q \o r, k, L)
BY HeldJoin

\* The relay reads a message: it hands a frame on, or says why not, or tells of who comes and goes.
LEMMA RelayTakesWait ==
  ASSUME RelayInv, RelayInv', WaitInv, NEW s \in open, up[s] # <<>>, NEW q \in {Tail(up[s]), <<>>},
         up' = [up EXCEPT ![s] = q], NEW ms \in Seq(Msg), NEW ns \in Seq(Msg),
         down' = Delivered(s, ms, ns), connector' = connector, phone' = phone, backend' = backend,
         greeted' = greeted, overQuota => overQuota', \A g \in In(ms) : ~ Frame(g),
         ns = <<Head(up[s])>> \/ \A g \in In(ns) : ~ Frame(g),
         \/ q = Tail(up[s]) /\ Head(up[s]) # closed /\ open' = open
         \/ q = <<>> /\ open' = open \ {s} /\ \A g \in In(ns) : ~ Frame(g),
         peers["bridge"] # None => peers'["bridge"] \in {peers["bridge"], None},
         peers'["bridge"] = Dialled => peers["bridge"] \in {Dialled, None},
         Frame(Head(up[s])) /\ q = Tail(up[s]) =>
           \/ ns = <<Head(up[s])>>
           \/ /\ \E g \in In(ms) : Ends(g)
              /\ s[1] = "bridge" => overQuota' \/ peers["phone"] = None
  PROVE  WaitInv'
<1> DEFINE h == Head(up[s])
<1>1. /\ RelayTypeOK /\ Queues /\ PhoneTold /\ RelayTypeOK' /\ HellosHold /\ RecordsLast
      /\ Dialled' = Dialled /\ Session' = Session /\ Live' = Live
      /\ down["phone"] \in Seq(Msg) /\ down["bridge"] \in Seq(Msg)
  BY Standing, EndIs DEF RelayInv, WaitInv, RelayTypeOK
<1>2. /\ s \in Socket /\ up[s] \in Seq(Msg) /\ h \in Msg
      /\ \A x \in Socket : In(up'[x]) \subseteq In(up[x]) /\ (x # s => up'[x] = up[x])
      /\ q = Tail(up[s]) => In(up[s]) = {h} \cup In(up'[s])
      /\ h # closed /\ q = Tail(up[s]) /\ Closing(up[s]) => Closing(up'[s])
  BY LeftToRead
<1>3. up'[s] = q /\ In(<<h>>) = {h}
  BY <1>1, <1>2, Single DEF RelayTypeOK
<1>4. In(down["phone"]) \subseteq In(down'["phone"]) /\ In(down["bridge"]) \subseteq In(down'["bridge"])
  BY <1>1, <1>2, InboxesAre
<1>5. RecordsLast'
  BY <1>1, RelayKeepsOrder
<1>6. PhoneSent' \subseteq PhoneSent
  BY <1>1, RelayAddsNoFrame
<1>7. s \notin open' \/ (q = Tail(up[s]) /\ h # closed)
  OBVIOUS
<1> HIDE DEF h
\* While they are in each other's sight, both sockets are open and none was closing.
<1>8. ASSUME Facing'
      PROVE  /\ Live /\ Hears(Session) /\ connector.link = "open" /\ Dialled \in open' /\ Dialled \in Socket
             /\ NoEnds(down'["phone"]) /\ NoEnds(down["phone"]) /\ ~ Closing(up[Dialled])
             /\ ~ Closing(up[Session]) /\ Session \in Socket /\ Session \in open'
             /\ s \in {Dialled, Session} => q = Tail(up[s]) /\ h # closed
             /\ peers["bridge"] \in {Dialled, None} /\ Dialled[1] = "bridge" /\ Session[1] = "phone"
  <2>1. /\ Live /\ ~ Closing(up'[Session]) /\ NoEnds(down'["phone"]) /\ connector.link = "open"
        /\ peers'["bridge"] = Dialled /\ ~ Closing(up'[Dialled])
    BY <1>1, <1>8 DEF Facing
  <2>2. Session \in Socket /\ Hears(Session) /\ Dialled[1] = "bridge" /\ Session[1] = "phone"
    BY <1>1, <2>1, LiveIs, OwnIs
  <2>3. closed \notin In(down'["phone"])
    BY <2>1, NoticesDiffer DEF NoEnds
  <2>4. Session \in open'
    BY <1>1, <2>1, <2>3 DEF RelayInv, PhoneTold
  <2>5. Dialled \in open' /\ Dialled \in Socket
    <3>1. Sockets' /\ open' \subseteq Socket
      BY <1>1 DEF RelayInv, RelayTypeOK
    <3>2. Dialled # None
      BY SocketIs DEF Dialled
    <3> QED
      BY <2>1, <3>1, <3>2, EndIs DEF Sockets
  <2>6. NoEnds(down["phone"])
    BY <1>4, <2>1 DEF NoEnds
  <2>7. s \in {Dialled, Session} => q = Tail(up[s]) /\ h # closed
    BY <1>7, <2>4, <2>5
  <2>8. ~ Closing(up[Dialled]) /\ ~ Closing(up[Session])
    BY <1>2, <2>1, <2>2, <2>5, <2>7
  <2> QED
    BY <2>1, <2>2, <2>4, <2>5, <2>6, <2>7, <2>8
<1>9. ASSUME Meets' PROVE Meets /\ Meeting
  <2>1. Facing' /\ phone.channel # None
    BY <1>9 DEF Meets
  <2>2. peers["bridge"] # None
    BY <1>8, <2>1, Unheard
  <2>3. Meets
    BY <1>8, <2>1, <2>2 DEF Meets, Facing
  <2> QED
    BY <2>3, MeetsMeans
<1>10. ASSUME Meets' PROVE \A g \in Outgoing : Frame(g) => g \in Outgoing'
  <2>1. Meets /\ Meeting /\ Facing'
    BY <1>9, <1>10 DEF Meets
  <2> SUFFICES ASSUME NEW g \in In(up[Session]), Frame(g)
               PROVE  g \in In(up'[Session]) \cup In(down'["bridge"])
    BY <1>1, <1>4 DEF Outgoing
  <2>2. CASE s # Session \/ g # h
    BY <1>2, <1>8, <2>1, <2>2
  <2>3. CASE s = Session /\ g = h
    <3>1. q = Tail(up[s])
      BY <1>8, <2>1, <2>3
    <3>2. CASE ns = <<h>>
      <4>1. down'["bridge"] = down["bridge"] \o ns
        BY <1>2, <2>1, <2>3, <1>8, ReachesBridge DEF Meeting
      <4> QED
        <5>1. ns \in Seq(Msg) /\ In(ns) = {h} /\ down["bridge"] \in Seq(Msg)
          BY <1>1, <1>3, <3>2
        <5>2. In(down'["bridge"]) = In(down["bridge"]) \cup In(ns)
          BY ONLY <4>1, <5>1, Added
        <5> QED
          BY <2>3, <5>1, <5>2
    <3>3. CASE \E e \in In(ms) : Ends(e)
      <4>1. closed \in In(down'["phone"]) \/ In(down'["phone"]) = In(down["phone"]) \cup In(ms)
        BY <1>2, <1>8, <2>1, <2>3, ReachesPhone
      <4> QED
        BY <1>8, <2>1, <3>3, <4>1, NoticesDiffer DEF NoEnds
    <3> QED
      BY <2>3, <3>1, <3>2, <3>3 DEF h
  <2> QED
    BY <2>2, <2>3
<1>11. ASSUME Facing', ~ overQuota', peers["phone"] = Session, s = Dialled, Frame(h)
       PROVE  down'["phone"] = down["phone"] \o <<h>>
  <2>1. q = Tail(up[s]) /\ Hears(Session) /\ NoEnds(down["phone"]) /\ Session \in Socket
    BY <1>8, <1>11
  <2>2. peers["phone"] # None /\ s[1] = "bridge" /\ s # Session
    BY <1>8, <1>11, <2>1, SocketIs
  <2>3. ns = <<h>>
    BY <1>11, <2>1, <2>2 DEF h
  <2>4. PICK r \in Seq(Msg) :
          /\ down'["phone"] = down["phone"] \o r
          /\ r = IF s = Session THEN ms
                 ELSE IF s[1] = "bridge" /\ peers["phone"] = Session THEN ns ELSE <<>>
    BY <1>1, <1>2, <2>1, PhoneIsHanded
  <2> QED
    BY <1>11, <2>2, <2>3, <2>4
<1>12. ASSUME Meets', ~ overQuota' PROVE \A g \in Incoming : Frame(g) => g \in Incoming'
  <2>1. Meets /\ Meeting /\ Facing'
    BY <1>9, <1>12 DEF Meets
  <2> SUFFICES ASSUME NEW g \in In(up[Dialled]), Frame(g)
               PROVE  g \in In(up'[Dialled]) \cup In(down'["phone"])
    BY <1>1, <1>4 DEF Incoming
  <2>2. CASE s # Dialled \/ g # h
    BY <1>2, <1>8, <2>1, <2>2
  <2>3. CASE s = Dialled /\ g = h
    <3>1. down'["phone"] = down["phone"] \o <<h>>
      BY <1>11, <1>12, <2>1, <2>3 DEF Meeting
    <3>2. <<h>> \in Seq(Msg)
      BY <1>2
    <3>3. In(down'["phone"]) = In(down["phone"]) \cup In(<<h>>)
      <4>1. down["phone"] \in Seq(Msg)
        BY <1>1
      <4> QED
        BY ONLY <3>1, <3>2, <4>1, Added
    <3> QED
      BY <1>3, <2>3, <3>3
  <2> QED
    BY <2>2, <2>3
<1> DEFINE k == connector.channel
           L == connector.live
\* The hellos that the relay has yet to read.
<1>13. connector.link = "open" /\ Dialled \in open' /\ ~ Closing(up'[Dialled]) => Held(up'[Dialled], k, L)
  <2> SUFFICES ASSUME connector.link = "open", Dialled \in open', ~ Closing(up'[Dialled])
               PROVE  Held(up'[Dialled], k, L)
    OBVIOUS
  <2>1. Dialled \in open /\ Dialled \in Socket
    BY <1>1 DEF RelayTypeOK
  <2>2. ~ Closing(up[Dialled])
    BY <1>2, <1>7, <2>1
  <2>3. Held(up[Dialled], k, L)
    BY <1>1, <2>1, <2>2 DEF HellosHold
  <2>4. CASE s = Dialled
    <3>1. up'[Dialled] = Tail(up[Dialled])
      BY <1>3, <1>7, <2>4
    <3> QED
      BY <1>2, <2>3, <2>4, <3>1, HeldTail
  <2> QED
    BY <1>2, <2>1, <2>3, <2>4
\* Those that the phone has yet to read.
<1>14. ASSUME Facing', ~ overQuota', \A g \in In(up'[Dialled]) : ~ IsRecord(g, "unsubscribed")
       PROVE  Held(down'["phone"], k, L)
  <2>1. PICK r \in Seq(Msg) :
          /\ down'["phone"] = down["phone"] \o r
          /\ r = IF s = Session THEN ms
                 ELSE IF s[1] = "bridge" /\ peers["phone"] = Session THEN ns ELSE <<>>
    BY <1>1, <1>2, <1>8, <1>14, PhoneIsHanded
  <2>2. \A x : ~ Frame(x) => ~ IsRecord(x, "hello")
    BY DEF Frame, IsRecord
  <2>3. ASSUME peers["phone"] # Session \/ peers["bridge"] = None PROVE Held(down'["phone"], k, L)
    <3>1. \A g \in In(down["phone"]) : ~ Frame(g)
      BY <1>8, <1>14, <2>3, Unheard
    <3>2. ASSUME ~ \A g \in In(r) : ~ Frame(g) PROVE FALSE
      <4>1. In(<<>>) = {}
        BY Emptied
      <4>2. s[1] = "bridge" /\ peers["phone"] = Session /\ ns = <<h>> /\ Frame(h)
        BY <1>3, <2>1, <3>2, <4>1 DEF h
      <4>3. h \in In(up[s]) /\ up[s] \in Seq(Msg)
        BY <1>2, Headed DEF h
      <4>4. peers["bridge"] = s \/ Register \in In(up[s])
        BY <1>1, <1>2, <4>2, <4>3 DEF Queues
      <4>5. peers["bridge"] = None
        BY <2>3, <4>2
      <4>6. Register \in In(up[s]) /\ Chain(up[s], NotRegister)
        BY <1>1, <1>2, <4>4, <4>5, SocketIs DEF Queues
      <4>7. h = Register
        <5>1. Register \notin In(Tail(up[s])) /\ In(up[s]) = {h} \cup In(Tail(up[s]))
          BY <1>1, <1>2, HeadIs DEF h
        <5> QED
          BY <4>6, <5>1
      <4> QED
        BY <4>2, <4>7, RelaySays
    <3>3. In(down'["phone"]) = In(down["phone"]) \cup In(r)
      <4>1. down["phone"] \in Seq(Msg) /\ r \in Seq(Msg) /\ down'["phone"] = down["phone"] \o r
        BY <1>1, <2>1
      <4> QED
        BY ONLY <4>1, Added
    <3> QED
      BY <2>2, <3>1, <3>2, <3>3, NothingHeld
  <2>4. ASSUME peers["phone"] = Session, peers["bridge"] # None PROVE Held(down'["phone"], k, L)
    <3>1. Facing
      BY <1>8, <1>14, <2>4 DEF Facing
    <3>2. ~ overQuota
      BY <1>14
    <3>3. CASE s = Dialled /\ Frame(h)
      <4>1. r = <<h>> /\ q = Tail(up[s]) /\ up[s] # <<>>
        <5>1. s[1] = "bridge" /\ s # Session /\ q = Tail(up[s]) /\ peers["phone"] # None
          BY <1>8, <1>14, <2>4, <3>3, SocketIs
        <5>2. ns = <<h>>
          BY <1>14, <3>3, <5>1 DEF h
        <5> QED
          BY <2>1, <2>4, <5>1, <5>2
      <4>2. Held(up[s], k, L)
        BY <1>1, <1>8, <1>14, <3>3 DEF HellosHold
      <4>3. IsRecord(h, "hello") /\ h.key = k => h.of \in L
        <5>1. IsRecord(h, "hello") /\ h.key = k => h.of \in L \/ \E g \in In(Tail(up[s])) : IsRecord(g, "unsubscribed")
          BY <1>2, <4>1, <4>2, HeldTail DEF h
        <5>2. up'[Dialled] = Tail(up[s])
          BY <1>3, <3>3, <4>1
        <5> QED
          BY <1>14, <5>1, <5>2
      <4>4. CASE IsRecord(h, "unsubscribed")
        <5>1. ~ IsRecord(h, "hello")
          BY <4>4 DEF IsRecord
        <5>2. down["phone"] \in Seq(Msg) /\ r \in Seq(Msg) /\ down'["phone"] = down["phone"] \o r
              /\ h \in Msg /\ r = <<h>> /\ IsRecord(h, "unsubscribed")
          BY <1>1, <1>2, <2>1, <4>1, <4>4
        <5> QED
          BY ONLY <5>2, Added
      <4>5. CASE ~ IsRecord(h, "unsubscribed")
        <5>1. \A g \in In(up[Dialled]) : ~ IsRecord(g, "unsubscribed")
          BY <1>2, <1>14, <3>3, <4>1, <4>5
        <5>2. Held(down["phone"], k, L)
          BY <1>1, <3>1, <3>2, <5>1 DEF HellosHold
        <5>3. down["phone"] \in Seq(Msg) /\ r \in Seq(Msg) /\ down'["phone"] = down["phone"] \o r
              /\ In(r) = {h}
          BY <1>1, <1>3, <2>1, <4>1
        <5>4. Held(down["phone"] \o r, k, L)
          BY ONLY <4>3, <5>2, <5>3, HeldLonger
        <5> QED
          BY ONLY <5>3, <5>4
      <4> QED
        BY <4>4, <4>5
    <3>4. CASE s # Dialled \/ ~ Frame(h)
      <4>1. \A g \in In(r) : ~ Frame(g)
        <5>1. CASE s = Session
          BY <2>1, <5>1
        <5>2. CASE s # Session /\ s[1] = "bridge" /\ Frame(h) /\ ns = <<h>>
          <6>1. h \in In(up[s]) /\ up[s] \in Seq(Msg)
            BY <1>2, Headed DEF h
          <6>2. peers["bridge"] = s \/ Register \in In(up[s])
            BY <1>1, <1>2, <5>2, <6>1 DEF Queues
          <6>3. Register \notin In(up[s])
            <7>1. Register \notin In(Tail(up[s])) /\ In(up[s]) = {h} \cup In(Tail(up[s]))
              BY <1>1, <1>2, HeadIs DEF h
            <7> QED
              BY <5>2, <7>1, RelaySays
          <6> QED
            BY <1>8, <1>14, <2>4, <3>4, <5>2, <6>2, <6>3
        <5>3. CASE s # Session /\ s[1] = "bridge" /\ ~ (Frame(h) /\ ns = <<h>>)
          <6>1. \A g \in In(ns) : ~ Frame(g)
            BY <1>3, <5>3 DEF h
          <6> QED
            BY <2>1, <5>3, <6>1, Emptied
        <5>4. CASE s # Session /\ s[1] # "bridge"
          BY <2>1, <5>4, Emptied
        <5> QED
          BY <5>1, <5>2, <5>3, <5>4
      <4>2. \A g \in In(up[Dialled]) : IsRecord(g, "unsubscribed") => g \in In(up'[Dialled])
        <5> SUFFICES ASSUME NEW g \in In(up[Dialled]), IsRecord(g, "unsubscribed"), s = Dialled
                     PROVE  g \in In(up'[Dialled])
          BY <1>2, <1>8, <1>14
        <5>1. Frame(g) /\ ~ Frame(h)
          BY <3>4 DEF IsRecord, Frame
        <5>2. q = Tail(up[s])
          BY <1>8, <1>14
        <5>3. g # h
          BY <5>1
        <5> QED
          BY <1>2, <5>2, <5>3
      <4>3. Held(down["phone"], k, L)
        BY <1>1, <1>14, <3>1, <3>2, <4>2 DEF HellosHold
      <4>4. down["phone"] \in Seq(Msg) /\ r \in Seq(Msg) /\ down'["phone"] = down["phone"] \o r
        BY <1>1, <2>1
      <4>5. \A g \in In(r) : ~ IsRecord(g, "hello")
        BY ONLY <2>2, <4>1
      <4>6. Held(down["phone"] \o r, k, L)
        BY ONLY <4>3, <4>4, <4>5, HeldLonger
      <4> QED
        BY ONLY <4>4, <4>6
    <3> QED
      BY <3>3, <3>4
  <2> QED
    BY <2>3, <2>4
<1>15. HellosHold'
  BY <1>1, <1>13, <1>14 DEF HellosHold
<1> QED
  BY <1>1, <1>5, <1>6, <1>9, <1>10, <1>12, <1>15, RelayKeepsWait

LEMMA RelayReadsWait ==
  ASSUME RelayInv, RelayInv', WaitInv, NEW s \in Socket, RelayReads(s)
  PROVE  WaitInv'
<1> DEFINE m == Head(up[s])
           t == Tail(up[s])
<1>1. /\ s \in open /\ up[s] # <<>> /\ connector' = connector /\ phone' = phone
      /\ backend' = backend /\ greeted' = greeted
  BY DEF RelayReads
<1>2. /\ RelayTypeOK /\ peers \in [End -> Socket \cup {None}] /\ s[1] \in End
      /\ up[s] \in Seq(Msg) /\ m \in Msg
  BY <1>1, SocketIs, LeftToRead DEF RelayInv, RelayTypeOK
<1>3. /\ <<>> \in Seq(Msg) /\ In(<<>>) = {}
      /\ \A x \in Msg : <<x>> \in Seq(Msg) /\ In(<<x>>) = {x}
      /\ \A x \in Msg, y \in Msg : <<x, y>> \in Seq(Msg) /\ In(<<x, y>>) = {x, y}
  <2>1. <<>> \in Seq(Msg) /\ In(<<>>) = {}
    BY Emptied
  <2>2. ASSUME NEW x \in Msg PROVE <<x>> \in Seq(Msg) /\ In(<<x>>) = {x}
    BY Single
  <2>3. ASSUME NEW x \in Msg, NEW y \in Msg PROVE <<x, y>> \in Seq(Msg) /\ In(<<x, y>>) = {x, y}
    BY Two
  <2> QED
    BY ONLY <2>1, <2>2, <2>3
<1>4. CASE m = Register /\ RelayRegisters(s) /\ UNCHANGED <<faults, overQuota>>
  <2>1. ~ Frame(m) /\ m # closed
    BY <1>4, RelaySays, NoticesDiffer
  <2>2. CASE peers[s[1]] # None
    <3> DEFINE ms == <<Error("routing-id-taken"), closed>>
    <3>1. /\ open' = open \ {s} /\ up' = [up EXCEPT ![s] = <<>>]
          /\ down' = Delivered(s, ms, <<>>) /\ peers' = peers
      BY <1>4, <2>2 DEF RelayRegisters
    <3>2. ms \in Seq(Msg) /\ \A g \in In(ms) : ~ Frame(g)
      BY <1>3, RelaySays
    <3> HIDE DEF ms, m
    <3> QED
      BY <1>1, <1>2, <1>3, <1>4, <2>1, <3>1, <3>2, RelayTakesWait DEF m
  <2>3. CASE peers[s[1]] = None
    <3> DEFINE ms == IF peers[Other(s[1])] = None THEN <<Registered>> ELSE <<Registered, PeerOnline>>
               ns == <<PeerOnline>>
    <3>1. /\ peers' = [peers EXCEPT ![s[1]] = s] /\ up' = [up EXCEPT ![s] = t]
          /\ down' = Delivered(s, ms, ns) /\ open' = open
      BY <1>4, <2>3 DEF RelayRegisters
    <3>2. /\ ms \in Seq(Msg) /\ \A g \in In(ms) : ~ Frame(g)
          /\ ns \in Seq(Msg) /\ \A g \in In(ns) : ~ Frame(g)
      BY <1>3, RelaySays
    <3>3. /\ peers["bridge"] # None => peers'["bridge"] \in {peers["bridge"], None}
          /\ peers'["bridge"] = Dialled => peers["bridge"] \in {Dialled, None}
      BY <1>2, <2>3, <3>1, EndIs
    <3> HIDE DEF ms, ns, m, t
    <3> QED
      BY <1>1, <1>2, <1>3, <1>4, <2>1, <3>1, <3>2, <3>3, RelayTakesWait DEF m, t
  <2> QED
    BY <2>2, <2>3
<1>5. CASE m = closed /\ RelayCloses(s) /\ UNCHANGED <<faults, overQuota>>
  <2> DEFINE ms == <<closed>>
             ns == IF peers[s[1]] = s THEN <<PeerOffline>> ELSE <<>>
  <2>1. /\ open' = open \ {s} /\ up' = [up EXCEPT ![s] = <<>>]
        /\ peers' = IF peers[s[1]] = s THEN [peers EXCEPT ![s[1]] = None] ELSE peers
        /\ down' = Delivered(s, ms, ns)
    BY <1>5 DEF RelayCloses
  <2>2. /\ ms \in Seq(Msg) /\ \A g \in In(ms) : ~ Frame(g)
        /\ ns \in Seq(Msg) /\ \A g \in In(ns) : ~ Frame(g)
        /\ ~ Frame(m)
    BY <1>3, <1>5, RelaySays
  <2>3. /\ peers["bridge"] # None => peers'["bridge"] \in {peers["bridge"], None}
        /\ peers'["bridge"] = Dialled => peers["bridge"] \in {Dialled, None}
    BY <1>2, <2>1, EndIs, SocketIs DEF Dialled
  <2> HIDE DEF ms, ns, m
  <2> QED
    BY <1>1, <1>2, <1>3, <1>5, <2>1, <2>2, <2>3, RelayTakesWait DEF m
<1>6. ASSUME m.type \in {"relay/handshake", "relay/data"}, NEW exceeded \in BOOLEAN,
             RelayForwards(s, exceeded)
      PROVE  WaitInv'
  <2>1. /\ up' = [up EXCEPT ![s] = t] /\ peers' = peers /\ open' = open /\ Frame(m)
        /\ overQuota' = (overQuota \/ (exceeded /\ s[1] = "bridge"))
    BY <1>1, <1>6 DEF RelayForwards, Frame
  <2>2. m # closed
    BY <2>1, RelaySays
  <2>3. ASSUME NEW code \in {"quota-exceeded", "peer-offline"}, down' = Delivered(s, <<Error(code)>>, <<>>),
               s[1] = "bridge" => overQuota' \/ peers["phone"] = None
        PROVE  WaitInv'
    <3> DEFINE ms == <<Error(code)>>
    <3>1. /\ ms \in Seq(Msg) /\ \A g \in In(ms) : ~ Frame(g)
          /\ \E g \in In(ms) : Ends(g)
      BY <1>3, RelaySays
    <3>2. down' = Delivered(s, ms, <<>>)
      BY <2>3
    <3> HIDE DEF ms, m, t
    <3> QED
      BY <1>1, <1>2, <1>3, <2>1, <2>2, <2>3, <3>1, <3>2, RelayTakesWait DEF m, t
  <2>4. CASE exceeded
    <3>1. down' = Delivered(s, <<Error("quota-exceeded")>>, <<>>)
      BY <1>6, <2>4 DEF RelayForwards
    <3> QED
      BY <2>1, <2>3, <2>4, <3>1
  <2>5. CASE ~ exceeded /\ peers[Other(s[1])] = None
    <3>1. down' = Delivered(s, <<Error("peer-offline")>>, <<>>)
      BY <1>6, <2>5 DEF RelayForwards
    <3>2. s[1] = "bridge" => peers["phone"] = None
      BY <2>5, EndIs
    <3> QED
      BY <2>3, <3>1, <3>2
  <2>6. CASE ~ exceeded /\ peers[Other(s[1])] # None
    <3> DEFINE ns == <<m>>
    <3>1. down' = Delivered(s, <<>>, ns)
      BY <1>6, <2>6 DEF RelayForwards
    <3>2. ns \in Seq(Msg) /\ ns = <<m>>
      BY <1>2, <1>3
    <3> HIDE DEF ns, m, t
    <3> QED
      BY <1>1, <1>2, <1>3, <2>1, <2>2, <3>1, <3>2, RelayTakesWait DEF m, t
  <2> QED
    BY <1>6, <2>4, <2>5, <2>6
<1>7. \/ m = Register /\ RelayRegisters(s) /\ UNCHANGED <<faults, overQuota>>
      \/ m = closed /\ RelayCloses(s) /\ UNCHANGED <<faults, overQuota>>
      \/ /\ m.type \in {"relay/handshake", "relay/data"}
         /\ \E exceeded \in BOOLEAN : RelayForwards(s, exceeded)
  BY DEF RelayReads
<1> QED
  BY <1>4, <1>5, <1>6, <1>7

\* A connection dies: the two ends do not meet on it any more, or nothing of theirs was lost.
LEMMA ConnectionDiesWait ==
  ASSUME RelayInv, RelayInv', WaitInv, NEW s \in Socket, ConnectionDies(s)
  PROVE  WaitInv'
<1> DEFINE a == down'["bridge"]
           b == down'["phone"]
<1>1. /\ s \in open /\ connector' = connector /\ phone' = phone /\ peers' = peers /\ open' = open
      /\ overQuota' = overQuota /\ backend' = backend /\ greeted' = greeted
  BY DEF ConnectionDies
<1>2. /\ RelayTypeOK /\ RelayTypeOK' /\ up \in [Socket -> Seq(Msg)] /\ down \in [End -> Seq(Msg)]
      /\ Dialled' = Dialled /\ Session' = Session /\ Live' = Live /\ s[1] \in End
      /\ RecordsLast /\ HellosHold
  BY <1>1, SocketIs, Standing DEF RelayInv, RelayTypeOK, WaitInv
<1>3. closed \in Msg /\ ~ Frame(closed)
  BY RelaySays
<1>4. PICK i \in 0 .. Len(up[s]) : up' = [up EXCEPT ![s] = SubSeq(up[s], 1, i) \o <<closed>>]
  BY DEF ConnectionDies
<1>5. /\ In(up'[s]) \subseteq In(up[s]) \cup {closed} /\ Closing(up'[s])
      /\ Chain(up[s], GreetedFirst) => Chain(up'[s], GreetedFirst)
      /\ \A x \in Socket : x # s => up'[x] = up[x]
  <2> DEFINE q == SubSeq(up[s], 1, i) \o <<closed>>
  <2>1. /\ In(q) \subseteq In(up[s]) \cup {closed} /\ Closing(q)
        /\ \A R : Chain(up[s], R) /\ (\A x \in In(up[s]) : <<x, closed>> \in R) => Chain(q, R)
    BY <1>2, Severed
  <2>2. \A x \in In(up[s]) : <<x, closed>> \in GreetedFirst
    BY <1>2, <1>3, GreetsFirst DEF In
  <2>3. up' = [up EXCEPT ![s] = q]
    BY <1>4
  <2> HIDE DEF q
  <2> QED
    BY <1>2, <2>1, <2>2, <2>3
<1>6. \/ down' = down
      \/ /\ HearsClose(s) /\ s[1] = "bridge" /\ In(a) \subseteq In(down["bridge"]) \cup {closed}
         /\ Chain(down["bridge"], GreetedFirst) => Chain(a, GreetedFirst)
      \/ HearsClose(s) /\ s[1] = "phone" /\ a = down["bridge"]
  <2>1. CASE ~ HearsClose(s)
    BY <2>1 DEF ConnectionDies
  <2>2. CASE HearsClose(s)
    <3>1. PICK j \in 0 .. Len(down[s[1]]) : down' = [down EXCEPT ![s[1]] = SubSeq(down[s[1]], 1, j) \o <<closed>>]
      BY <2>2 DEF ConnectionDies
    <3> DEFINE d == SubSeq(down[s[1]], 1, j) \o <<closed>>
    <3>2. /\ In(d) \subseteq In(down[s[1]]) \cup {closed}
          /\ \A R : Chain(down[s[1]], R) /\ (\A x \in In(down[s[1]]) : <<x, closed>> \in R) => Chain(d, R)
      BY <1>2, Severed
    <3>3. \A x \in In(down[s[1]]) : <<x, closed>> \in GreetedFirst
      BY <1>2, <1>3, GreetsFirst DEF In
    <3>4. down' = [down EXCEPT ![s[1]] = d]
      BY <3>1
    <3> HIDE DEF d
    <3> QED
      BY <1>2, <2>2, <3>2, <3>3, <3>4, EndIs
  <2> QED
    BY <2>1, <2>2
<1>7. /\ In(a) \subseteq In(down["bridge"]) \cup {closed}
      /\ Chain(down["bridge"], GreetedFirst) => Chain(a, GreetedFirst)
      /\ down' # down => s \in {Dialled, Session}
  BY <1>2, <1>6, OwnIs
<1> HIDE DEF a, b
<1>8. \A x \in Socket : In(up'[x]) \subseteq In(up[x]) \cup {closed}
  BY <1>5
<1>9. RecordsLast'
  <2> SUFFICES ASSUME NEW x \in Socket, x[1] = "phone"
               PROVE  /\ Chain(a, GreetedFirst) /\ Chain(up'[x], GreetedFirst)
                      /\ \A y \in In(a), z \in In(up'[x]) : <<y, z>> \in GreetedFirst
    <3>1. Chain(a, GreetedFirst)
      BY <1>2, <1>7 DEF RecordsLast
    <3> QED
      BY <3>1 DEF RecordsLast, a
  <2>1. Chain(a, GreetedFirst) /\ Chain(up'[x], GreetedFirst)
    BY <1>2, <1>5, <1>7 DEF RecordsLast
  <2>2. ASSUME NEW y \in In(a), NEW z \in In(up'[x]) PROVE <<y, z>> \in GreetedFirst
    <3>1. y \in In(down["bridge"]) \cup {closed} /\ z \in In(up[x]) \cup {closed}
      BY <1>7, <1>8
    <3>2. y \in Msg /\ z \in Msg
      BY <1>2, <1>3, <3>1, EndIs DEF In
    <3>3. CASE y = closed \/ z = closed
      BY <1>3, <3>2, <3>3, GreetsFirst
    <3>4. CASE y # closed /\ z # closed
      BY <1>2, <3>1, <3>4 DEF RecordsLast
    <3> QED
      BY <3>3, <3>4
  <2> QED
    BY <2>1, <2>2
<1>10. PhoneSent' \subseteq PhoneSent
  <2> SUFFICES ASSUME NEW g \in PhoneSent' PROVE g \in PhoneSent
    OBVIOUS
  <2>1. Frame(g) /\ (g \in In(a) \/ \E x \in Socket : x[1] = "phone" /\ g \in In(up'[x]))
    BY <1>2, OnTheirWayNext DEF a
  <2>2. g \in In(down["bridge"]) \/ \E x \in Socket : x[1] = "phone" /\ g \in In(up[x])
    BY <1>3, <1>7, <1>8, <2>1
  <2> QED
    BY <1>2, <2>1, <2>2, OnTheirWay
<1>11. ASSUME Facing'
       PROVE  /\ Facing /\ down' = down
              /\ up'[Dialled] = up[Dialled] /\ up'[Session] = up[Session]
  <2>1. /\ ~ Closing(up'[Dialled]) /\ ~ Closing(up'[Session]) /\ connector.link = "open" /\ Live
    BY <1>1, <1>2, <1>11 DEF Facing
  <2>2. s \notin {Dialled, Session} /\ Dialled \in Socket /\ Session \in Socket
    BY <1>2, <1>5, <2>1, LiveIs, OwnIs
  <2>3. /\ down' = down /\ up'[Dialled] = up[Dialled] /\ up'[Session] = up[Session]
    BY <1>5, <1>7, <2>2
  <2> QED
    BY <1>1, <1>2, <1>11, <2>3 DEF Facing
<1>12. HellosHold'
  <2>1. ASSUME connector.link = "open", Dialled \in open, ~ Closing(up'[Dialled])
        PROVE  Held(up'[Dialled], connector.channel, connector.live)
    <3>1. Dialled # s /\ Dialled \in Socket
      BY <1>2, <1>5, <2>1 DEF RelayTypeOK
    <3>2. up'[Dialled] = up[Dialled]
      BY <1>5, <3>1
    <3> QED
      BY <1>2, <2>1, <3>2 DEF HellosHold
  <2>2. ASSUME Facing', ~ overQuota', \A m \in In(up'[Dialled]) : ~ IsRecord(m, "unsubscribed")
        PROVE  Held(down'["phone"], connector.channel, connector.live)
    BY <1>1, <1>2, <1>11, <2>2 DEF HellosHold
  <2> QED
    BY <1>1, <1>2, <2>1, <2>2 DEF HellosHold
<1>13. Meets' => /\ Meets /\ down' = down
                 /\ up'[Dialled] = up[Dialled] /\ up'[Session] = up[Session]
  BY <1>1, <1>11 DEF Meets
<1>14. ASSUME Meets', ~ overQuota'
       PROVE  /\ ~ overQuota
              /\ \A g \in Outgoing : Frame(g) => g \in Outgoing'
              /\ \A g \in Incoming : Frame(g) => g \in Incoming'
  BY <1>1, <1>2, <1>13, <1>14 DEF Outgoing, Incoming
<1> QED
  BY <1>1, <1>9, <1>10, <1>12, <1>13, <1>14, RelayKeepsWait

-----------------------------------------------------------------------------
\* The connector, and who waits.

\* What the connector sends, on the socket that it listens to.
LEMMA ConnectorSpeaks ==
  ASSUME RelayTypeOK, connector.link = "open", NEW ms \in Seq(Msg), up' = Sent(Dialled, ms)
  PROVE  /\ Dialled \in Socket /\ Dialled[1] = "bridge" /\ up[Dialled] \in Seq(Msg)
         /\ \A x \in Socket : x # Dialled => up'[x] = up[x]
         /\ In(up[Dialled]) \subseteq In(up'[Dialled])
         /\ In(up'[Dialled]) \subseteq In(up[Dialled]) \cup In(ms)
         /\ Dialled \in open /\ ~ Closing(up'[Dialled]) =>
              /\ ~ Closing(up[Dialled]) /\ up'[Dialled] = up[Dialled] \o ms
              /\ In(ms) \subseteq In(up'[Dialled])
<1>1. Dialled \in Socket /\ Dialled[1] = "bridge" /\ up[Dialled] \in Seq(Msg)
  BY OwnIs DEF RelayTypeOK
<1>2. /\ \A x \in Socket : x # Dialled => up'[x] = up[x]
      /\ Dialled \in open => up'[Dialled] = Push(up[Dialled], ms)
      /\ Dialled \notin open => up' = up
  BY <1>1, SentIs
<1>3. /\ In(up[Dialled]) \subseteq In(Push(up[Dialled], ms))
      /\ In(Push(up[Dialled], ms)) \subseteq In(up[Dialled]) \cup In(ms)
      /\ Closing(up[Dialled]) => Push(up[Dialled], ms) = up[Dialled]
      /\ ~ Closing(up[Dialled]) => /\ Push(up[Dialled], ms) = up[Dialled] \o ms
                                   /\ In(Push(up[Dialled], ms)) = In(up[Dialled]) \cup In(ms)
  BY <1>1, PushIs
<1> QED
  BY ONLY <1>1, <1>2, <1>3

\* What it knows of the phone's sessions and streams it has from the phone.
LEMMA ConnectorKnows ==
  ASSUME RelayInv, RelayTypeOK', WaitInv, phone' = phone,
         \A x \in Socket : x[1] = "phone" => up'[x] = up[x],
         In(down'["bridge"]) \subseteq In(down["bridge"]), Chain(down'["bridge"], GreetedFirst),
         \A r \in backend' : \/ r \in backend
                             \/ \E m \in PhoneSent : IsRecord(m, r.kind) /\ r = Tunnel(m.kind, m.id, m.of),
         \A n \in connector'.live : n \in connector.live \/ \E r \in backend : r.kind = "subscribe" /\ r.of = n,
         greeted' \subseteq greeted \cup connector.live
  PROVE  RecordsLast' /\ Spoken' /\ Known'
<1>1. RelayTypeOK /\ RecordsLast /\ Spoken /\ Known
  BY DEF RelayInv, WaitInv
<1>2. RecordsLast'
  BY <1>1 DEF RecordsLast
<1>3. PhoneSent' \subseteq PhoneSent
  BY <1>1, OnTheirWay, OnTheirWayNext
<1>4. Spoken'
  BY <1>1, <1>3 DEF Spoken
<1>5. PICK s \in 0 .. MaxSessions : Agreed(connector, phone, PhoneSent, BridgeSent, s)
  BY DEF RelayInv
<1>6. ASSUME NEW m \in PhoneSent, m.type = "relay/data", NEW r, r = Tunnel(m.kind, m.id, m.of)
      PROVE  /\ r.of <= phone.n
             /\ r.of = phone.n =>
                  \/ phone.phase = "closed"
                  \/ phone.phase = "sealed" /\ (r.kind = "subscribe" => phone.sub # "none")
  <2>1. r.of = m.of /\ r.kind = m.kind
    BY <1>6 DEF Tunnel
  <2>2. Author(m) = m.key[1] /\ Author(m) \in 1 .. phone.n
    BY <1>5, <1>6 DEF Author, Agreed, Shapes
  <2> QED
    BY <1>1, <1>6, <2>1, <2>2 DEF Spoken
<1>7. Known'
  <2>1. ASSUME NEW r \in backend'
        PROVE  /\ r.of <= phone.n
               /\ r.of = phone.n =>
                    \/ phone.phase = "closed"
                    \/ phone.phase = "sealed" /\ (r.kind = "subscribe" => phone.sub # "none")
    BY <1>1, <1>6 DEF Known, IsRecord
  <2>2. ASSUME NEW n \in connector'.live \cup greeted'
        PROVE  /\ n <= phone.n
               /\ n = phone.n => phone.phase = "closed" \/ (phone.phase = "sealed" /\ phone.sub # "none")
    BY <1>1 DEF Known
  <2> QED
    BY <2>1, <2>2 DEF Known
<1> QED
  BY <1>2, <1>4, <1>7

\* It no longer listens: nobody meets it.
LEMMA ConnectorDroppedWait ==
  ASSUME connector'.link # "open", RecordsLast', Spoken', Known'
  PROVE  WaitInv'
<1>1. ~ Facing' /\ ~ Meets'
  BY DEF Facing, Meets
<1> QED
  BY <1>1 DEF WaitInv, Reached, HellosHold, Followed, Asked, Requested

\* It listens on, and sends ms.
LEMMA ConnectorKeepsWait ==
  ASSUME RelayInv, RelayInv', WaitInv, phone' = phone, peers' = peers, open' = open,
         connector.link = "open", connector'.n = connector.n, down'["phone"] = down["phone"],
         overQuota' = overQuota, RecordsLast', Spoken', Known',
         NEW ms \in Seq(Msg), up' = Sent(Dialled, ms),
         \/ \A g \in BridgeSent' : IsRecord(g, "hello") => g.key # connector'.channel
         \/ /\ connector'.channel = connector.channel
            /\ connector.live \subseteq connector'.live \/ \E g \in In(ms) : IsRecord(g, "unsubscribed")
            /\ \A g \in In(ms) : IsRecord(g, "hello") => g.of \in connector'.live,
         Meets /\ Facing' =>
           /\ (phone.sub = "following" \/ phone.n \in connector'.live \/ \E r \in backend' : r.of = phone.n)
                => connector'.channel = phone.channel
           /\ phone.sub = "following" /\ phone.hello \in connector.live =>
                phone.hello \in connector'.live \/ \E g \in In(ms) : IsRecord(g, "unsubscribed")
           /\ phone.sub = "asked" /\ Awaited => Awaited' \/ \E g \in In(ms) : Informs(g)
           /\ \A id \in phone.pending :
                Wanted("request", id) => Wanted("request", id)' \/ \E g \in In(ms) : Replies(g, id)
  PROVE  WaitInv'
<1>1. /\ RelayTypeOK /\ RelayTypeOK' /\ HellosHold /\ Reached /\ Followed /\ Asked /\ Requested /\ Sockets
      /\ down["phone"] \in Seq(Msg) /\ (peers["bridge"] # None => peers["bridge"] \in open)
  BY EndIs DEF RelayInv, WaitInv, RelayTypeOK, Sockets
<1>2. /\ Dialled \in Socket /\ Dialled[1] = "bridge" /\ up[Dialled] \in Seq(Msg)
      /\ \A x \in Socket : x # Dialled => up'[x] = up[x]
      /\ In(up[Dialled]) \subseteq In(up'[Dialled])
      /\ In(up'[Dialled]) \subseteq In(up[Dialled]) \cup In(ms)
      /\ Dialled \in open /\ ~ Closing(up'[Dialled]) =>
           /\ ~ Closing(up[Dialled]) /\ up'[Dialled] = up[Dialled] \o ms
           /\ In(ms) \subseteq In(up'[Dialled])
  BY <1>1, ConnectorSpeaks
<1>3. Dialled' = Dialled /\ Session' = Session /\ Live' = Live
  BY DEF Dialled, Session, Live
<1>4. ASSUME Facing'
      PROVE  /\ Facing /\ Dialled \in open /\ ~ Closing(up'[Dialled]) /\ connector'.link = "open"
             /\ up'[Session] = up[Session] /\ In(ms) \subseteq In(up'[Dialled])
  <2>1. /\ Live /\ ~ Closing(up'[Session]) /\ NoEnds(down["phone"])
        /\ connector'.link = "open" /\ peers["bridge"] = Dialled /\ ~ Closing(up'[Dialled])
    BY <1>3, <1>4 DEF Facing
  <2>2. Session \in Socket /\ Session # Dialled
    BY <1>1, <2>1, LiveIs, OwnIs
  <2>3. Dialled \in open
    <3>1. Dialled # None
      BY SocketIs DEF Dialled
    <3> QED
      BY <1>1, <2>1, <3>1
  <2> QED
    BY <1>2, <2>1, <2>2, <2>3 DEF Facing
<1>5. Meets' => /\ Meets /\ Incoming \cup In(ms) \subseteq Incoming'
  <2> SUFFICES ASSUME Meets' PROVE Meets /\ Incoming \cup In(ms) \subseteq Incoming'
    OBVIOUS
  <2>1. Facing' /\ phone.channel # None
    BY DEF Meets
  <2> QED
    BY <1>2, <1>3, <1>4, <2>1 DEF Meets, Incoming
<1>6. Meets' => Facing'
  BY DEF Meets
<1>7. Reached'
  BY <1>5, <1>6 DEF Reached
<1>8. Followed'
  <2> SUFFICES ASSUME Meets', ~ overQuota, phone.sub = "following"
               PROVE  phone.hello \in connector'.live \/ \E m \in Incoming' : IsRecord(m, "unsubscribed")
    BY DEF Followed
  <2> QED
    BY <1>1, <1>5, <1>6 DEF Followed
<1>9. \A m : Informs(m)' <=> Informs(m)
  BY DEF Informs
<1>10. Asked'
  <2> SUFFICES ASSUME Meets', ~ overQuota, phone.sub = "asked"
               PROVE  (\E m \in Incoming' : Informs(m)) \/ Awaited'
    BY <1>9 DEF Asked
  <2> QED
    BY <1>1, <1>5, <1>6 DEF Asked
<1>11. Requested'
  <2> SUFFICES ASSUME Meets', ~ overQuota, NEW id \in phone.pending
               PROVE  (\E m \in Incoming' : Replies(m, id)) \/ Wanted("request", id)'
    BY DEF Requested, Replies
  <2> QED
    BY <1>1, <1>5, <1>6 DEF Requested
<1> DEFINE k == connector'.channel
           L == connector'.live
<1>12. HellosHold'
  <2>1. CASE \A g \in BridgeSent' : IsRecord(g, "hello") => g.key # connector'.channel
    <3>1. \A g \in In(up'[Dialled]) \cup In(down'["phone"]) : IsRecord(g, "hello") => g \in BridgeSent'
      BY <1>1, <1>2, OnTheirWayNext DEF IsRecord, Frame
    <3>2. Held(up'[Dialled], k, L) /\ Held(down'["phone"], k, L)
      BY <2>1, <3>1, NothingHeld
    <3> QED
      BY <1>3, <3>2 DEF HellosHold
  <2>2. CASE /\ connector'.channel = connector.channel
             /\ connector.live \subseteq connector'.live \/ \E g \in In(ms) : IsRecord(g, "unsubscribed")
             /\ \A g \in In(ms) : IsRecord(g, "hello") => g.of \in connector'.live
    <3>1. ASSUME Dialled \in open, ~ Closing(up'[Dialled]) PROVE Held(up'[Dialled], k, L)
      <4>1. Held(up[Dialled], k, connector.live) /\ up'[Dialled] = up[Dialled] \o ms
        BY <1>1, <1>2, <2>2, <3>1 DEF HellosHold
      <4> HIDE DEF k, L
      <4>2. Held(up[Dialled] \o ms, k, L)
        BY <1>2, <2>2, <4>1, HeldJoin DEF L
      <4> QED
        BY ONLY <4>1, <4>2
    <3>2. ASSUME Facing', ~ overQuota', \A m \in In(up'[Dialled]) : ~ IsRecord(m, "unsubscribed")
          PROVE  Held(down'["phone"], k, L)
      <4>1. Held(down["phone"], k, connector.live) /\ connector.live \subseteq L
        BY <1>1, <1>2, <1>4, <2>2, <3>2 DEF HellosHold
      <4> QED
        BY <4>1 DEF Held
    <3> QED
      BY <1>3, <3>1, <3>2 DEF HellosHold
  <2> QED
    BY <2>1, <2>2
<1> QED
  BY <1>7, <1>8, <1>10, <1>11, <1>12 DEF WaitInv

\* What the methods of the connector do to its channel and its streams: a handshake gives it the
\* channel of its own ephemeral, and touches no stream.
OwnEphemeral(c) == IF c.handshake # 0 THEN c.handshake ELSE c.ephemerals + 1
LEMMA HandshakeStreams ==
  ASSUME NEW c \in Connector, NEW m \in Greeting, ~ OnSealHandshake(c, m).closes
  PROVE  LET r == OnSealHandshake(c, m)
         IN  /\ c.channel = None /\ r.object.live = c.live
             /\ r.object.channel \in {None, <<m.eph, OwnEphemeral(c)>>}
             /\ r.sent \in Seq(Msg) /\ \A g \in In(r.sent) : g.type = "relay/handshake"
<1> DEFINE begun == BeginSeal(c)
           b == begun.object
           own == b.handshake
           signed == [b EXCEPT !.signed = TRUE]
           sent == begun.sent \o (IF b.signed THEN <<>> ELSE <<BridgeSigned(own, m.eph)>>)
           done == [signed EXCEPT !.channel = m.sig, !.handshake = 0, !.state = "tunneled"]
           r == OnSealHandshake(c, m)
           x == BridgeCompletes(own, m)
<1>1. r = IF c.channel # None THEN Fail(c, <<>>)
          ELSE IF m.sig = None THEN Step(signed, sent)
          ELSE IF x THEN Step(done, sent)
          ELSE Fail(signed, sent)
  BY DEF OnSealHandshake
<1>2. /\ ~ r.closes
      /\ \A d, ms : Fail(d, ms).closes
      /\ \A d, ms : Step(d, ms).object = d /\ Step(d, ms).sent = ms
  BY DEF Fail, Step
<1>3. c.channel = None /\ (m.sig = None \/ x) /\ r \in {Step(signed, sent), Step(done, sent)}
      /\ (r = Step(done, sent) \/ m.sig = None)
  BY <1>1, <1>2
<1>4. b \in Connector /\ b.channel = None /\ b.live = c.live /\ (c.channel = None => own = OwnEphemeral(c))
  <2>1. b \in Connector /\ b.channel = c.channel
    BY BeginSealIs
  <2>2. b.live = c.live /\ (c.channel = None => own = OwnEphemeral(c))
    BY DEF BeginSeal, Step, Connector, OwnEphemeral
  <2> QED
    BY <1>3, <2>1, <2>2
<1>5. /\ signed.live = c.live /\ signed.channel = None
      /\ done.live = c.live /\ done.channel = m.sig
  BY <1>4 DEF Connector
<1>6. x => m.sig = <<m.eph, own>>
  BY DEF BridgeCompletes, Transcript
<1>7. /\ r.sent = sent /\ r.object.live = c.live /\ r.object.channel \in {None, <<m.eph, own>>}
  <2> HIDE DEF signed, done, sent, r
  <2>1. CASE r = Step(done, sent)
    BY <1>2, <1>3, <1>5, <1>6, <2>1
  <2>2. CASE r = Step(signed, sent)
    BY <1>2, <1>3, <1>5, <2>2
  <2> QED
    BY <1>3, <2>1, <2>2
<1>9. begun.sent \in Seq(Msg) /\ \A g \in In(begun.sent) : g.type = "relay/handshake"
  <2> DEFINE h == Handshake(c.ephemerals + 1, None)
  <2>1. h \in Msg /\ h.type = "relay/handshake"
    BY GreetingIs DEF Connector
  <2>2. begun.sent \in {<<>>, <<h>>}
    BY BeginSealIs
  <2> HIDE DEF h, begun
  <2>3. <<>> \in Seq(Msg) /\ In(<<>>) = {} /\ <<h>> \in Seq(Msg) /\ In(<<h>>) = {h}
    BY <2>1, Single, Emptied
  <2> QED
    BY <2>1, <2>2, <2>3
<1>10. sent \in Seq(Msg) /\ \A g \in In(sent) : g.type = "relay/handshake"
  <2> DEFINE g == BridgeSigned(own, m.eph)
             rest == IF b.signed THEN <<>> ELSE <<g>>
  <2>1. g \in Msg /\ g.type = "relay/handshake"
    <3>1. own \in Nat /\ m.eph \in Nat
      BY <1>4 DEF Connector, Greeting
    <3>2. <<m.eph, own>> \in Keys
      BY <3>1 DEF Keys
    <3> QED
      BY <3>1, <3>2, GreetingIs DEF BridgeSigned, Transcript
  <2> HIDE DEF g
  <2>2. <<>> \in Seq(Msg) /\ In(<<>>) = {} /\ <<g>> \in Seq(Msg) /\ In(<<g>>) = {g}
    BY <2>1, Single, Emptied
  <2>3. rest \in Seq(Msg) /\ (\A k \in In(rest) : k.type = "relay/handshake") /\ sent = begun.sent \o rest
    BY <2>1, <2>2 DEF g
  <2> HIDE DEF rest, sent, begun
  <2>4. sent \in Seq(Msg) /\ In(sent) = In(begun.sent) \cup In(rest)
    BY <1>9, <2>3, JoinedIn
  <2> QED
    BY <1>9, <2>3, <2>4
<1> HIDE DEF sent, r, own
<1> QED
  BY <1>3, <1>4, <1>7, <1>10 DEF r

\* The connector closes its stream, and says so.
LEMMA CloseStreamEnds ==
  ASSUME NEW c \in Connector, c.channel # None, c.link = "open"
  PROVE  LET r == CloseStream(c)
         IN  /\ r.object.channel = c.channel /\ r.object.live = c.live \ {c.stream}
             /\ r.sent \in Seq(Msg)
             /\ IF c.stream \in c.live THEN \A g \in In(r.sent) : IsRecord(g, "unsubscribed")
                ELSE r.sent = <<>>
             /\ c.stream \in c.live => \E g \in In(r.sent) : IsRecord(g, "unsubscribed")
<1> DEFINE g == Data(c.channel, Tunnel("unsubscribed", 0, c.stream))
           q == SendTunnel(c, Tunnel("unsubscribed", 0, c.stream))
           r == CloseStream(c)
<1>1. c.stream \in Nat /\ 0 \in Nat /\ "unsubscribed" \in Kinds
  BY DEF Connector, Kinds
<1>2. q = <<g>> /\ q \in Seq(Msg)
  BY <1>1, SendTunnelIs
<1>3. g \in Msg /\ IsRecord(g, "unsubscribed")
  <2>1. c.channel \in Keys
    BY DEF Connector
  <2> QED
    BY <1>1, <2>1, RecordIs DEF IsRecord
<1>4. r.object = Ungreeted(c) /\ r.sent = IF c.stream \in c.live THEN q ELSE <<>>
  BY DEF CloseStream, Step
<1>5. Ungreeted(c).channel = c.channel /\ Ungreeted(c).live = c.live \ {c.stream}
  BY DEF Ungreeted, Connector
<1> HIDE DEF g, q, r
<1>6. In(<<g>>) = {g} /\ <<>> \in Seq(Msg)
  BY <1>3, Single, Emptied
<1> QED
  BY <1>2, <1>3, <1>4, <1>5, <1>6 DEF r

LEMMA OnControlStreams ==
  ASSUME NEW c \in Connector, c.link = "open", NEW m \in Msg, m # closed, ~ OnControl(c, m).closes
  PROVE  LET r == OnControl(c, m)
             d == r.object
         IN  /\ r.sent \in Seq(Msg) /\ d.live \subseteq c.live
             /\ \/ /\ d.channel = c.channel /\ d.live = c.live
                   /\ \A g \in In(r.sent) : g.type = "relay/handshake"
                \/ m = PeerOffline /\ d.channel = None /\ r.sent = <<>>
                \/ /\ m.type = "relay/handshake" /\ c.channel = None /\ d.live = c.live
                   /\ d.channel \in {None, <<m.eph, OwnEphemeral(c)>>}
                   /\ \A g \in In(r.sent) : g.type = "relay/handshake"
                \/ /\ d.channel = c.channel /\ c.channel # None /\ d.live = c.live \ {c.stream}
                   /\ IF c.stream \in c.live THEN \A g \in In(r.sent) : IsRecord(g, "unsubscribed")
                      ELSE r.sent = <<>>
                   /\ c.stream \in c.live => \E g \in In(r.sent) : IsRecord(g, "unsubscribed")
<1> DEFINE r == OnControl(c, m)
<1>1. <<>> \in Seq(Msg) /\ In(<<>>) = {}
  BY Emptied
<1>2. /\ m = Registered => r = Step([c EXCEPT !.state = "registered"], <<>>)
      /\ m = PeerOnline => r = BeginSeal(c)
      /\ m = PeerOffline => r = Step(OnPeerOffline(c), <<>>)
      /\ m.type = "relay/handshake" => r = OnSealHandshake(c, m)
      /\ m.type = "relay/data" => r \in {CloseStream(c), Step(c, <<>>), Fail(c, <<>>)}
      /\ ~ Frame(m) /\ m \notin {Registered, PeerOnline, PeerOffline} =>
           r \in {Step(c, <<>>), Fail(c, <<>>)}
  BY OnControlIs
<1>3. /\ \A d, ms : Fail(d, ms).closes
      /\ \A d, ms : Step(d, ms).object = d /\ Step(d, ms).sent = ms
  BY DEF Fail, Step
<1>4. m.type = "relay/data" /\ r = CloseStream(c) => c.channel # None \/ r = Step(c, <<>>)
  <2> SUFFICES ASSUME m.type = "relay/data", c.channel = None PROVE r = Step(c, <<>>)
    OBVIOUS
  <2>1. m \in Record
    BY FrameIs DEF Frame
  <2>2. ~ BridgeOpens(c, m)
    BY <2>1, NoneIsNoKey DEF BridgeOpens, Record
  <2> HIDE DEF r
  <2>3. r = CASE m = Registered -> Step([c EXCEPT !.state = "registered"], <<>>)
              [] m = PeerOnline -> BeginSeal(c)
              [] m = PeerOffline -> Step(OnPeerOffline(c), <<>>)
              [] m.type = "relay/handshake" -> OnSealHandshake(c, m)
              [] m.type = "relay/data" -> Step(c, <<>>)
              [] m = Error("routing-id-taken") -> Fail(c, <<>>)
              [] OTHER -> Step(c, <<>>)
    BY <2>2 DEF OnControl, r
  <2> QED
    BY <2>3 DEF Registered, PeerOnline, PeerOffline, Error
<1> HIDE DEF r
<1>5. CASE m = Registered
  <2> DEFINE d == [c EXCEPT !.state = "registered"]
  <2>1. d.channel = c.channel /\ d.live = c.live
    BY DEF Connector
  <2> HIDE DEF d
  <2>2. r.object = d /\ r.sent = <<>>
    BY <1>2, <1>3, <1>5 DEF d
  <2> QED
    BY <1>1, <2>1, <2>2 DEF r
<1>6. CASE m = PeerOnline
  <2> DEFINE h == Handshake(c.ephemerals + 1, None)
             b == BeginSeal(c)
  <2>1. r = b
    BY <1>2, <1>6
  <2>2. b.object.channel = c.channel /\ b.sent \in {<<>>, <<h>>}
    BY BeginSealIs
  <2>3. b.object.live = c.live
    BY DEF BeginSeal, Step, Connector
  <2>4. h \in Msg /\ h.type = "relay/handshake"
    BY GreetingIs DEF Connector
  <2> HIDE DEF b, h
  <2>5. <<h>> \in Seq(Msg) /\ In(<<h>>) = {h}
    BY <2>4, Single
  <2> QED
    BY <1>1, <2>1, <2>2, <2>3, <2>4, <2>5 DEF r
<1>7. CASE m = PeerOffline
  <2>1. r.object = OnPeerOffline(c) /\ r.sent = <<>>
    BY <1>2, <1>3, <1>7
  <2>2. OnPeerOffline(c).channel = None
    BY OnPeerOfflineIs
  <2>3. OnPeerOffline(c).live \subseteq c.live
    BY DEF OnPeerOffline, Ungreeted, Connector
  <2> QED
    BY <1>1, <1>7, <2>1, <2>2, <2>3 DEF r
<1>8. CASE m.type = "relay/handshake"
  <2>1. m \in Greeting /\ r = OnSealHandshake(c, m)
    BY <1>2, <1>8, FrameIs DEF Frame
  <2>2. /\ c.channel = None /\ r.object.live = c.live
        /\ r.object.channel \in {None, <<m.eph, OwnEphemeral(c)>>}
        /\ r.sent \in Seq(Msg) /\ \A g \in In(r.sent) : g.type = "relay/handshake"
    BY <2>1, HandshakeStreams DEF r
  <2> QED
    BY <1>8, <2>2 DEF r
<1>9. ASSUME r = Step(c, <<>>) PROVE r.object = c /\ r.sent = <<>>
  BY <1>3, <1>9
<1>10. CASE m.type = "relay/data"
  <2>1. r \in {CloseStream(c), Step(c, <<>>)}
    BY <1>2, <1>3, <1>10 DEF r
  <2>2. CASE r = Step(c, <<>>)
    BY <1>1, <1>9, <2>2 DEF r
  <2>3. CASE r = CloseStream(c) /\ c.channel # None
    <3>1. /\ r.object.channel = c.channel /\ r.object.live = c.live \ {c.stream}
          /\ r.sent \in Seq(Msg)
          /\ IF c.stream \in c.live THEN \A g \in In(r.sent) : IsRecord(g, "unsubscribed")
             ELSE r.sent = <<>>
          /\ c.stream \in c.live => \E g \in In(r.sent) : IsRecord(g, "unsubscribed")
      BY <2>3, CloseStreamEnds
    <3> QED
      BY <2>3, <3>1 DEF r
  <2> QED
    BY <1>4, <1>10, <2>1, <2>2, <2>3
<1>11. CASE ~ Frame(m) /\ m \notin {Registered, PeerOnline, PeerOffline}
  <2>1. r = Step(c, <<>>)
    BY <1>2, <1>3, <1>11 DEF r
  <2> QED
    BY <1>1, <1>9, <2>1 DEF r
<1> QED
  BY <1>5, <1>6, <1>7, <1>8, <1>10, <1>11 DEF Frame

\* A message that is neither a close nor an end of the connector's patience. What it asks for
\* reaches the bridge's own routes, and what the phone waits for is no nearer to being lost.
LEMMA ConnectorHearsWait ==
  ASSUME RelayInv, RelayInv', WaitInv, phone' = phone, peers' = peers, open' = open,
         connector.link = "open", down["bridge"] # <<>>, Head(down["bridge"]) # closed,
         NEW r, r = OnControl(connector, Head(down["bridge"])), ~ r.closes, connector' = r.object,
         up' = Sent(Dialled, r.sent), down' = [down EXCEPT !["bridge"] = Tail(down["bridge"])],
         backend' = IF /\ Head(down["bridge"]).type = "relay/data"
                       /\ BridgeOpens(connector, Head(down["bridge"]))
                       /\ Head(down["bridge"]).kind \in {"request", "subscribe"}
                    THEN backend \cup {Tunnel(Head(down["bridge"]).kind, Head(down["bridge"]).id,
                                              Head(down["bridge"]).of)}
                    ELSE backend,
         greeted' = greeted, overQuota' = overQuota
  PROVE  WaitInv'
<1> DEFINE q == down["bridge"]
           m == Head(q)
           t == Tail(q)
           c == connector
           d == connector'
           ms == r.sent
           taken == m.type = "relay/data" /\ BridgeOpens(c, m) /\ m.kind \in {"request", "subscribe"}
           w == Tunnel(m.kind, m.id, m.of)
<1>1. /\ RelayTypeOK /\ RelayTypeOK' /\ RecordsLast /\ Reached
      /\ c \in Connector /\ down \in [End -> Seq(Msg)] /\ "bridge" \in End /\ "phone" \in End
  BY EndIs DEF RelayInv, WaitInv, RelayTypeOK
<1>2. q \in Seq(Msg) /\ q # <<>> /\ down'["bridge"] = t /\ down'["phone"] = down["phone"]
  BY <1>1
<1>3. /\ m \in Msg /\ m \in In(q) /\ t \in Seq(Msg) /\ In(q) = {m} \cup In(t)
      /\ Chain(q, GreetedFirst) => Chain(t, GreetedFirst)
  BY <1>2, Headed
<1>4. backend' = IF taken THEN backend \cup {w} ELSE backend
  OBVIOUS
<1>5. d.n = c.n /\ ms \in Seq(Msg)
  <2>1. Sound(c, m, r)
    BY <1>1, <1>3, OnControlSound
  <2> QED
    BY <2>1 DEF Sound
<1>6. /\ d.live \subseteq c.live
      /\ \/ /\ d.channel = c.channel /\ d.live = c.live
            /\ \A g \in In(ms) : g.type = "relay/handshake"
         \/ m = PeerOffline /\ d.channel = None /\ ms = <<>>
         \/ /\ m.type = "relay/handshake" /\ c.channel = None /\ d.live = c.live
            /\ d.channel \in {None, <<m.eph, OwnEphemeral(c)>>}
            /\ \A g \in In(ms) : g.type = "relay/handshake"
         \/ /\ d.channel = c.channel /\ c.channel # None /\ d.live = c.live \ {c.stream}
            /\ IF c.stream \in c.live THEN \A g \in In(ms) : IsRecord(g, "unsubscribed")
               ELSE ms = <<>>
            /\ c.stream \in c.live => \E g \in In(ms) : IsRecord(g, "unsubscribed")
  BY <1>1, <1>3, OnControlStreams
<1>7. taken => m \in PhoneSent /\ IsRecord(m, w.kind)
  BY <1>1, <1>3, OnTheirWay DEF Frame, IsRecord, Tunnel
<1> HIDE DEF m, t, q, w, ms
<1>8. up' = Sent(Dialled, ms)
  BY DEF ms
<1>9. /\ Dialled \in Socket /\ Dialled[1] = "bridge" /\ up[Dialled] \in Seq(Msg)
      /\ \A x \in Socket : x # Dialled => up'[x] = up[x]
      /\ In(up'[Dialled]) \subseteq In(up[Dialled]) \cup In(ms)
  BY <1>1, <1>5, <1>8, ConnectorSpeaks
<1>10. RecordsLast' /\ Spoken' /\ Known'
  <2>1. \A x \in Socket : x[1] = "phone" => up'[x] = up[x]
    BY <1>9
  <2>2. In(down'["bridge"]) \subseteq In(down["bridge"]) /\ Chain(down'["bridge"], GreetedFirst)
    BY <1>1, <1>2, <1>3 DEF RecordsLast, q
  <2>3. \A b \in backend' : \/ b \in backend
                            \/ \E g \in PhoneSent : IsRecord(g, b.kind) /\ b = Tunnel(g.kind, g.id, g.of)
    BY <1>4, <1>7 DEF w
  <2> QED
    BY <1>1, <1>6, <2>1, <2>2, <2>3, ConnectorKnows
\* No hello is of a channel that the connector takes on only now.
<1>11. PICK s \in 0 .. MaxSessions : Agreed(c, phone, PhoneSent, BridgeSent, s)
  BY DEF RelayInv
<1>12. ASSUME NEW g \in BridgeSent', g.type = "relay/data"
       PROVE  /\ g.key \in Keys /\ g.key # None
              /\ (\A k \in In(ms) : k.type = "relay/handshake") => g \in Records(BridgeSent)
  <2>1. /\ Frame(g)
        /\ g \in In(down'["phone"]) \/ \E x \in Socket : x[1] = "bridge" /\ g \in In(up'[x])
    BY <1>1, <1>12, OnTheirWayNext
  <2>2. g \in In(down["phone"]) \cup In(ms) \/ \E x \in Socket : x[1] = "bridge" /\ g \in In(up[x])
    BY <1>2, <1>9, <2>1
  <2>3. g \in BridgeSent \/ g \in In(ms)
    BY <1>1, <2>1, <2>2, OnTheirWay
  <2>4. BridgeSent' \in SUBSET Frames /\ g \in Records(BridgeSent')
    BY <1>1, <1>12, OnTheirWayNext DEF Records
  <2>5. g.key \in Keys
    BY <2>4, FramesAre
  <2> QED
    BY <1>12, <2>3, <2>5, NoneIsNoKey DEF Records
<1>13. \/ \A g \in BridgeSent' : IsRecord(g, "hello") => g.key # d.channel
       \/ /\ d.channel = c.channel
          /\ c.live \subseteq d.live \/ \E g \in In(ms) : IsRecord(g, "unsubscribed")
          /\ \A g \in In(ms) : IsRecord(g, "hello") => g.of \in d.live
  <2>1. CASE d.channel = c.channel /\ d.live = c.live /\ \A g \in In(ms) : g.type = "relay/handshake"
    BY <2>1 DEF IsRecord
  <2>2. CASE d.channel = None
    BY <1>12, <2>2 DEF IsRecord
  <2>3. CASE /\ c.channel = None /\ d.channel = <<m.eph, OwnEphemeral(c)>>
             /\ \A g \in In(ms) : g.type = "relay/handshake"
    <3> SUFFICES ASSUME NEW g \in BridgeSent', g.type = "relay/data", g.key = <<m.eph, OwnEphemeral(c)>>
                 PROVE  FALSE
      BY <2>3 DEF IsRecord
    <3>1. g \in Records(BridgeSent) /\ g.key \in Keys
      BY <1>12, <2>3
    <3>2. g.key[2] = OwnEphemeral(c)
      OBVIOUS
    <3>3. Ours(c, phone, BridgeSent) /\ Shapes(c, phone, PhoneSent, BridgeSent)
      BY <1>11 DEF Agreed
    <3>4. g \in BridgeSent /\ Epoch(g) = g.key[2]
      BY <3>1 DEF Records, Epoch
    <3>5. g.key[2] <= c.ephemerals /\ c.ephemerals \in Nat
      BY <1>1, <3>3, <3>4 DEF Shapes, Connector
    <3>6. c.handshake # 0 => c.handshake = c.ephemerals /\ g.key[2] < c.ephemerals
      BY <3>1, <3>3 DEF Ours
    <3>7. g.key[2] \in Nat
      BY <3>1, KeyIsPair
    <3> QED
      BY <3>2, <3>5, <3>6, <3>7 DEF OwnEphemeral
  <2>4. CASE /\ d.channel = c.channel /\ d.live = c.live \ {c.stream}
             /\ IF c.stream \in c.live THEN \A g \in In(ms) : IsRecord(g, "unsubscribed")
                ELSE ms = <<>>
             /\ c.stream \in c.live => \E g \in In(ms) : IsRecord(g, "unsubscribed")
    <3>1. In(<<>>) = {}
      BY Emptied
    <3> QED
      BY <2>4, <3>1 DEF IsRecord
  <2> QED
    BY <1>6, <2>1, <2>2, <2>3, <2>4
\* What it works for, it has the channel of.
<1>14. ASSUME Meets, Facing'
       PROVE  /\ (phone.sub = "following" \/ phone.n \in d.live \/ \E b \in backend' : b.of = phone.n)
                   => d.channel = phone.channel
              /\ phone.sub = "following" /\ phone.hello \in c.live =>
                   phone.hello \in d.live \/ \E g \in In(ms) : IsRecord(g, "unsubscribed")
              /\ phone.sub = "asked" /\ Awaited => Awaited' \/ \E g \in In(ms) : Informs(g)
              /\ \A id \in phone.pending :
                   Wanted("request", id) => Wanted("request", id)' \/ \E g \in In(ms) : Replies(g, id)
  <2>1. Meeting /\ m # PeerOffline /\ phone.channel # None
    BY <1>3, <1>14, MeetsMeans DEF Meeting, Meets, q
  <2>2. m.type = "relay/data" => m.key = phone.channel /\ c.channel = phone.channel
    BY <1>1, <1>14, RecordFindsItsKey DEF m, q
  <2>3. (phone.sub = "following" \/ phone.n \in d.live \/ \E b \in backend : b.of = phone.n)
           => c.channel = phone.channel
    BY <1>1, <1>6, <1>14 DEF Reached
  <2>4. (phone.sub = "following" \/ phone.n \in d.live \/ \E b \in backend' : b.of = phone.n)
           => c.channel = phone.channel
    BY <1>4, <2>2, <2>3
  <2>5. c.channel = phone.channel => d.channel = phone.channel
    BY <1>6, <2>1
  <2>6. ASSUME NEW n \in c.live PROVE n \in d.live \/ \E g \in In(ms) : IsRecord(g, "unsubscribed")
    BY <1>6, <2>1, <2>6
  <2>7. ASSUME NEW k \in {"request", "subscribe"}, NEW id, Wanted(k, id) PROVE Wanted(k, id)'
    <3> DEFINE b == Tunnel(k, id, phone.n)
               g == Data(phone.channel, b)
    <3>1. g \in In(up[Session]) \cup In(q) \/ b \in backend
      BY <2>7 DEF Wanted, Outgoing, q
    <3>2. Session' = Session /\ up'[Session] = up[Session]
      <4>1. Session \in Socket /\ Session[1] = "phone"
        BY <2>1 DEF Meeting
      <4> QED
        BY <1>9, <4>1 DEF Session
    <3>3. g = m => b = w /\ taken
      <4> SUFFICES ASSUME g = m PROVE b = w /\ taken
        OBVIOUS
      <4>1. /\ m.type = "relay/data" /\ m.kind = k /\ m.id = id /\ m.of = phone.n
        BY DEF Data, Tunnel
      <4>2. m.key = c.channel
        BY <2>2, <4>1
      <4> QED
        BY <2>7, <4>1, <4>2 DEF w, BridgeOpens
    <3>4. g \in In(up'[Session]) \cup In(down'["bridge"]) \/ b \in backend'
      <4> HIDE DEF taken, g, b
      <4> QED
        BY <1>2, <1>3, <1>4, <3>1, <3>2, <3>3
    <3> QED
      BY <3>2, <3>4 DEF Wanted, Outgoing
  <2>8. phone.sub = "asked" /\ Awaited => Awaited' \/ \E g \in In(ms) : Informs(g)
    BY <2>6, <2>7 DEF Awaited, Informs
  <2> HIDE DEF c, d
  <2> QED
    BY <2>4, <2>5, <2>6, <2>7, <2>8
<1> HIDE DEF taken
<1> QED
  BY <1>1, <1>2, <1>5, <1>8, <1>10, <1>13, <1>14, ConnectorKeepsWait

\* A step after which the connector listens to no socket.
LEMMA ConnectorAwayWait ==
  ASSUME RelayInv, RelayTypeOK', WaitInv, phone' = phone, connector'.link # "open",
         NEW ms \in Seq(Msg), up' = Sent(Dialled, ms),
         down'["bridge"] \in {down["bridge"], <<>>, <<closed>>},
         In(down'["bridge"]) \subseteq In(down["bridge"]),
         backend' \subseteq backend, greeted' \subseteq greeted \cup connector.live,
         \A n \in connector'.live :
           n \in connector.live \/ \E r \in backend : r.kind = "subscribe" /\ r.of = n
  PROVE  WaitInv'
<1>1. RelayTypeOK /\ RecordsLast
  BY DEF RelayInv, WaitInv
<1>2. \A x \in Socket : x[1] = "phone" => up'[x] = up[x]
  <2>1. Dialled[1] = "bridge" /\ (Dialled \in open => Dialled \in Socket)
    BY <1>1 DEF Dialled, RelayTypeOK
  <2>2. \A x \in Socket : x # Dialled => up'[x] = up[x]
    BY <1>1, <2>1, SentIs
  <2> QED
    BY <2>1, <2>2
<1>3. Chain(down'["bridge"], GreetedFirst)
  <2>1. closed \in Msg
    BY RelaySays
  <2>2. Chain(<<>>, GreetedFirst) /\ Chain(<<closed>>, GreetedFirst)
    BY <2>1, Emptied, Single
  <2> QED
    BY <1>1, <2>2 DEF RecordsLast
<1>4. RecordsLast' /\ Spoken' /\ Known'
  BY <1>2, <1>3, ConnectorKnows
<1> QED
  BY <1>4, ConnectorDroppedWait

\* What ends a connection ends the stream at hand, and adds none.
LEMMA TornStreams ==
  ASSUME NEW c \in Connector
  PROVE  Torn(c).live \subseteq c.live /\ RedialLater(Torn(c)).live = Torn(c).live
<1> DEFINE u == Ungreeted(c)
           t == [u EXCEPT !.handshake = 0, !.signed = FALSE, !.channel = None,
                          !.link = IF u.link = "open" THEN "closing" ELSE "closed"]
<1>1. u \in Connector
  BY UngreetedIs
<1>2. u.live \subseteq c.live
  BY DEF Ungreeted, Connector
<1> HIDE DEF u
<1>3. t.live = u.live
  BY <1>1 DEF Connector
<1>4. Torn(c) = t
  BY DEF Torn, u
<1>5. Torn(c) \in Connector
  BY TornIs
<1>6. RedialLater(Torn(c)).live = Torn(c).live
  BY <1>5 DEF RedialLater, Connector
<1> HIDE DEF t
<1> QED
  BY <1>2, <1>3, <1>4, <1>6

LEMMA OnControlFails ==
  ASSUME NEW c \in Connector, NEW m \in Msg, m # closed, OnControl(c, m).closes
  PROVE  OnControl(c, m).object.live \subseteq c.live
<1> DEFINE r == OnControl(c, m)
<1>1. /\ m = Registered => r = Step([c EXCEPT !.state = "registered"], <<>>)
      /\ m = PeerOnline => r = BeginSeal(c)
      /\ m = PeerOffline => r = Step(OnPeerOffline(c), <<>>)
      /\ m.type = "relay/handshake" => r = OnSealHandshake(c, m)
      /\ m.type = "relay/data" => r \in {CloseStream(c), Step(c, <<>>), Fail(c, <<>>)}
      /\ ~ Frame(m) /\ m \notin {Registered, PeerOnline, PeerOffline} =>
           r \in {Step(c, <<>>), Fail(c, <<>>)}
  BY OnControlIs
<1>2. \A d, ms : ~ Step(d, ms).closes
  BY DEF Step
<1>3. ~ BeginSeal(c).closes
  BY BeginSealIs
<1>4. ~ CloseStream(c).closes
  BY <1>2 DEF CloseStream
<1>5. \A d \in Connector : \A ms : Fail(d, ms).object.live \subseteq d.live
  BY TornStreams DEF Fail
<1> HIDE DEF r
<1>6. r = Fail(c, <<>>) \/ (m.type = "relay/handshake" /\ r = OnSealHandshake(c, m))
  BY <1>1, <1>2, <1>3, <1>4 DEF Frame, r
<1>7. CASE r = OnSealHandshake(c, m)
  <2> DEFINE begun == BeginSeal(c)
             b == begun.object
             own == b.handshake
             signed == [b EXCEPT !.signed = TRUE]
             sent == begun.sent \o (IF b.signed THEN <<>> ELSE <<BridgeSigned(own, m.eph)>>)
             done == [signed EXCEPT !.channel = m.sig, !.handshake = 0, !.state = "tunneled"]
             x == BridgeCompletes(own, m)
  <2>1. r = IF c.channel # None THEN Fail(c, <<>>)
            ELSE IF m.sig = None THEN Step(signed, sent)
            ELSE IF x THEN Step(done, sent)
            ELSE Fail(signed, sent)
    BY <1>7 DEF OnSealHandshake
  <2>2. b \in Connector
    BY BeginSealIs
  <2>3. b.live = c.live
    BY DEF BeginSeal, Step, Connector
  <2> HIDE DEF b
  <2>4. signed \in Connector /\ signed.live = c.live
    BY <2>2, <2>3 DEF Connector
  <2> HIDE DEF signed, sent, done
  <2>5. r = Fail(c, <<>>) \/ r = Fail(signed, sent)
    BY <1>2, <2>1 DEF r
  <2> QED
    BY <1>5, <2>4, <2>5 DEF r
<1> QED
  BY <1>5, <1>6, <1>7 DEF r

LEMMA OpenedIsTaken ==
  ASSUME NEW c, NEW m, m.type = "relay/data", BridgeOpens(c, m)
  PROVE  ~ OnControl(c, m).closes
<1> DEFINE r == OnControl(c, m)
           t == OnTunnel(c, m)
<1>1. r = CASE m = Registered -> Step([c EXCEPT !.state = "registered"], <<>>)
            [] m = PeerOnline -> BeginSeal(c)
            [] m = PeerOffline -> Step(OnPeerOffline(c), <<>>)
            [] m.type = "relay/handshake" -> OnSealHandshake(c, m)
            [] m.type = "relay/data" -> t
            [] m = Error("routing-id-taken") -> Fail(c, <<>>)
            [] OTHER -> Step(c, <<>>)
  BY DEF OnControl
<1>2. ~ t.closes
  BY DEF OnTunnel, CloseStream, Step
<1> HIDE DEF r, t
<1>3. r = t
  BY <1>1 DEF Registered, PeerOnline, PeerOffline, Error
<1> QED
  BY <1>2, <1>3 DEF r

LEMMA ConnectorReadsWait ==
  ASSUME RelayInv, RelayInv', WaitInv, ConnectorReads
  PROVE  WaitInv'
<1> DEFINE m == Head(down["bridge"])
           r == OnControl(connector, m)
           ms == r.sent \o (IF r.closes THEN <<closed>> ELSE <<>>)
<1>1. /\ HearsClose(Dialled) /\ down["bridge"] # <<>> /\ phone' = phone /\ greeted' = greeted
      /\ peers' = peers /\ open' = open /\ overQuota' = overQuota
  BY DEF ConnectorReads
<1>2. /\ RelayTypeOK /\ RelayTypeOK' /\ Sockets
      /\ connector \in Connector /\ down \in [End -> Seq(Msg)] /\ "bridge" \in End
      /\ "phone" \in End /\ connector.link \in {"open", "closing"}
  <2>1. RelayTypeOK /\ RelayTypeOK' /\ Sockets
    BY DEF RelayInv
  <2> QED
    BY <1>1, <2>1, EndIs, OwnIs DEF RelayTypeOK
<1>3. m \in Msg /\ m \in In(down["bridge"])
      /\ Tail(down["bridge"]) \in Seq(Msg) /\ In(Tail(down["bridge"])) \subseteq In(down["bridge"])
  <2>1. down["bridge"] \in Seq(Msg)
    BY <1>2
  <2> QED
    BY <1>1, <2>1, Headed
<1>4. CASE m = closed
  <2>1. /\ connector' = [RedialLater(Torn(connector)) EXCEPT !.link = "closed"]
        /\ down' = [down EXCEPT !["bridge"] = <<>>] /\ up' = up /\ backend' = backend
    BY <1>4 DEF ConnectorReads
  <2> DEFINE e == RedialLater(Torn(connector))
  <2>2. e \in Connector /\ e.live \subseteq connector.live /\ connector' = [e EXCEPT !.link = "closed"]
    BY <1>2, <2>1, TornIs, TornStreams
  <2> HIDE DEF e
  <2>3. connector'.live \subseteq connector.live /\ connector'.link = "closed"
    BY <2>2 DEF Connector
  <2>4. down'["bridge"] = <<>> /\ In(<<>>) = {}
    BY <1>2, <2>1, Emptied
  <2>5. up' = Sent(Dialled, <<>>) /\ <<>> \in Seq(Msg)
    BY <1>2, <2>1, SaysNothing
  <2> QED
    BY <1>1, <1>2, <2>1, <2>3, <2>4, <2>5, ConnectorAwayWait
<1>5. CASE m # closed
  <2>1. /\ connector' = r.object /\ up' = Sent(Dialled, ms)
        /\ down' = [down EXCEPT !["bridge"] = IF r.closes THEN Closes(Tail(down["bridge"]))
                                              ELSE Tail(down["bridge"])]
        /\ backend' = IF m.type = "relay/data" /\ BridgeOpens(connector, m)
                         /\ m.kind \in {"request", "subscribe"}
                      THEN backend \cup {Tunnel(m.kind, m.id, m.of)} ELSE backend
    BY <1>5 DEF ConnectorReads
  <2>2. Sound(connector, m, r)
    BY <1>2, <1>3, <1>5, OnControlSound
  <2>3. r.sent \in Seq(Msg) /\ (r.closes => r.object.link \in {"closing", "closed"})
    BY <2>2 DEF Sound
  <2>4. connector.link = "open"
    BY <1>2, <1>3, <1>5 DEF Sockets
  <2>5. CASE r.closes
    <3>1. ms \in Seq(Msg)
      BY <2>3, WithItsClose
    <3>2. down'["bridge"] = Closes(Tail(down["bridge"]))
      BY <1>2, <2>1, <2>5
    <3>3. down'["bridge"] \in {<<>>, <<closed>>} /\ In(down'["bridge"]) \subseteq In(down["bridge"])
      BY <1>3, <3>2, ClosingIs
    <3>4. connector'.live \subseteq connector.live
      BY <1>2, <1>3, <1>5, <2>1, <2>5, OnControlFails
    <3>5. backend' = backend
      BY <2>1, <2>5, OpenedIsTaken
    <3> HIDE DEF ms
    <3> QED
      BY <1>1, <1>2, <2>1, <2>3, <2>5, <3>1, <3>3, <3>4, <3>5, ConnectorAwayWait
  <2>6. CASE ~ r.closes
    <3>1. ms = r.sent
      <4>1. ms = r.sent \o <<>>
        BY <2>6
      <4> QED
        BY <2>3, <4>1, ConcatEmptySeq
    <3>2. up' = Sent(Dialled, r.sent) /\ down' = [down EXCEPT !["bridge"] = Tail(down["bridge"])]
      BY <2>1, <2>6, <3>1
    <3> QED
      BY <1>1, <1>5, <2>1, <2>4, <2>6, <3>2, ConnectorHearsWait
  <2> QED
    BY <2>5, <2>6
<1> QED
  BY <1>4, <1>5

\* A step of the connector that reads nothing: what it has to say it says on its channel, and
\* whom it serves it has the channel of.
LEMMA ConnectorTellsWait ==
  ASSUME RelayInv, RelayInv', WaitInv, phone' = phone, peers' = peers, open' = open, down' = down,
         overQuota' = overQuota, KeepsSocket(connector, connector'),
         connector'.channel = connector.channel,
         backend' \subseteq backend, greeted' \subseteq greeted \cup connector.live,
         \A n \in connector'.live :
           n \in connector.live \/ \E r \in backend : r.kind = "subscribe" /\ r.of = n,
         NEW ms \in Seq(Msg), up' = Sent(Dialled, ms),
         connector.channel # None /\ connector.link = "open" =>
           /\ connector.live \subseteq connector'.live \/ \E g \in In(ms) : IsRecord(g, "unsubscribed")
           /\ \A g \in In(ms) : IsRecord(g, "hello") => g.of \in connector'.live,
         Meets /\ connector.link = "open" =>
           /\ phone.sub = "following" /\ phone.hello \in connector.live =>
                phone.hello \in connector'.live \/ \E g \in In(ms) : IsRecord(g, "unsubscribed")
           /\ phone.sub = "asked" /\ Awaited => Awaited' \/ \E g \in In(ms) : Informs(g)
           /\ \A id \in phone.pending :
                Wanted("request", id) => Wanted("request", id)' \/ \E g \in In(ms) : Replies(g, id)
  PROVE  WaitInv'
<1>1. /\ RelayTypeOK /\ RelayTypeOK' /\ RecordsLast /\ Reached
      /\ connector'.n = connector.n /\ connector'.link = connector.link
  BY DEF RelayInv, WaitInv, KeepsSocket
<1>2. CASE connector.link # "open"
  BY <1>1, <1>2, ConnectorAwayWait
<1>3. CASE connector.link = "open"
  <2>1. /\ Dialled[1] = "bridge"
        /\ \A x \in Socket : x # Dialled => up'[x] = up[x]
    BY <1>1, <1>3, ConnectorSpeaks
  <2>2. \A x \in Socket : x[1] = "phone" => up'[x] = up[x]
    BY <2>1
  <2>3. RecordsLast' /\ Spoken' /\ Known'
    BY <1>1, <2>2, ConnectorKnows DEF RecordsLast
  <2>4. \A g \in BridgeSent' : g.type = "relay/data" => g.key # None
    <3>1. BridgeSent' \in SUBSET Frames
      BY <1>1, OnTheirWayNext
    <3> QED
      BY <3>1, FramesAre DEF Records
  <2>5. \/ \A g \in BridgeSent' : IsRecord(g, "hello") => g.key # connector'.channel
        \/ /\ connector'.channel = connector.channel
           /\ connector.live \subseteq connector'.live \/ \E g \in In(ms) : IsRecord(g, "unsubscribed")
           /\ \A g \in In(ms) : IsRecord(g, "hello") => g.of \in connector'.live
    BY <1>3, <2>4 DEF IsRecord
  <2>6. ASSUME Meets
        PROVE  (phone.sub = "following" \/ phone.n \in connector'.live \/ \E r \in backend' : r.of = phone.n)
                 => connector'.channel = phone.channel
    BY <1>1, <2>6 DEF Reached
  <2> QED
    BY <1>1, <1>3, <2>3, <2>5, <2>6, ConnectorKeepsWait
<1> QED
  BY <1>2, <1>3

\* What it says is one record, if it has a channel.
IsTunnel(m, kind, id, of) == IsRecord(m, kind) /\ m.id = id /\ m.of = of
LEMMA SaysOneRecord ==
  ASSUME RelayTypeOK, NEW k \in Kinds, NEW i \in Nat, NEW n \in Nat
  PROVE  LET ms == SendTunnel(connector, Tunnel(k, i, n))
         IN  /\ ms \in Seq(Msg)
             /\ \A x \in In(ms) : IsTunnel(x, k, i, n)
             /\ connector.channel # None /\ connector.link = "open" => \E x \in In(ms) : x \in Msg
<1> DEFINE g == Data(connector.channel, Tunnel(k, i, n))
           ms == SendTunnel(connector, Tunnel(k, i, n))
<1>1. /\ ms \in Seq(Msg)
      /\ ms = <<>> \/ (ms = <<g>> /\ g \in Msg)
      /\ connector.channel # None /\ connector.link = "open" => ms # <<>>
  <2>1. connector \in Connector
    BY DEF RelayTypeOK
  <2>2. /\ ms \in Seq(Msg)
        /\ connector.channel = None \/ connector.link # "open" => ms = <<>>
        /\ connector.channel # None /\ connector.link = "open" => ms = <<g>> /\ g \in Record
    BY <2>1, SendTunnelIs
  <2> HIDE DEF g, ms
  <2>3. g \in Record => g \in Msg
    BY DEF Msg
  <2>4. <<g>> # <<>>
    OBVIOUS
  <2> QED
    BY <2>2, <2>3, <2>4
<1>2. g.type = "relay/data" /\ g.kind = k /\ g.id = i /\ g.of = n
  BY DEF Data, Tunnel
<1> HIDE DEF g, ms
<1>3. In(<<>>) = {} /\ (g \in Msg => In(<<g>>) = {g})
  BY Single, Emptied
<1>4. /\ \A x \in In(ms) : x = g
      /\ ms # <<>> => \E x \in In(ms) : x \in Msg
  BY <1>1, <1>3
<1> QED
  BY <1>1, <1>2, <1>4 DEF IsRecord, IsTunnel, ms

\* While a session is served, the connector has its channel.
LEMMA ServedHere ==
  ASSUME RelayInv, WaitInv, Meets,
         phone.sub = "following" \/ phone.n \in connector.live \/ \E r \in backend : r.of = phone.n
  PROVE  connector.channel = phone.channel /\ connector.channel # None
BY DEF WaitInv, Reached, Meets

LEMMA WorkIs ==
  ASSUME NEW r \in Work
  PROVE  r = Tunnel(r.kind, r.id, r.of) /\ r.id \in Nat /\ r.of \in Nat
BY DEF Work, Tunnel

\* What the connector says changes nothing of what comes to it.
LEMMA OutgoingStays ==
  ASSUME RelayInv, Meets, phone' = phone, down' = down, NEW ms \in Seq(Msg), up' = Sent(Dialled, ms)
  PROVE  Outgoing' = Outgoing
<1>1. RelayTypeOK /\ Session \in Socket /\ Session[1] = "phone" /\ Session' = Session
  BY MeetsMeans DEF RelayInv, Meeting, Session
<1>2. Dialled[1] = "bridge" /\ (Dialled \in open => Dialled \in Socket)
  BY <1>1 DEF Dialled, RelayTypeOK
<1>3. \A x \in Socket : x # Dialled => up'[x] = up[x]
  BY <1>1, <1>2, SentIs
<1>4. up'[Session] = up[Session]
  BY <1>1, <1>2, <1>3
<1> QED
  BY <1>1, <1>4 DEF Outgoing

\* What the bridge's own routes are done with: another's work, or that of a session whose
\* channel the connector has.
LEMMA WorkLeaves ==
  ASSUME RelayInv, WaitInv, Meets, phone' = phone, Outgoing' = Outgoing,
         NEW r \in backend, backend' = backend \ {r}, NEW k, NEW id, Wanted(k, id)
  PROVE  \/ Wanted(k, id)'
         \/ r.kind = k /\ r.id = id /\ r.of = phone.n /\ connector.channel # None
<1> DEFINE b == Tunnel(k, id, phone.n)
           d == Data(phone.channel, b)
<1>1. d \in Outgoing' \/ b \in backend
  BY DEF Wanted
<1>2. CASE b = r
  <2>1. r.of = phone.n /\ r.id = id /\ r.kind = k
    BY <1>2 DEF Tunnel
  <2>2. connector.channel # None
    BY <2>1, ServedHere
  <2> QED
    BY <2>1, <2>2
<1>3. CASE b # r
  <2>1. d \in Outgoing' \/ b \in backend'
    BY <1>1, <1>3
  <2> QED
    BY <2>1 DEF Wanted
<1> QED
  BY <1>2, <1>3

LEMMA BackendAnswersWait ==
  ASSUME RelayInv, RelayInv', WaitInv, NEW r \in backend, BackendAnswers(r)
  PROVE  WaitInv'
<1> DEFINE ms == SendTunnel(connector, Tunnel("response", r.id, r.of))
<1>1. /\ connector' = connector /\ phone' = phone /\ peers' = peers /\ open' = open /\ down' = down
      /\ overQuota' = overQuota /\ greeted' = greeted /\ up' = Sent(Dialled, ms)
      /\ r.kind = "request" /\ backend' = backend \ {r}
  BY DEF BackendAnswers
<1>2. RelayTypeOK /\ RelayTypeOK' /\ "response" \in Kinds /\ r.id \in Nat /\ r.of \in Nat
  BY WorkIs DEF RelayInv, RelayTypeOK, Kinds
<1>3. /\ ms \in Seq(Msg) /\ \A x \in In(ms) : IsTunnel(x, "response", r.id, r.of)
      /\ connector.channel # None /\ connector.link = "open" => \E x \in In(ms) : x \in Msg
  BY <1>2, SaysOneRecord
<1>4. KeepsSocket(connector, connector') /\ connector'.channel = connector.channel
  BY <1>1 DEF KeepsSocket
<1> HIDE DEF ms
<1>5. ASSUME connector.channel # None, connector.link = "open"
      PROVE  /\ connector.live \subseteq connector'.live
             /\ \A k \in In(ms) : IsRecord(k, "hello") => k.of \in connector'.live
  BY <1>1, <1>3, <1>5 DEF IsRecord, IsTunnel
<1>6. ASSUME Meets, NEW k, NEW id, Wanted(k, id)
      PROVE  Wanted(k, id)' \/ (r.kind = k /\ r.id = id /\ connector.channel # None)
  <2>1. Outgoing' = Outgoing
    BY <1>1, <1>3, <1>6, OutgoingStays
  <2> QED
    BY <1>1, <1>6, <2>1, WorkLeaves
<1>7. ASSUME Meets, connector.link = "open"
      PROVE  /\ phone.sub = "following" /\ phone.hello \in connector.live =>
                  phone.hello \in connector'.live \/ \E x \in In(ms) : IsRecord(x, "unsubscribed")
             /\ phone.sub = "asked" /\ Awaited => Awaited' \/ \E x \in In(ms) : Informs(x)
             /\ \A id \in phone.pending :
                  Wanted("request", id) => Wanted("request", id)' \/ \E x \in In(ms) : Replies(x, id)
  <2>1. Wanted("subscribe", phone.subId) => Wanted("subscribe", phone.subId)'
    BY <1>1, <1>6, <1>7
  <2>2. Awaited => Awaited'
    BY <1>1, <2>1 DEF Awaited
  <2>3. \A id : Wanted("request", id) => Wanted("request", id)' \/ \E x \in In(ms) : Replies(x, id)
    BY <1>3, <1>6, <1>7 DEF Replies, IsTunnel
  <2> QED
    BY <1>1, <2>2, <2>3
<1> QED
  BY <1>1, <1>3, <1>4, <1>5, <1>7, ConnectorTellsWait

LEMMA SubscribeAnsweredWait ==
  ASSUME RelayInv, RelayInv', WaitInv, NEW r \in backend, SubscribeAnswered(r)
  PROVE  WaitInv'
<1> DEFINE ms == SendTunnel(connector, Tunnel("subscribe-failed", r.id, r.of))
<1>1. /\ phone' = phone /\ peers' = peers /\ open' = open /\ down' = down
      /\ overQuota' = overQuota /\ greeted' = greeted
      /\ r.kind = "subscribe" /\ backend' = backend \ {r}
  BY DEF SubscribeAnswered
<1>2. /\ RelayTypeOK /\ RelayTypeOK' /\ "subscribe-failed" \in Kinds /\ r.id \in Nat /\ r.of \in Nat
      /\ connector \in Connector
  BY WorkIs DEF RelayInv, RelayTypeOK, Kinds
<1>3. CASE up' = Sent(Dialled, ms) /\ connector' = connector
  <2>1. /\ ms \in Seq(Msg) /\ \A x \in In(ms) : IsTunnel(x, "subscribe-failed", r.id, r.of)
        /\ connector.channel # None /\ connector.link = "open" => \E x \in In(ms) : x \in Msg
    BY <1>2, SaysOneRecord
  <2>2. KeepsSocket(connector, connector') /\ connector'.channel = connector.channel
    BY <1>3 DEF KeepsSocket
  <2>3. up' = Sent(Dialled, ms)
    BY <1>3
  <2> HIDE DEF ms
  <2>4. ASSUME connector.channel # None, connector.link = "open"
        PROVE  /\ connector.live \subseteq connector'.live
               /\ \A k \in In(ms) : IsRecord(k, "hello") => k.of \in connector'.live
    BY <1>3, <2>1, <2>4 DEF IsRecord, IsTunnel
  <2>5. ASSUME Meets, NEW k, NEW id, Wanted(k, id)
        PROVE  Wanted(k, id)' \/ (r.kind = k /\ r.id = id /\ connector.channel # None)
    <3>1. Outgoing' = Outgoing
      BY <1>1, <2>1, <2>3, <2>5, OutgoingStays
    <3> QED
      BY <1>1, <2>5, <3>1, WorkLeaves
  <2>6. ASSUME Meets, connector.link = "open"
        PROVE  /\ phone.sub = "following" /\ phone.hello \in connector.live =>
                    phone.hello \in connector'.live \/ \E x \in In(ms) : IsRecord(x, "unsubscribed")
               /\ phone.sub = "asked" /\ Awaited => Awaited' \/ \E x \in In(ms) : Informs(x)
               /\ \A id \in phone.pending :
                    Wanted("request", id) => Wanted("request", id)' \/ \E x \in In(ms) : Replies(x, id)
    <3>1. \/ Wanted("subscribe", phone.subId) => Wanted("subscribe", phone.subId)'
          \/ r.id = phone.subId /\ connector.channel # None
      BY <1>1, <2>5, <2>6
    <3>2. r.id = phone.subId /\ connector.channel # None => \E x \in In(ms) : Informs(x)
      BY <2>1, <2>6 DEF Informs, IsTunnel
    <3>3. Awaited => Awaited' \/ \E x \in In(ms) : Informs(x)
      BY <1>1, <1>3, <3>1, <3>2 DEF Awaited
    <3>4. \A id : Wanted("request", id) => Wanted("request", id)'
      BY <1>1, <2>5, <2>6
    <3> QED
      BY <1>3, <3>3, <3>4
  <2> QED
    BY <1>1, <1>3, <2>1, <2>2, <2>3, <2>4, <2>6, ConnectorTellsWait
<1>4. CASE StreamOpens(r) /\ up' = up
  <2>1. /\ KeepsSocket(connector, connector') /\ connector'.channel = connector.channel
        /\ connector'.live = connector.live \cup {r.of}
    BY <1>2, <1>4 DEF StreamOpens, Connector, KeepsSocket
  <2>2. up' = Sent(Dialled, <<>>) /\ <<>> \in Seq(Msg) /\ In(<<>>) = {}
    BY <1>2, <1>4, SaysNothing, Emptied
  <2>3. \A n \in connector'.live : n \in connector.live \/ \E b \in backend : b.kind = "subscribe" /\ b.of = n
    BY <1>1, <2>1
  <2>4. ASSUME Meets, NEW k, NEW id, Wanted(k, id)
        PROVE  Wanted(k, id)' \/ (r.kind = k /\ r.id = id /\ r.of = phone.n)
    <3>1. Outgoing' = Outgoing
      BY <1>1, <2>2, <2>4, OutgoingStays
    <3> QED
      BY <1>1, <2>4, <3>1, WorkLeaves
  <2>5. ASSUME Meets, connector.link = "open"
        PROVE  /\ phone.sub = "following" /\ phone.hello \in connector.live => phone.hello \in connector'.live
               /\ phone.sub = "asked" /\ Awaited => Awaited'
               /\ \A id \in phone.pending : Wanted("request", id) => Wanted("request", id)'
    <3>1. (Wanted("subscribe", phone.subId) => Wanted("subscribe", phone.subId)') \/ r.of = phone.n
      BY <1>1, <2>4, <2>5
    <3>2. Awaited => Awaited'
      BY <1>1, <2>1, <3>1 DEF Awaited
    <3>3. \A id : Wanted("request", id) => Wanted("request", id)'
      BY <1>1, <2>4, <2>5
    <3> QED
      BY <2>1, <3>2, <3>3
  <2>6. backend' \subseteq backend /\ connector.live \subseteq connector'.live
    BY <1>1, <2>1
  <2> QED
    BY <1>1, <2>1, <2>2, <2>3, <2>5, <2>6, ConnectorTellsWait
<1> QED
  BY <1>3, <1>4 DEF SubscribeAnswered

LEMMA StreamGreetsWait ==
  ASSUME RelayInv, RelayInv', WaitInv, NEW n \in connector.live, StreamGreets(n)
  PROVE  WaitInv'
<1> DEFINE ms == SendTunnel(connector, Tunnel("hello", 0, n))
<1>1. /\ connector' = connector /\ phone' = phone /\ peers' = peers /\ open' = open /\ down' = down
      /\ overQuota' = overQuota /\ backend' = backend /\ up' = Sent(Dialled, ms)
      /\ greeted' = greeted \cup {n}
  BY DEF StreamGreets
<1>2. n \in Nat /\ RelayTypeOK /\ RelayTypeOK' /\ "hello" \in Kinds
  BY DEF RelayInv, RelayTypeOK, Connector, Kinds
<1>3. /\ ms \in Seq(Msg) /\ \A x \in In(ms) : IsTunnel(x, "hello", 0, n)
      /\ connector.channel # None /\ connector.link = "open" => \E x \in In(ms) : x \in Msg
  BY <1>2, SaysOneRecord
<1>4. KeepsSocket(connector, connector') /\ connector'.channel = connector.channel
  BY <1>1 DEF KeepsSocket
<1> HIDE DEF ms
<1>5. \A k \in In(ms) : IsRecord(k, "hello") => k.of \in connector'.live
  BY <1>1, <1>3 DEF IsTunnel
<1>6. ASSUME Meets, connector.link = "open"
      PROVE  /\ phone.sub = "asked" /\ Awaited => Awaited' \/ \E x \in In(ms) : Informs(x)
             /\ \A id \in phone.pending : Wanted("request", id) => Wanted("request", id)'
  <2>1. Outgoing' = Outgoing
    BY <1>1, <1>3, <1>6, OutgoingStays
  <2>2. \A k, id : Wanted(k, id) => Wanted(k, id)'
    BY <1>1, <2>1 DEF Wanted
  <2>3. CASE n = phone.n
    <3>1. connector.channel # None
      BY <1>6, <2>3, ServedHere
    <3>2. \E x \in In(ms) : Informs(x)
      BY <1>3, <1>6, <3>1 DEF Informs, IsTunnel
    <3> QED
      BY <2>2, <3>2
  <2>4. CASE n # phone.n
    <3>1. Awaited => Awaited'
      BY <1>1, <2>2, <2>4 DEF Awaited
    <3> QED
      BY <2>2, <3>1
  <2> QED
    BY <2>3, <2>4
<1> QED
  BY <1>1, <1>3, <1>4, <1>5, <1>6, ConnectorTellsWait

LEMMA StreamEndsWait ==
  ASSUME RelayInv, RelayInv', WaitInv, NEW n \in connector.live, StreamEnds(n)
  PROVE  WaitInv'
<1> DEFINE ms == SendTunnel(connector, Tunnel("unsubscribed", 0, n))
<1>1. /\ phone' = phone /\ peers' = peers /\ open' = open /\ down' = down
      /\ overQuota' = overQuota /\ backend' = backend /\ up' = Sent(Dialled, ms)
      /\ greeted' = greeted /\ connector' = [connector EXCEPT !.stream = 0, !.live = connector.live \ {n}]
  BY DEF StreamEnds, Unsubscribed
<1>2. n \in Nat /\ RelayTypeOK /\ RelayTypeOK' /\ "unsubscribed" \in Kinds /\ connector \in Connector
  BY DEF RelayInv, RelayTypeOK, Connector, Kinds
<1>3. /\ ms \in Seq(Msg) /\ \A x \in In(ms) : IsTunnel(x, "unsubscribed", 0, n)
      /\ connector.channel # None /\ connector.link = "open" => \E x \in In(ms) : x \in Msg
  BY <1>2, SaysOneRecord
<1>4. /\ KeepsSocket(connector, connector') /\ connector'.channel = connector.channel
      /\ connector'.live = connector.live \ {n}
  BY <1>1, <1>2 DEF KeepsSocket, Connector
<1> HIDE DEF ms
<1>5. /\ \A k \in In(ms) : ~ IsRecord(k, "hello")
      /\ connector.channel # None /\ connector.link = "open" =>
           \E x \in In(ms) : IsRecord(x, "unsubscribed") /\ Informs(x)
  BY <1>3 DEF IsTunnel, IsRecord, Informs
<1>6. ASSUME Meets, connector.link = "open"
      PROVE  /\ phone.sub = "following" /\ phone.hello \in connector.live =>
                  phone.hello \in connector'.live \/ \E x \in In(ms) : IsRecord(x, "unsubscribed")
             /\ phone.sub = "asked" /\ Awaited => Awaited' \/ \E x \in In(ms) : Informs(x)
             /\ \A id \in phone.pending : Wanted("request", id) => Wanted("request", id)'
  <2>1. Outgoing' = Outgoing
    BY <1>1, <1>3, <1>6, OutgoingStays
  <2>2. \A k, id : Wanted(k, id) => Wanted(k, id)'
    BY <1>1, <2>1 DEF Wanted
  <2>3. CASE phone.sub = "following" \/ n = phone.n
    <3>1. connector.channel # None
      BY <1>6, <2>3, ServedHere
    <3> QED
      BY <1>5, <1>6, <2>2, <3>1
  <2>4. CASE phone.sub # "following" /\ n # phone.n
    <3>1. Awaited => Awaited'
      BY <1>1, <1>4, <2>2, <2>4 DEF Awaited
    <3> QED
      BY <2>2, <2>4, <3>1
  <2> QED
    BY <2>3, <2>4
<1> QED
  BY <1>1, <1>3, <1>4, <1>5, <1>6, ConnectorTellsWait

LEMMA ConnectorStopsWait ==
  ASSUME RelayInv, RelayInv', WaitInv, ConnectorStops
  PROVE  WaitInv'
<1>1. /\ phone' = phone /\ backend' = backend /\ greeted' = greeted
      /\ down' = [down EXCEPT !["bridge"] = <<>>]
      /\ connector' = [Torn(connector) EXCEPT !.stopped = TRUE, !.state = "idle", !.timers = 0]
      /\ up' = IF connector.link = "open" THEN Sent(Dialled, <<closed>>) ELSE up
  BY DEF ConnectorStops
<1>2. /\ RelayTypeOK /\ RelayTypeOK' /\ connector \in Connector
      /\ down'["bridge"] = <<>> /\ In(<<>>) = {}
  BY <1>1, EndIs, Emptied DEF RelayInv, RelayTypeOK
<1> DEFINE e == Torn(connector)
<1>3. /\ e \in Connector /\ e.link \in {"closing", "closed"} /\ e.live \subseteq connector.live
      /\ connector' = [e EXCEPT !.stopped = TRUE, !.state = "idle", !.timers = 0]
  BY <1>1, <1>2, TornIs, TornStreams
<1> HIDE DEF e
<1>4. connector'.link # "open" /\ connector'.live \subseteq connector.live
  BY <1>3 DEF Connector
<1>5. up' = Sent(Dialled, <<closed>>) \/ up' = Sent(Dialled, <<>>)
  BY <1>1, <1>2, SaysNothing
<1>6. <<>> \in Seq(Msg) /\ <<closed>> \in Seq(Msg)
  BY <1>2, SaysNothing
<1> QED
  BY <1>1, <1>2, <1>4, <1>5, <1>6, ConnectorAwayWait

LEMMA ConnectorSocketFailsWait ==
  ASSUME RelayInv, RelayInv', WaitInv, ConnectorSocketFails
  PROVE  WaitInv'
<1>1. /\ phone' = phone /\ backend' = backend /\ greeted' = greeted /\ down' = down /\ up' = up
      /\ connector.link = "dialing" /\ connector' = RedialLater(Torn(connector))
  BY DEF ConnectorSocketFails
<1>2. RelayTypeOK /\ RelayTypeOK' /\ connector \in Connector
  BY DEF RelayInv, RelayTypeOK
<1>3. connector'.link = "closed" /\ connector'.live \subseteq connector.live
  BY <1>1, <1>2, TornIs, TornStreams
<1>4. up' = Sent(Dialled, <<>>) /\ <<>> \in Seq(Msg)
  BY <1>1, <1>2, SaysNothing
<1> QED
  BY <1>1, <1>2, <1>3, <1>4, ConnectorAwayWait

LEMMA ConnectorDialsWait ==
  ASSUME RelayInv, RelayInv', WaitInv, ConnectorDials
  PROVE  WaitInv'
<1>1. /\ phone' = phone /\ backend' = backend /\ greeted' = greeted /\ up' = up
      /\ down' = [down EXCEPT !["bridge"] = <<>>]
      /\ connector' \in {Dial(connector), [Dial(connector) EXCEPT !.timers = connector.timers - 1]}
  BY DEF ConnectorDials, Dial
<1>2. /\ RelayTypeOK /\ RelayTypeOK' /\ connector \in Connector
      /\ down'["bridge"] = <<>> /\ In(<<>>) = {}
  BY <1>1, EndIs, Emptied DEF RelayInv, RelayTypeOK
<1>3. connector'.link = "dialing" /\ connector'.live = connector.live
  BY <1>1, <1>2 DEF Dial, Connector
<1>4. up' = Sent(Dialled, <<>>) /\ <<>> \in Seq(Msg)
  BY <1>1, <1>2, SaysNothing
<1> QED
  BY <1>1, <1>2, <1>3, <1>4, ConnectorAwayWait

LEMMA ConnectorSocketOpensWait ==
  ASSUME RelayInv, RelayInv', WaitInv, ConnectorSocketOpens
  PROVE  WaitInv'
<1>1. /\ phone' = phone /\ peers' = peers /\ down' = down /\ backend' = backend /\ greeted' = greeted
      /\ connector.link = "dialing" /\ connector' = [connector EXCEPT !.link = "open"]
      /\ up' = [up EXCEPT ![Dialled] = <<Register>>]
  BY DEF ConnectorSocketOpens
<1>2. /\ RelayTypeOK /\ RelayTypeOK' /\ Sockets /\ RecordsLast
      /\ connector \in Connector /\ up \in [Socket -> Seq(Msg)]
      /\ Dialled[1] = "bridge" /\ Dialled \in Socket
  <2>1. /\ RelayTypeOK /\ RelayTypeOK' /\ Sockets /\ RecordsLast
        /\ connector \in Connector /\ up \in [Socket -> Seq(Msg)]
    BY DEF RelayInv, RelayTypeOK, WaitInv
  <2> QED
    BY <1>1, <2>1, OwnIs
<1>3. /\ connector'.n = connector.n /\ connector'.live = connector.live
  BY <1>1, <1>2 DEF Connector
<1>4. /\ Dialled' = Dialled /\ up'[Dialled] = <<Register>>
      /\ \A x \in Socket : x # Dialled => up'[x] = up[x]
  BY <1>1, <1>2, <1>3 DEF Dialled
<1>5. peers["bridge"] # Dialled
  <2>1. Dialled # None /\ Dialled \notin open
    BY <1>1, <1>2, SocketIs DEF Sockets
  <2> QED
    BY <1>2, <2>1, EndIs DEF Sockets
<1>6. ~ Facing' /\ ~ Meets'
  BY <1>1, <1>4, <1>5 DEF Facing, Meets
<1>7. \A x \in Socket : x[1] = "phone" => up'[x] = up[x]
  BY <1>2, <1>4
<1>8. RecordsLast' /\ Spoken' /\ Known'
  BY <1>1, <1>2, <1>3, <1>7, ConnectorKnows DEF RecordsLast
<1>9. HellosHold'
  <2>1. Register \in Msg
    BY RelaySays
  <2>2. In(<<Register>>) = {Register} /\ Register.type # "relay/data"
    BY <2>1, Single DEF Register
  <2>3. Held(<<Register>>, connector'.channel, connector'.live)
    BY <2>2, NothingHeld DEF IsRecord
  <2> QED
    BY <1>4, <1>6, <2>3 DEF HellosHold
<1> QED
  BY <1>6, <1>8, <1>9 DEF WaitInv, Reached, Followed, Asked, Requested

-----------------------------------------------------------------------------
\* The phone, and who waits.

\* What the phone sends on its socket.
LEMMA PhoneSpeaks ==
  ASSUME RelayTypeOK, NEW ms \in Seq(Msg), up' = Sent(Session, ms)
  PROVE  /\ Session[1] = "phone" /\ Dialled # Session /\ Dialled[1] = "bridge"
         /\ \A x \in Socket : x # Session => up'[x] = up[x]
         /\ \A x \in Socket : /\ up[x] \in Seq(Msg) /\ up'[x] \in {up[x], Push(up[x], ms)}
                              /\ In(up[x]) \subseteq In(up'[x])
                              /\ In(up'[x]) \subseteq In(up[x]) \cup In(ms)
         /\ Session \in Socket /\ ~ Closing(up'[Session]) => ~ Closing(up[Session])
         /\ Session \in open /\ ~ Closing(up[Session]) => In(ms) \subseteq In(up'[Session])
<1>1. /\ Session[1] = "phone" /\ Dialled # Session /\ Dialled[1] = "bridge"
      /\ (Session \in open => Session \in Socket) /\ up \in [Socket -> Seq(Msg)]
  BY OwnIs DEF RelayTypeOK
<1>2. /\ \A x \in Socket : x # Session => up'[x] = up[x]
      /\ Session \in open => up'[Session] = Push(up[Session], ms)
      /\ Session \notin open => up' = up
  BY <1>1, SentIs
<1>3. ASSUME NEW x \in Socket
      PROVE  /\ In(up[x]) \subseteq In(Push(up[x], ms))
             /\ In(Push(up[x], ms)) \subseteq In(up[x]) \cup In(ms)
             /\ Closing(up[x]) => Push(up[x], ms) = up[x]
             /\ ~ Closing(up[x]) => In(Push(up[x], ms)) = In(up[x]) \cup In(ms)
  <2>1. up[x] \in Seq(Msg)
    BY <1>1
  <2> QED
    BY <2>1, PushIs
<1>4. \A x \in Socket : up[x] \in Seq(Msg) /\ up'[x] \in {up[x], Push(up[x], ms)}
  BY <1>1, <1>2
<1>5. Session \in Socket /\ ~ Closing(up'[Session]) => ~ Closing(up[Session])
  BY <1>2, <1>3
<1> QED
  BY <1>1, <1>2, <1>3, <1>4, <1>5

\* It asks once it is sealed, and has asked for what the bridge knows of it.
LEMMA PhoneKnows ==
  ASSUME RelayInv, RelayTypeOK', WaitInv, connector' = connector, backend' = backend,
         greeted' = greeted, down'["bridge"] = down["bridge"], phone'.n = phone.n,
         phone.phase # "closed",
         \/ phone'.phase = "closed"
         \/ phone.phase = "sealed" =>
              phone'.phase = "sealed" /\ (phone.sub # "none" => phone'.sub # "none"),
         NEW ms \in Seq(Msg), up' = Sent(Session, ms),
         \A g \in In(ms) :
           /\ g.type = "relay/handshake" =>
                phone.phase \in {"registering", "handshaking"} /\ Author(g) = phone.n
           /\ g.type = "relay/data" =>
                /\ phone.phase = "sealed" /\ g.of = g.key[1]
                /\ g.kind \in {"request", "subscribe", "unsubscribe"}
                /\ g.kind = "subscribe" => phone'.phase = "closed" \/ phone'.sub # "none"
  PROVE  RecordsLast' /\ Spoken' /\ Known'
<1> DEFINE R == GreetedFirst
<1>1. /\ RelayTypeOK /\ RecordsLast /\ Spoken /\ Known
      /\ down["bridge"] \in Seq(Msg) /\ up \in [Socket -> Seq(Msg)]
  BY EndIs DEF RelayInv, WaitInv, RelayTypeOK
<1>2. /\ \A x \in Socket : x # Session => up'[x] = up[x]
      /\ \A x \in Socket : /\ up[x] \in Seq(Msg) /\ up'[x] \in {up[x], Push(up[x], ms)}
                           /\ In(up'[x]) \subseteq In(up[x]) \cup In(ms)
  BY <1>1, PhoneSpeaks
<1>3. \A g \in In(ms) : g \in Msg
  BY DEF In
\* No greeting of a session comes after a record of it.
<1>4. ASSUME NEW x \in Msg, NEW y \in In(ms), x \in PhoneSent \cup In(ms) \/ ~ Frame(x)
      PROVE  <<x, y>> \in R
  <2> SUFFICES ASSUME x.type = "relay/data", y.type = "relay/handshake" PROVE Author(x) # Author(y)
    BY <1>3 DEF GreetedFirst
  <2>1. Author(y) = phone.n /\ phone.phase \in {"registering", "handshaking"}
    OBVIOUS
  <2>2. x \in PhoneSent /\ x.of = x.key[1]
    BY <1>1, <1>4, <2>1 DEF Frame, Spoken
  <2>3. x.of # phone.n
    BY <1>1, <2>1, <2>2 DEF Spoken
  <2> QED
    BY <2>1, <2>2, <2>3 DEF Author
<1>5. \A x \in Msg, y \in In(ms) : ~ Frame(x) => <<x, y>> \in R
  BY <1>4
<1>6. ASSUME NEW s \in Socket, s[1] = "phone"
      PROVE  /\ Chain(up'[s], R) /\ \A x \in In(down["bridge"]), y \in In(up'[s]) : <<x, y>> \in R
  <2>1. Chain(up[s], R) /\ \A x \in In(down["bridge"]), y \in In(up[s]) : <<x, y>> \in R
    BY <1>1, <1>6 DEF RecordsLast
  <2>2. ASSUME NEW x \in In(up[s]) \cup In(down["bridge"]), NEW y \in In(ms) PROVE <<x, y>> \in R
    <3>1. x \in Msg
      <4>1. up[s] \in Seq(Msg) /\ down["bridge"] \in Seq(Msg)
        BY <1>1
      <4> QED
        BY <4>1 DEF In
    <3>2. Frame(x) => x \in PhoneSent
      BY <1>1, <1>6, <2>2, OnTheirWay
    <3> QED
      BY <1>4, <3>1, <3>2
  <2>3. Chain(Push(up[s], ms), R)
    <3>1. CASE Closing(up[s])
      BY <1>2, <2>1, <3>1, PushIs
    <3>2. CASE ~ Closing(up[s])
      <4>1. Push(up[s], ms) = up[s] \o ms
        BY <1>2, <3>2, PushIs
      <4>2. Chain(ms, R)
        <5>1. \A x, y \in In(ms) : <<x, y>> \in R
          BY <1>3, <1>4
        <5> QED
          BY <5>1 DEF Chain, In
      <4>3. Chain(up[s] \o ms, R)
        BY <1>2, <2>1, <2>2, <4>2, Joined
      <4> QED
        BY <4>1, <4>3
    <3> QED
      BY <3>1, <3>2
  <2> QED
    BY <1>2, <2>1, <2>2, <2>3
<1>7. RecordsLast'
  BY <1>1, <1>6 DEF RecordsLast
<1>8. \A g \in PhoneSent' : g \in PhoneSent \/ g \in In(ms)
  BY <1>1, <1>2, OnTheirWay, OnTheirWayNext
<1>9. Spoken'
  <2> SUFFICES ASSUME NEW g \in PhoneSent', g.type = "relay/data"
               PROVE  /\ g.of = g.key[1] /\ g.kind \in {"request", "subscribe", "unsubscribe"}
                      /\ g.of = phone'.n => \/ phone'.phase = "closed"
                                            \/ /\ phone'.phase = "sealed"
                                               /\ g.kind = "subscribe" => phone'.sub # "none"
    BY DEF Spoken
  <2> QED
    BY <1>1, <1>8 DEF Spoken
<1>10. Known'
  BY <1>1 DEF Known
<1> QED
  BY <1>7, <1>9, <1>10

\* A phone that has given up its session waits for nothing.
LEMMA PhoneFinishedWait ==
  ASSUME RelayInv, RelayTypeOK', WaitInv, connector' = connector, ~ Live',
         \A x \in Socket : x[1] = "bridge" => up'[x] = up[x],
         Dialled \in open' => Dialled \in open, RecordsLast', Spoken', Known'
  PROVE  WaitInv'
<1>1. ~ Facing' /\ ~ Meets'
  BY DEF Facing, Meets
<1>2. RelayTypeOK /\ HellosHold /\ Dialled' = Dialled /\ Dialled[1] = "bridge"
  BY DEF RelayInv, WaitInv, Dialled
<1>3. HellosHold'
  <2> SUFFICES ASSUME connector.link = "open", Dialled \in open', ~ Closing(up'[Dialled])
               PROVE  Held(up'[Dialled], connector.channel, connector.live)
    BY <1>1, <1>2 DEF HellosHold
  <2>1. Dialled \in Socket /\ up'[Dialled] = up[Dialled]
    BY <1>2 DEF RelayTypeOK
  <2> QED
    BY <1>2, <2>1 DEF HellosHold
<1> QED
  BY <1>1, <1>3 DEF WaitInv, Reached, Followed, Asked, Requested

\* A phone that goes on, and has read m unless its inbox is as it was.
LEMMA PhoneGoesOnWait ==
  ASSUME RelayInv, RelayInv', WaitInv, connector' = connector, backend' = backend,
         greeted' = greeted, peers' = peers, open' = open, overQuota' = overQuota,
         down'["bridge"] = down["bridge"], phone'.n = phone.n, Live,
         NEW ms \in Seq(Msg), up' = Sent(Session, ms), NEW m, ~ Ends(m),
         \/ down'["phone"] = down["phone"]
         \/ /\ down["phone"] # <<>> /\ m = Head(down["phone"])
            /\ down'["phone"] = Tail(down["phone"])
  PROVE  /\ HellosHold' /\ Session' = Session
         /\ Meets' /\ phone.channel # None =>
              Meets /\ In(ms) \cup Outgoing \subseteq Outgoing' /\ Incoming \subseteq Incoming' \cup {m}
<1>1. /\ RelayTypeOK /\ RelayTypeOK' /\ HellosHold /\ down["phone"] \in Seq(Msg)
      /\ Dialled' = Dialled /\ Session' = Session
  BY EndIs DEF RelayInv, WaitInv, RelayTypeOK, Dialled, Session
<1>2. /\ Session \in Socket /\ Session[1] = "phone" /\ Dialled # Session /\ Dialled[1] = "bridge"
      /\ \A x \in Socket : x # Session => up'[x] = up[x]
      /\ In(up[Session]) \subseteq In(up'[Session])
      /\ ~ Closing(up'[Session]) => ~ Closing(up[Session])
      /\ Session \in open /\ ~ Closing(up[Session]) => In(ms) \subseteq In(up'[Session])
  BY <1>1, LiveIs, PhoneSpeaks
<1>3. /\ In(down["phone"]) \subseteq In(down'["phone"]) \cup {m}
      /\ \A k, L : Held(down["phone"], k, L) => Held(down'["phone"], k, L)
  BY <1>1, Headed, HeldTail
<1>4. NoEnds(down'["phone"]) => NoEnds(down["phone"])
  BY <1>3 DEF NoEnds
<1>5. Dialled \in Socket => up'[Dialled] = up[Dialled]
  BY <1>2
<1>6. Facing' => Facing /\ up'[Dialled] = up[Dialled]
  <2> SUFFICES ASSUME Facing' PROVE Facing /\ up'[Dialled] = up[Dialled]
    OBVIOUS
  <2>1. /\ ~ Closing(up'[Session]) /\ NoEnds(down'["phone"]) /\ connector.link = "open"
        /\ peers["bridge"] = Dialled /\ ~ Closing(up'[Dialled])
    BY <1>1 DEF Facing
  <2>2. Dialled \in Socket
    BY <1>1, <2>1, OwnIs
  <2> QED
    BY <1>2, <1>4, <1>5, <2>1, <2>2 DEF Facing
<1>7. HellosHold'
  <2>1. ASSUME connector.link = "open", Dialled \in open, ~ Closing(up'[Dialled])
        PROVE  Held(up'[Dialled], connector.channel, connector.live)
    <3>1. up'[Dialled] = up[Dialled]
      BY <1>1, <1>5, <2>1 DEF RelayTypeOK
    <3> QED
      BY <1>1, <2>1, <3>1 DEF HellosHold
  <2>2. ASSUME Facing', ~ overQuota, \A g \in In(up'[Dialled]) : ~ IsRecord(g, "unsubscribed")
        PROVE  Held(down'["phone"], connector.channel, connector.live)
    BY <1>1, <1>3, <1>6, <2>2 DEF HellosHold
  <2> QED
    BY <1>1, <2>1, <2>2 DEF HellosHold
<1>8. ASSUME Meets', phone.channel # None
      PROVE  Meets /\ In(ms) \cup Outgoing \subseteq Outgoing' /\ Incoming \subseteq Incoming' \cup {m}
  <2>1. Meets /\ up'[Dialled] = up[Dialled]
    BY <1>6, <1>8 DEF Meets
  <2>2. Session \in open /\ ~ Closing(up[Session])
    BY <2>1, MeetsMeans DEF Meeting, Meets, Facing
  <2> QED
    BY <1>1, <1>2, <1>3, <2>1, <2>2 DEF Outgoing, Incoming
<1> QED
  BY <1>1, <1>7, <1>8

\* What a message of the tunnel does to what the phone waits for.
LEMMA OnTunnelMessageSays ==
  ASSUME NEW p \in Phone, NEW m \in Record
  PROVE  LET q == OnTunnelMessage(p, m)
         IN  /\ q \in Phone /\ SameSession(p, q)
             /\ p.sub # "none" => q.sub # "none"
             /\ q.sub = "following" => \/ m.kind = "hello" /\ q.hello = m.of
                                       \/ /\ p.sub = "following" /\ q.hello = p.hello
                                          /\ m.kind # "unsubscribed"
             /\ q.sub = "asked" => /\ p.sub = "asked" /\ q.subId = p.subId
                                   /\ m.kind \notin {"hello", "unsubscribed"}
                                   /\ m.kind = "subscribe-failed" => m.id # p.subId
             /\ q.pending \subseteq p.pending /\ (m.kind = "response" => m.id \notin q.pending)
<1> DEFINE a == [p EXCEPT !.pending = @ \ {m.id}]
           b == [p EXCEPT !.sub = "following", !.hello = m.of]
           d == [p EXCEPT !.sub = "ended"]
           q == OnTunnelMessage(p, m)
<1>1. a.sub = p.sub /\ a.hello = p.hello /\ a.subId = p.subId /\ a.pending = p.pending \ {m.id}
  BY DEF Phone
<1>2. b.sub = "following" /\ b.hello = m.of /\ b.subId = p.subId /\ b.pending = p.pending
  BY DEF Phone
<1>3. d.sub = "ended" /\ d.hello = p.hello /\ d.subId = p.subId /\ d.pending = p.pending
  BY DEF Phone
<1>4. q \in Phone /\ SameSession(p, q)
  BY OnTunnelMessageIs
<1>5. q = CASE m.kind = "response" -> a
            [] m.kind = "hello" /\ p.sub = "asked" -> b
            [] \/ m.kind = "subscribe-failed" /\ p.sub \in {"asked", "following"} /\ p.subId = m.id
               \/ m.kind = "unsubscribed" /\ p.sub \in {"asked", "following"} -> d
            [] OTHER -> p
  BY DEF OnTunnelMessage
<1> HIDE DEF a, b, d, q
<1>6. CASE m.kind = "response"
  <2>1. q = a
    BY <1>5, <1>6
  <2> QED
    BY <1>1, <1>4, <1>6, <2>1 DEF q
<1>7. CASE m.kind = "hello" /\ p.sub = "asked"
  <2>1. q = b
    BY <1>5, <1>7
  <2> QED
    BY <1>2, <1>4, <1>7, <2>1 DEF q
<1>8. CASE /\ p.sub \in {"asked", "following"}
           /\ (m.kind = "subscribe-failed" /\ p.subId = m.id) \/ m.kind = "unsubscribed"
  <2>1. q = d
    BY <1>5, <1>8
  <2> QED
    BY <1>3, <1>4, <1>8, <2>1 DEF q
<1>9. CASE /\ m.kind # "response" /\ ~ (m.kind = "hello" /\ p.sub = "asked")
           /\ ~ (/\ p.sub \in {"asked", "following"}
                 /\ (m.kind = "subscribe-failed" /\ p.subId = m.id) \/ m.kind = "unsubscribed")
  <2>1. q = p
    BY <1>5, <1>9
  <2> QED
    BY <1>4, <1>9, <2>1 DEF q
<1> QED
  BY <1>6, <1>7, <1>8, <1>9

\* What the phone sends when it reads, and what it then waits for.
Tells(p, m, r) ==
  /\ \A g \in In(r.sent) : g.type = "relay/handshake"
  /\ p.channel = None => r.object.pending = {} /\ r.object.sub = "none"
  /\ p.channel # None =>
       /\ r.sent = <<>>
       /\ \/ r.closes
          \/ r.object = p /\ ~ Frame(m)
          \/ m.type = "relay/data" /\ m.key = p.channel /\ r.object = OnTunnelMessage(p, m)

LEMMA OnMessageTells ==
  ASSUME NEW p \in Phone, NEW m \in Msg, p.channel = None => p.pending = {} /\ p.sub = "none"
  PROVE  Tells(p, m, OnMessage(p, m))
<1> DEFINE r == OnMessage(p, m)
           b == PhoneBeginSeal(p)
           f == Finished(p, <<>>, "retry")
<1>1. <<>> \in Seq(Msg) /\ In(<<>>) = {}
  BY Emptied
<1>2. \A o, ms, e : /\ Finished(o, ms, e).object.pending = {} /\ Finished(o, ms, e).object.sub = "none"
                    /\ Finished(o, ms, e).sent = ms /\ Finished(o, ms, e).closes
  BY DEF Finished, Finish, unbuilt
<1>3. \A o, ms : Step(o, ms).object = o /\ Step(o, ms).sent = ms
  BY DEF Step
<1>4. ASSUME NEW ms \in Seq(Msg), \A g \in In(ms) : g.type = "relay/handshake",
             p.channel # None => ms = <<>>, NEW o, NEW e
      PROVE  Tells(p, m, Finished(o, ms, e))
  BY <1>2, <1>4 DEF Tells
<1>5. \A e : Tells(p, m, Finished(p, <<>>, e))
  BY <1>1, <1>4
<1>6. /\ b.sent \in {<<>>, <<Handshake(p.n, None)>>}
      /\ p.channel # None => b.object = p /\ b.sent = <<>>
      /\ b.object \in Phone /\ b.object.n = p.n /\ b.object.channel = p.channel
  BY PhoneBeginSealIs
<1>7. p.channel = None => b.object.pending = {} /\ b.object.sub = "none"
  BY DEF PhoneBeginSeal, Step, Phone
<1>8. /\ \A eph, sig : Handshake(eph, sig).type = "relay/handshake"
      /\ \A g : In(<<g>>) = {g}
  BY DEF Handshake, In
<1>9. \A g \in In(b.sent) : g.type = "relay/handshake"
  BY <1>1, <1>6, <1>8
<1> HIDE DEF b, r
<1>10. CASE m \in {Registered, PeerOnline}
  <2>1. r = b
    BY <1>10, OnMessageIs DEF r, b
  <2>2. ~ Frame(m)
    BY <1>10 DEF Frame, Registered, PeerOnline
  <2>3. Tells(p, m, b)
    BY <1>6, <1>7, <1>9, <2>2 DEF Tells
  <2> QED
    BY <2>1, <2>3 DEF r
<1>11. CASE m.type = "relay/handshake"
  <2> DEFINE o == b.object
             d == [o EXCEPT !.signed = TRUE, !.peerEphemeral = m.eph]
             z == [d EXCEPT !.channel = m.sig, !.begun = FALSE, !.phase = "sealed"]
             n == IF o.signed THEN <<>> ELSE <<PhoneSigned(p.n, m.eph)>>
             t == b.sent \o n
             x == PhoneCompletes(p.n, m)
  <2>1. r = IF p.channel # None THEN f
            ELSE IF p.peerEphemeral \notin {0, m.eph} THEN Finished(o, b.sent, "retry")
            ELSE IF m.sig = None THEN Step(d, t)
            ELSE IF x THEN Step(z, t)
            ELSE Finished(d, t, "pin-mismatch")
    <3>1. r = OnHandshakeFrame(p, m)
      BY <1>11, OnMessageIs DEF r
    <3> QED
      BY <3>1 DEF OnHandshakeFrame, b
  <2>2. CASE p.channel # None
    BY <1>5, <2>1, <2>2 DEF r
  <2>3. CASE p.channel = None
    <3>1. /\ d.pending = {} /\ d.sub = "none" /\ z.pending = {} /\ z.sub = "none"
      <4>1. o \in Phone /\ o.pending = {} /\ o.sub = "none"
        BY <1>6, <1>7, <2>3
      <4> HIDE DEF o
      <4> QED
        BY <4>1 DEF Phone
    <3>2. \A g \in In(t) : g.type = "relay/handshake"
      <4> DEFINE H == {g \in Msg \cup {PhoneSigned(p.n, m.eph), Handshake(p.n, None)} :
                         g.type = "relay/handshake"}
      <4>1. Handshake(p.n, None) \in H /\ PhoneSigned(p.n, m.eph) \in H
        BY <1>8 DEF PhoneSigned
      <4>2. \A g \in H : g.type = "relay/handshake"
        OBVIOUS
      <4> HIDE DEF H
      <4>3. <<>> \in Seq(H) /\ \A g \in H : <<g>> \in Seq(H)
        OBVIOUS
      <4>4. b.sent \in Seq(H) /\ n \in Seq(H)
        BY <1>6, <4>1, <4>3
      <4> HIDE DEF n
      <4>5. ASSUME NEW u \in Seq(H), NEW v \in Seq(H) PROVE \A g \in In(u \o v) : g \in H
        BY DEF In
      <4> QED
        BY <4>2, <4>4, <4>5
    <3> HIDE DEF d, z, t, o, x
    <3>3. Tells(p, m, Step(d, t)) /\ Tells(p, m, Step(z, t)) /\ Tells(p, m, Finished(d, t, "pin-mismatch"))
      BY <1>2, <1>3, <2>3, <3>1, <3>2 DEF Tells
    <3>4. Tells(p, m, Finished(o, b.sent, "retry"))
      BY <1>2, <1>9, <2>3 DEF Tells
    <3>5. r \in {Finished(o, b.sent, "retry"), Step(d, t), Step(z, t), Finished(d, t, "pin-mismatch")}
      BY <2>1, <2>3
    <3> QED
      BY <3>3, <3>4, <3>5 DEF r
  <2> QED
    BY <2>2, <2>3
<1>12. CASE m.type = "relay/data"
  <2>1. CASE p.channel = None
    <3>1. r = Step(p, <<>>) \/ r = f \/ r = Step(OnTunnelMessage(p, m), <<>>)
      BY <1>12, OnMessageIs DEF r
    <3>2. r = Step(p, <<>>)
      <4> DEFINE w == Step(p, <<>>)
                 v == IF ~ PhoneOpens(p, m) THEN f ELSE Step(OnTunnelMessage(p, m), <<>>)
      <4>1. r = CASE m \in {Registered, PeerOnline}  -> PhoneBeginSeal(p)
                  [] m.type = "relay/handshake"      -> OnHandshakeFrame(p, m)
                  [] m.type = "relay/data"           -> IF p.channel = None THEN w ELSE v
                  [] m = Error("routing-id-taken")   -> Finished(p, <<>>, "routing-collision")
                  [] OTHER                           -> f
        BY DEF OnMessage, r
      <4> HIDE DEF w, v, f
      <4>2. r = w
        BY <1>12, <2>1, <4>1 DEF Registered, PeerOnline, Error
      <4> QED
        BY <4>2 DEF w
    <3>3. Tells(p, m, Step(p, <<>>))
      BY <1>1, <1>3, <2>1 DEF Tells
    <3> QED
      BY <3>2, <3>3 DEF r
  <2>2. CASE p.channel # None
    <3> DEFINE w == Step(p, <<>>)
               v == Step(OnTunnelMessage(p, m), <<>>)
               x == PhoneOpens(p, m)
    <3>1. r = CASE m \in {Registered, PeerOnline}  -> PhoneBeginSeal(p)
                [] m.type = "relay/handshake"      -> OnHandshakeFrame(p, m)
                [] m.type = "relay/data"           -> IF p.channel = None THEN w
                                                      ELSE IF ~ x THEN f ELSE v
                [] m = Error("routing-id-taken")   -> Finished(p, <<>>, "routing-collision")
                [] OTHER                           -> f
      BY DEF OnMessage, r
    <3>2. x => m.key = p.channel
      BY DEF PhoneOpens
    <3> HIDE DEF w, v, f, x
    <3>3. r = f \/ (x /\ r = v)
      BY <1>12, <2>2, <3>1 DEF Registered, PeerOnline, Error
    <3>4. x => Tells(p, m, v)
      BY <1>1, <1>3, <1>12, <2>2, <3>2 DEF Tells, v
    <3> QED
      BY <1>5, <3>3, <3>4 DEF r, f
  <2> QED
    BY <2>1, <2>2
<1>13. CASE ~ Frame(m) /\ m \notin {Registered, PeerOnline}
  <2>1. r = f \/ r = Finished(p, <<>>, "routing-collision")
    BY <1>13, OnMessageIs DEF r
  <2> QED
    BY <1>5, <2>1 DEF r
<1> QED
  BY <1>10, <1>11, <1>12, <1>13 DEF Frame

\* What is on its way, or worked on, stays so.
LEMMA StillWanted ==
  ASSUME greeted' = greeted, connector' = connector, backend' = backend,
         phone'.n = phone.n, phone'.channel = phone.channel, Outgoing \subseteq Outgoing'
  PROVE  /\ \A k, i : Wanted(k, i) => Wanted(k, i)'
         /\ phone'.subId = phone.subId /\ Awaited => Awaited'
<1>1. ASSUME NEW k, NEW i, Wanted(k, i) PROVE Wanted(k, i)'
  BY <1>1 DEF Wanted
<1>2. phone'.subId = phone.subId /\ Awaited => Awaited'
  <2>1. Wanted("subscribe", phone.subId) => Wanted("subscribe", phone.subId)'
          \/ phone'.subId # phone.subId
    BY DEF Wanted
  <2> QED
    BY <2>1 DEF Awaited
<1> QED
  BY <1>1, <1>2

\* A phone that was sealed before it read m, and goes on.
LEMMA PhoneHeardWait ==
  ASSUME RelayInv, WaitInv, connector' = connector, backend' = backend,
         greeted' = greeted, overQuota' = overQuota, HellosHold', Session' = Session,
         phone.channel # None, down["phone"] # <<>>, down'["phone"] = Tail(down["phone"]),
         Meets' => Meets /\ Outgoing \subseteq Outgoing'
                   /\ Incoming \subseteq Incoming' \cup {Head(down["phone"])},
         \/ phone' = phone /\ ~ Frame(Head(down["phone"]))
         \/ /\ Head(down["phone"]).type = "relay/data" /\ Head(down["phone"]).key = phone.channel
            /\ phone' = OnTunnelMessage(phone, Head(down["phone"]))
  PROVE  Reached' /\ Followed' /\ Asked' /\ Requested'
<1> DEFINE m == Head(down["phone"])
<1>1. /\ RelayTypeOK /\ phone \in Phone /\ down["phone"] \in Seq(Msg)
      /\ Reached /\ Followed /\ Asked /\ Requested /\ HellosHold
  BY EndIs DEF RelayInv, WaitInv, RelayTypeOK
<1>2. m \in Msg /\ m \in In(down["phone"])
  BY <1>1, Headed
<1> DEFINE Told == m.type = "relay/data" /\ m.key = phone.channel
<1> HIDE DEF m
<1>3. Told => m \in Record /\ m \in BridgeSent
  <2> SUFFICES ASSUME Told PROVE m \in Record /\ m \in BridgeSent
    OBVIOUS
  <2>1. Frame(m) /\ m \in Record
    BY <1>2, FrameIs DEF Frame
  <2> QED
    BY <1>1, <1>2, <2>1, OnTheirWay
<1>4. \/ phone' = phone /\ ~ Frame(m)
      \/ Told /\ phone' = OnTunnelMessage(phone, m)
  BY DEF m
<1>5. /\ phone'.n = phone.n /\ phone'.channel = phone.channel /\ phone'.pending \subseteq phone.pending
      /\ phone'.sub = "following" => \/ Told /\ m.kind = "hello" /\ phone'.hello = m.of
                                     \/ /\ phone.sub = "following" /\ phone'.hello = phone.hello
                                        /\ ~ IsRecord(m, "unsubscribed")
      /\ phone'.sub = "asked" => phone.sub = "asked" /\ phone'.subId = phone.subId /\ ~ Informs(m)
      /\ \A id \in phone'.pending : ~ Replies(m, id)
  <2>1. CASE phone' = phone /\ ~ Frame(m)
    BY <2>1 DEF Frame, IsRecord, Informs, Replies
  <2>2. CASE Told /\ phone' = OnTunnelMessage(phone, m)
    BY <1>1, <1>3, <2>2, OnTunnelMessageSays DEF SameSession, IsRecord, Informs, Replies
  <2> QED
    BY <1>4, <2>1, <2>2
<1>6. Meets' => /\ Meets /\ Outgoing \subseteq Outgoing' /\ Incoming \subseteq Incoming' \cup {m}
                /\ phone.channel # None
  BY DEF m
<1>7. ASSUME Meets, Told PROVE connector.channel = phone.channel
  BY <1>3, <1>7, SealerHolds
<1>8. Reached'
  <2> SUFFICES ASSUME Meets', \/ phone'.sub = "following" \/ phone.n \in connector.live
                              \/ \E r \in backend : r.of = phone.n
               PROVE  connector.channel = phone.channel
    BY <1>5 DEF Reached
  <2> QED
    BY <1>1, <1>5, <1>6, <1>7 DEF Reached
<1>9. Followed'
  <2> SUFFICES ASSUME Meets', ~ overQuota, phone'.sub = "following",
                      \A g \in Incoming' : ~ IsRecord(g, "unsubscribed")
               PROVE  phone'.hello \in connector.live
    BY DEF Followed
  <2>1. CASE phone.sub = "following" /\ phone'.hello = phone.hello /\ ~ IsRecord(m, "unsubscribed")
    BY <1>1, <1>6, <2>1 DEF Followed
  <2>2. CASE Told /\ m.kind = "hello" /\ phone'.hello = m.of
    <3>1. /\ IsRecord(m, "hello") /\ ~ IsRecord(m, "unsubscribed") /\ Meets
          /\ m.key = connector.channel
      BY <1>6, <1>7, <2>2 DEF IsRecord
    <3>2. \A g \in In(up[Dialled]) : ~ IsRecord(g, "unsubscribed")
      BY <1>6, <3>1 DEF Incoming
    <3>3. Held(down["phone"], connector.channel, connector.live)
      BY <1>1, <3>1, <3>2 DEF HellosHold, Meets
    <3>4. m.of \in connector.live \/ \E g \in In(Tail(down["phone"])) : IsRecord(g, "unsubscribed")
      BY <1>1, <3>1, <3>3, HeldTail DEF m
    <3> QED
      BY <2>2, <3>4 DEF Incoming
  <2> QED
    BY <1>5, <2>1, <2>2
<1>10. Asked'
  <2> SUFFICES ASSUME Meets', ~ overQuota, phone'.sub = "asked"
               PROVE  (\E g \in Incoming' : Informs(g)') \/ Awaited'
    BY DEF Asked
  <2>1. Meets /\ phone.sub = "asked" /\ phone'.subId = phone.subId /\ ~ Informs(m)
    BY <1>5, <1>6
  <2>2. (\E g \in Incoming : Informs(g)) \/ Awaited
    BY <1>1, <2>1 DEF Asked
  <2>3. \A g : Informs(g)' <=> Informs(g)
    BY <2>1 DEF Informs
  <2>4. Awaited => Awaited'
    BY <1>5, <1>6, <2>1, StillWanted
  <2> QED
    BY <1>6, <2>1, <2>2, <2>3, <2>4
<1>11. Requested'
  <2> SUFFICES ASSUME Meets', ~ overQuota, NEW id \in phone'.pending
               PROVE  (\E g \in Incoming' : Replies(g, id)) \/ Wanted("request", id)'
    BY DEF Requested
  <2>1. (\E g \in Incoming : Replies(g, id)) \/ Wanted("request", id)
    BY <1>1, <1>5, <1>6 DEF Requested
  <2>2. Wanted("request", id) => Wanted("request", id)'
    BY <1>5, <1>6, StillWanted
  <2> QED
    BY <1>5, <1>6, <2>1, <2>2
<1> QED
  BY <1>8, <1>9, <1>10, <1>11

\* The phone's own end of its session, and what goes out before it.
LEMMA PhoneEndsWait ==
  ASSUME RelayInv, RelayTypeOK', WaitInv, NEW r, NEW rest, PhoneDoes(r, rest), r.closes,
         r.object.phase = "closed", r.object.n = phone.n, phone.phase # "closed", r.sent \in Seq(Msg),
         \A g \in In(r.sent) :
           /\ g.type = "relay/handshake" =>
                phone.phase \in {"registering", "handshaking"} /\ Author(g) = phone.n
           /\ g.type = "relay/data" =>
                /\ phone.phase = "sealed" /\ g.of = g.key[1]
                /\ g.kind \in {"request", "subscribe", "unsubscribe"}
  PROVE  WaitInv'
<1> DEFINE ms == r.sent \o (IF r.closes THEN <<closed>> ELSE <<>>)
<1>1. /\ phone' = r.object /\ up' = Sent(Session, ms) /\ down' = [down EXCEPT !["phone"] = <<>>]
      /\ connector' = connector /\ backend' = backend /\ greeted' = greeted
      /\ open' = open
  BY DEF PhoneDoes
<1>2. RelayTypeOK /\ down \in [End -> Seq(Msg)] /\ "bridge" \in End /\ "bridge" # "phone"
  BY EndIs DEF RelayInv, RelayTypeOK
<1>3. down'["bridge"] = down["bridge"] /\ phone'.n = phone.n /\ phone'.phase = "closed"
  BY <1>1, <1>2
<1>4. ms \in Seq(Msg) /\ In(ms) \subseteq In(r.sent) \cup {closed}
  BY WithItsClose
<1>5. closed.type = "close"
  BY DEF closed
<1>6. \A g \in In(ms) :
        /\ g.type = "relay/handshake" =>
             phone.phase \in {"registering", "handshaking"} /\ Author(g) = phone.n
        /\ g.type = "relay/data" =>
             /\ phone.phase = "sealed" /\ g.of = g.key[1]
             /\ g.kind \in {"request", "subscribe", "unsubscribe"}
             /\ g.kind = "subscribe" => phone'.phase = "closed" \/ phone'.sub # "none"
  BY <1>3, <1>4, <1>5
<1> HIDE DEF ms
<1>7. RecordsLast' /\ Spoken' /\ Known'
  BY <1>1, <1>3, <1>4, <1>6, PhoneKnows
<1>8. \A x \in Socket : x[1] = "bridge" => up'[x] = up[x]
  BY <1>1, <1>2, <1>4, PhoneSpeaks
<1>9. ~ Live'
  BY <1>3 DEF Live
<1> QED
  BY <1>1, <1>7, <1>8, <1>9, PhoneFinishedWait

\* A session that has no channel waits for nothing, and nobody works for it.
LEMMA UnsealedWaits ==
  ASSUME RelayInv, WaitInv, phone.phase \in {"registering", "handshaking"}, connector' = connector,
         backend' = backend, phone'.n = phone.n, phone'.pending = {}, phone'.sub = "none"
  PROVE  Reached' /\ Followed' /\ Asked' /\ Requested'
<1>1. phone.n \notin connector.live /\ \A r \in backend : r.of # phone.n
  BY DEF WaitInv, Known
<1>2. Reached'
  BY <1>1 DEF Reached
<1> QED
  BY <1>2 DEF Followed, Asked, Requested

LEMMA PhoneReadsWait ==
  ASSUME RelayInv, RelayInv', Waiting, WaitInv, PhoneReads
  PROVE  WaitInv'
<1> DEFINE inbox == down["phone"]
           m == Head(inbox)
           r == OnMessage(phone, m)
<1>1. inbox # <<>> /\ Hears(Session) /\ PhoneDoes(r, Tail(inbox))
  BY DEF PhoneReads
<1>2. /\ RelayTypeOK /\ Accusing /\ RelayTypeOK' /\ connector \in Connector /\ phone \in Phone
      /\ inbox \in Seq(Msg) /\ down \in [End -> Seq(Msg)] /\ Live /\ phone.n # 0
      /\ phone.phase \in {"registering", "handshaking", "sealed"}
  <2>1. RelayTypeOK /\ Accusing /\ RelayTypeOK'
    BY DEF RelayInv
  <2>2. Live
    BY <1>1, <2>1, LiveIs
  <2> QED
    BY <2>1, <2>2, EndIs, SocketIs DEF RelayTypeOK, Live
<1>3. PhoneSent \in SUBSET Frames /\ BridgeSent \in SUBSET Frames
  BY <1>2, OnTheirWay
<1>4. m \in Msg /\ m \in In(inbox) /\ (Frame(m) => m \in BridgeSent)
  <2>1. m \in Msg /\ m \in In(inbox)
    <3> HIDE DEF inbox
    <3> QED
      BY <1>1, <1>2, Headed
  <2> QED
    BY <1>2, <2>1, OnTheirWay
<1>5. /\ phone.ended \in {"pin-mismatch", "routing-collision"} => phone.n > 1
      /\ m = Error("routing-id-taken") => phone.n > 1
  BY <1>2, <1>4 DEF Accusing
<1>6. PICK s \in 0 .. MaxSessions : Agreed(connector, phone, PhoneSent, BridgeSent, s)
  BY DEF RelayInv
<1>7. (phone.phase = "sealed" <=> phone.channel # None) /\ (phone.channel = None =>
        phone.pending = {} /\ phone.sub = "none")
  <2>1. Theirs(connector, phone)
    BY <1>6 DEF Agreed
  <2>2. phone.phase = "sealed" <=> phone.channel # None
    BY <2>1 DEF Theirs
  <2> QED
    BY <2>2 DEF Waiting
<1> HIDE DEF r, m, inbox
<1>8. PhoneYields(connector, phone, PhoneSent, BridgeSent, s, m, r)
  BY <1>2, <1>3, <1>4, <1>5, <1>6, PhoneReadingYields DEF r
<1>9. Tells(phone, m, r)
  BY <1>2, <1>4, <1>7, OnMessageTells DEF r
<1>10. /\ r.object.n = phone.n /\ r.sent \in Seq(Msg)
       /\ \A g \in In(r.sent) : g.type = "relay/handshake" /\ Author(g) = phone.n
       /\ IF r.closes THEN r.object.phase = "closed"
          ELSE r.object.phase \in {"registering", "handshaking", "sealed"} /\ ~ Ends(m)
  BY <1>8, <1>9 DEF PhoneYields, Tells
<1>11. In(r.sent) # {} => phone.phase \in {"registering", "handshaking"}
  <2>1. In(<<>>) = {}
    BY Emptied
  <2> QED
    BY <1>2, <1>7, <1>9, <2>1 DEF Tells
<1>12. CASE r.closes
  <2>1. phone.phase # "closed"
    BY <1>2
  <2>2. \A g \in In(r.sent) :
           /\ g.type = "relay/handshake" =>
                phone.phase \in {"registering", "handshaking"} /\ Author(g) = phone.n
           /\ g.type # "relay/data"
    BY <1>10, <1>11
  <2> QED
    BY <1>1, <1>2, <1>10, <1>12, <2>1, <2>2, PhoneEndsWait
<1>13. CASE ~ r.closes
  <2> DEFINE ms == r.sent
  <2>1. /\ phone' = r.object /\ up' = Sent(Session, ms) /\ down' = [down EXCEPT !["phone"] = Tail(inbox)]
        /\ connector' = connector /\ backend' = backend /\ greeted' = greeted /\ peers' = peers
        /\ open' = open /\ overQuota' = overQuota
    <3>1. r.sent \o <<>> = r.sent
      BY <1>10
    <3> QED
      BY <1>1, <1>13, <3>1 DEF PhoneDoes
  <2>2. down'["bridge"] = down["bridge"] /\ down'["phone"] = Tail(inbox)
    BY <1>2, <2>1, EndIs
  <2>3. phone'.n = phone.n /\ ~ Ends(m)
    BY <1>10, <1>13, <2>1
  <2>4. phone.channel # None =>
          \/ phone' = phone /\ ~ Frame(m)
          \/ /\ m.type = "relay/data" /\ m.key = phone.channel
             /\ phone' = OnTunnelMessage(phone, m)
    BY <1>9, <1>13, <2>1 DEF Tells
  <2>5. phone.phase = "sealed" =>
           phone'.phase = "sealed" /\ (phone.sub # "none" => phone'.sub # "none")
    <3> SUFFICES ASSUME phone.phase = "sealed"
                 PROVE  phone'.phase = "sealed" /\ (phone.sub # "none" => phone'.sub # "none")
      OBVIOUS
    <3>1. CASE phone' = phone
      BY <3>1
    <3>2. CASE m.type = "relay/data" /\ phone' = OnTunnelMessage(phone, m)
      <4>1. m \in Record
        BY <1>4, <3>2, FrameIs DEF Frame
      <4> QED
        BY <1>2, <3>2, <4>1, OnTunnelMessageSays DEF SameSession
    <3> QED
      BY <1>7, <2>4, <3>1, <3>2
  <2>6. \A g \in In(ms) :
          /\ g.type = "relay/handshake" =>
               phone.phase \in {"registering", "handshaking"} /\ Author(g) = phone.n
          /\ g.type # "relay/data"
    BY <1>10, <1>11
  <2>7. ms \in Seq(Msg) /\ phone.phase # "closed"
    BY <1>2, <1>10
  <2> HIDE DEF ms
  <2>8. RecordsLast' /\ Spoken' /\ Known'
    BY <1>2, <2>1, <2>2, <2>3, <2>5, <2>6, <2>7, PhoneKnows
  <2>9. /\ HellosHold' /\ Session' = Session
        /\ Meets' /\ phone.channel # None =>
             Meets /\ In(ms) \cup Outgoing \subseteq Outgoing' /\ Incoming \subseteq Incoming' \cup {m}
    BY <1>1, <1>2, <2>1, <2>2, <2>3, <2>7, PhoneGoesOnWait DEF m, inbox
  <2>10. CASE phone.channel # None
    <3>1. Meets' => Meets /\ Outgoing \subseteq Outgoing' /\ Incoming \subseteq Incoming' \cup {m}
      BY <2>9, <2>10
    <3>2. Reached' /\ Followed' /\ Asked' /\ Requested'
      BY <1>1, <2>1, <2>2, <2>4, <2>9, <2>10, <3>1, PhoneHeardWait DEF m, inbox
    <3> QED
      BY <2>8, <2>9, <3>2 DEF WaitInv
  <2>11. CASE phone.channel = None
    <3>1. phone'.pending = {} /\ phone'.sub = "none" /\ phone.phase \in {"registering", "handshaking"}
      BY <1>2, <1>7, <1>9, <2>1, <2>11 DEF Tells
    <3>2. Reached' /\ Followed' /\ Asked' /\ Requested'
      BY <2>1, <2>3, <3>1, UnsealedWaits
    <3> QED
      BY <2>8, <2>9, <3>2 DEF WaitInv
  <2> QED
    BY <2>10, <2>11
<1> QED
  BY <1>12, <1>13

\* A record that the phone seals.
LEMMA SealsOne ==
  ASSUME RelayInv, phone.phase = "sealed", NEW k \in Kinds, NEW i \in Nat
  PROVE  LET g == Data(phone.channel, Tunnel(k, i, phone.n))
         IN  /\ <<g>> \in Seq(Msg) /\ In(<<g>>) = {g}
             /\ g.type = "relay/data" /\ g.kind = k /\ g.of = g.key[1]
<1> DEFINE g == Data(phone.channel, Tunnel(k, i, phone.n))
<1>1. PICK s \in 0 .. MaxSessions : Agreed(connector, phone, PhoneSent, BridgeSent, s)
  BY DEF RelayInv
<1>2. phone.channel # None /\ phone.channel = <<phone.n, phone.peerEphemeral>>
  <2>1. Theirs(connector, phone)
    BY <1>1 DEF Agreed
  <2> QED
    BY <2>1 DEF Theirs
<1>3. g.type = "relay/data" /\ g.kind = k /\ g.of = phone.n /\ g.key = phone.channel
  BY DEF Data, Tunnel
<1>4. phone.channel[1] = phone.n
  BY <1>2
<1>5. <<g>> \in Seq(Msg)
  BY PhoneSeals
<1>6. In(<<g>>) = {g}
  BY DEF In
<1> QED
  BY <1>3, <1>4, <1>5, <1>6

\* A sealed phone goes on of itself: it sends records, and has read nothing.
LEMMA SealedGoesOnWait ==
  ASSUME RelayInv, RelayInv', WaitInv, phone.phase = "sealed", NEW q, NEW ms \in Seq(Msg),
         PhoneDoes(Step(q, ms), down["phone"]), q.n = phone.n, q.phase = "sealed",
         q.channel = phone.channel, q.hello = phone.hello, q.sub = phone.sub \/ q.sub = "asked",
         \A g \in In(ms) : /\ g.type = "relay/data" /\ g.of = g.key[1]
                           /\ g.kind \in {"request", "subscribe", "unsubscribe"}
                           /\ g.kind = "subscribe" => q.sub # "none"
  PROVE  /\ RecordsLast' /\ Spoken' /\ Known' /\ HellosHold' /\ Reached' /\ Followed'
         /\ phone' = q /\ connector' = connector /\ backend' = backend /\ greeted' = greeted
         /\ overQuota' = overQuota
         /\ Meets' => /\ Meets /\ In(ms) \subseteq Outgoing' /\ Outgoing \subseteq Outgoing'
                      /\ \A g \in Incoming : g.type = "relay/data" => g \in Incoming'
<1>1. /\ RelayTypeOK /\ RelayTypeOK' /\ down \in [End -> Seq(Msg)] /\ Live /\ phone.channel # None
      /\ Reached /\ Followed
  <2>1. PICK s \in 0 .. MaxSessions : Agreed(connector, phone, PhoneSent, BridgeSent, s)
    BY DEF RelayInv
  <2>2. Theirs(connector, phone)
    BY <2>1 DEF Agreed
  <2> QED
    BY <2>2 DEF RelayInv, RelayTypeOK, Live, Theirs, WaitInv
<1>2. /\ phone' = q /\ up' = Sent(Session, ms) /\ down' = [down EXCEPT !["phone"] = down["phone"]]
      /\ connector' = connector /\ backend' = backend /\ greeted' = greeted /\ peers' = peers
      /\ open' = open /\ overQuota' = overQuota
  <2>1. Step(q, ms).object = q /\ Step(q, ms).sent = ms /\ ~ Step(q, ms).closes
    BY DEF Step
  <2>2. ms \o <<>> = ms
    OBVIOUS
  <2> QED
    BY <2>1, <2>2 DEF PhoneDoes
<1>3. down'["bridge"] = down["bridge"] /\ down'["phone"] = down["phone"]
  BY <1>1, <1>2, EndIs
<1>4. ~ Ends(Register) /\ Register.type # "relay/data"
  BY DEF Ends, Register
<1>5. /\ phone'.n = phone.n /\ phone'.phase = "sealed" /\ phone'.channel = phone.channel
      /\ phone.phase # "closed" /\ (phone.sub # "none" => phone'.sub # "none")
  BY <1>2
<1>6. \A g \in In(ms) :
        /\ g.type = "relay/handshake" =>
             phone.phase \in {"registering", "handshaking"} /\ Author(g) = phone.n
        /\ g.type = "relay/data" =>
             /\ phone.phase = "sealed" /\ g.of = g.key[1]
             /\ g.kind \in {"request", "subscribe", "unsubscribe"}
             /\ g.kind = "subscribe" => phone'.phase = "closed" \/ phone'.sub # "none"
  BY <1>2
<1>7. RecordsLast' /\ Spoken' /\ Known'
  BY <1>1, <1>2, <1>3, <1>5, <1>6, PhoneKnows
<1>8. /\ HellosHold'
      /\ Meets' => /\ Meets /\ In(ms) \cup Outgoing \subseteq Outgoing'
                   /\ Incoming \subseteq Incoming' \cup {Register}
  BY <1>1, <1>2, <1>3, <1>4, <1>5, PhoneGoesOnWait
<1>9. Meets' => /\ Meets /\ In(ms) \subseteq Outgoing' /\ Outgoing \subseteq Outgoing'
                /\ \A g \in Incoming : g.type = "relay/data" => g \in Incoming'
  BY <1>4, <1>8
<1>10. phone'.sub = "following" => phone.sub = "following" /\ phone'.hello = phone.hello
  BY <1>2
<1>11. Reached'
  BY <1>1, <1>2, <1>5, <1>9, <1>10 DEF Reached
<1>12. Followed'
  BY <1>1, <1>2, <1>9, <1>10 DEF Followed, IsRecord
<1> QED
  BY <1>2, <1>7, <1>8, <1>9, <1>11, <1>12

\* What it asked for before is still under way.
LEMMA SealedStillWaits ==
  ASSUME WaitInv, connector' = connector, backend' = backend, greeted' = greeted,
         overQuota' = overQuota, phone'.n = phone.n, phone'.channel = phone.channel,
         Meets' => /\ Meets /\ Outgoing \subseteq Outgoing'
                   /\ \A g \in Incoming : g.type = "relay/data" => g \in Incoming'
  PROVE  /\ phone'.sub = phone.sub /\ phone'.subId = phone.subId => Asked'
         /\ Meets' /\ ~ overQuota => \A id \in phone.pending :
              (\E g \in Incoming' : Replies(g, id)) \/ Wanted("request", id)'
<1>1. Asked /\ Requested
  BY DEF WaitInv
<1>2. ASSUME Meets'
      PROVE  /\ Meets /\ \A k, i : Wanted(k, i) => Wanted(k, i)'
             /\ phone'.subId = phone.subId /\ Awaited => Awaited'
             /\ \A g \in Incoming : g.type = "relay/data" => g \in Incoming'
  BY <1>2, StillWanted
<1>3. ASSUME phone'.sub = phone.sub, phone'.subId = phone.subId PROVE Asked'
  <2> SUFFICES ASSUME Meets', ~ overQuota, phone'.sub = "asked"
               PROVE  (\E g \in Incoming' : Informs(g)') \/ Awaited'
    BY DEF Asked
  <2>1. (\E g \in Incoming : Informs(g)) \/ Awaited
    BY <1>1, <1>2, <1>3 DEF Asked
  <2>2. \A g : Informs(g)' <=> Informs(g)
    BY <1>3 DEF Informs
  <2>3. \A g : Informs(g) => g.type = "relay/data"
    BY DEF Informs, IsRecord
  <2> QED
    BY <1>2, <1>3, <2>1, <2>2, <2>3
<1>4. ASSUME Meets', ~ overQuota, NEW id \in phone.pending
      PROVE  (\E g \in Incoming' : Replies(g, id)) \/ Wanted("request", id)'
  <2>1. (\E g \in Incoming : Replies(g, id)) \/ Wanted("request", id)
    BY <1>1, <1>2, <1>4 DEF Requested
  <2>2. \A g : Replies(g, id) => g.type = "relay/data"
    BY DEF Replies, IsRecord
  <2> QED
    BY <1>2, <1>4, <2>1, <2>2
<1> QED
  BY <1>3, <1>4

LEMMA PhoneRequestsWait ==
  ASSUME RelayInv, RelayInv', WaitInv, PhoneRequests
  PROVE  WaitInv'
<1>0. PICK i : i = phone.nextId
  OBVIOUS
<1> DEFINE d == Data(phone.channel, Tunnel("request", i, phone.n))
           q == [phone EXCEPT !.nextId = @ + 1, !.pending = @ \cup {i}]
<1>1. phone.phase = "sealed" /\ PhoneDoes(Step(q, <<d>>), down["phone"])
  BY <1>0 DEF PhoneRequests
<1>2. phone \in Phone /\ i \in Nat /\ "request" \in Kinds
  BY <1>0 DEF RelayInv, RelayTypeOK, Phone, Kinds
<1>3. /\ q.n = phone.n /\ q.phase = phone.phase /\ q.channel = phone.channel /\ q.sub = phone.sub
      /\ q.subId = phone.subId /\ q.hello = phone.hello /\ q.pending = phone.pending \cup {i}
  BY <1>2 DEF Phone
<1>4. /\ <<d>> \in Seq(Msg) /\ In(<<d>>) = {d}
      /\ d.type = "relay/data" /\ d.kind = "request" /\ d.of = d.key[1]
  BY <1>1, <1>2, SealsOne
<1> HIDE DEF q, d
<1>5. /\ RecordsLast' /\ Spoken' /\ Known' /\ HellosHold' /\ Reached' /\ Followed'
      /\ phone' = q /\ connector' = connector /\ backend' = backend /\ greeted' = greeted
      /\ overQuota' = overQuota
      /\ Meets' => /\ Meets /\ In(<<d>>) \subseteq Outgoing' /\ Outgoing \subseteq Outgoing'
                   /\ \A g \in Incoming : g.type = "relay/data" => g \in Incoming'
  BY <1>1, <1>3, <1>4, SealedGoesOnWait
<1>6. /\ Asked'
      /\ Meets' /\ ~ overQuota => \A id \in phone.pending :
           (\E g \in Incoming' : Replies(g, id)) \/ Wanted("request", id)'
  BY <1>3, <1>5, SealedStillWaits
<1>7. Meets' => Wanted("request", i)'
  <2> SUFFICES ASSUME Meets' PROVE Wanted("request", i)'
    OBVIOUS
  <2>1. Data(phone'.channel, Tunnel("request", i, phone'.n)) \in Outgoing'
    BY <1>3, <1>4, <1>5 DEF d
  <2> QED
    BY <2>1 DEF Wanted
<1>8. Requested'
  BY <1>3, <1>5, <1>6, <1>7 DEF Requested
<1> QED
  BY <1>5, <1>6, <1>8 DEF WaitInv

LEMMA PhoneSubscribesWait ==
  ASSUME RelayInv, RelayInv', WaitInv, PhoneSubscribes
  PROVE  WaitInv'
<1> DEFINE i == phone.nextId
           d == Data(phone.channel, Tunnel("subscribe", i, phone.n))
           q == [phone EXCEPT !.nextId = @ + 1, !.sub = "asked", !.subId = i]
<1>1. /\ phone.phase = "sealed" /\ phone.sub = "none" /\ phone.pending = {}
      /\ PhoneDoes(Step(q, <<d>>), down["phone"])
  BY DEF PhoneSubscribes
<1>2. phone \in Phone /\ i \in Nat /\ "subscribe" \in Kinds
  BY DEF RelayInv, RelayTypeOK, Phone, Kinds
<1>3. /\ q.n = phone.n /\ q.phase = phone.phase /\ q.channel = phone.channel /\ q.sub = "asked"
      /\ q.subId = i /\ q.hello = phone.hello /\ q.pending = phone.pending
  BY <1>2 DEF Phone
<1>4. /\ <<d>> \in Seq(Msg) /\ In(<<d>>) = {d}
      /\ d.type = "relay/data" /\ d.kind = "subscribe" /\ d.of = d.key[1]
  BY <1>1, <1>2, SealsOne
<1> HIDE DEF q, d, i
<1>5. /\ RecordsLast' /\ Spoken' /\ Known' /\ HellosHold' /\ Reached' /\ Followed'
      /\ phone' = q /\ connector' = connector /\ backend' = backend /\ greeted' = greeted
      /\ overQuota' = overQuota
      /\ Meets' => /\ Meets /\ In(<<d>>) \subseteq Outgoing' /\ Outgoing \subseteq Outgoing'
                   /\ \A g \in Incoming : g.type = "relay/data" => g \in Incoming'
  BY <1>1, <1>3, <1>4, SealedGoesOnWait
<1>6. phone.n \notin greeted
  BY <1>1 DEF WaitInv, Known
<1>7. Asked'
  <2> SUFFICES ASSUME Meets' PROVE Awaited'
    BY DEF Asked
  <2>1. Data(phone'.channel, Tunnel("subscribe", phone'.subId, phone'.n)) \in Outgoing'
    BY <1>3, <1>4, <1>5 DEF d
  <2>2. Wanted("subscribe", phone.subId)'
    BY <2>1 DEF Wanted
  <2>3. phone'.n \notin greeted'
    BY <1>3, <1>5, <1>6
  <2> QED
    BY <2>2, <2>3 DEF Awaited
<1>8. Requested'
  BY <1>1, <1>3, <1>5 DEF Requested
<1> QED
  BY <1>5, <1>7, <1>8 DEF WaitInv

LEMMA RequestTimesOutWait ==
  ASSUME RelayInv, RelayInv', Waiting, WaitInv, NEW id \in phone.pending, RequestTimesOut(id)
  PROVE  WaitInv'
<1> DEFINE q == [phone EXCEPT !.pending = @ \ {id}]
<1>1. phone.phase = "sealed" /\ PhoneDoes(Step(q, <<>>), down["phone"])
  BY DEF RequestTimesOut, Waiting
<1>2. phone \in Phone
  BY DEF RelayInv, RelayTypeOK
<1>3. /\ q.n = phone.n /\ q.phase = phone.phase /\ q.channel = phone.channel /\ q.sub = phone.sub
      /\ q.subId = phone.subId /\ q.hello = phone.hello /\ q.pending \subseteq phone.pending
  BY <1>2 DEF Phone
<1>4. <<>> \in Seq(Msg) /\ In(<<>>) = {}
  BY Emptied
<1> HIDE DEF q
<1>5. /\ RecordsLast' /\ Spoken' /\ Known' /\ HellosHold' /\ Reached' /\ Followed'
      /\ phone' = q /\ connector' = connector /\ backend' = backend /\ greeted' = greeted
      /\ overQuota' = overQuota
      /\ Meets' => /\ Meets /\ Outgoing \subseteq Outgoing'
                   /\ \A g \in Incoming : g.type = "relay/data" => g \in Incoming'
  BY <1>1, <1>3, <1>4, SealedGoesOnWait
<1>6. /\ Asked'
      /\ Meets' /\ ~ overQuota => \A j \in phone.pending :
           (\E g \in Incoming' : Replies(g, j)) \/ Wanted("request", j)'
  BY <1>3, <1>5, SealedStillWaits
<1>7. Requested'
  BY <1>3, <1>5, <1>6 DEF Requested
<1> QED
  BY <1>5, <1>6, <1>7 DEF WaitInv

\* It ends its session of itself: nothing, or a last record, goes out first.
LEMMA PhoneGivesUpWait ==
  ASSUME RelayInv, RelayInv', WaitInv, phone.phase # "closed", NEW ms,
         \/ ms = <<>>
         \/ phone.phase = "sealed" /\ ms = <<Data(phone.channel, Tunnel("unsubscribe", 0, phone.n))>>,
         PhoneDoes(Finished(phone, ms, "retry"), <<>>)
  PROVE  WaitInv'
<1> DEFINE r == Finished(phone, ms, "retry")
           d == Data(phone.channel, Tunnel("unsubscribe", 0, phone.n))
<1>1. r.closes /\ r.object.phase = "closed" /\ r.object.n = phone.n /\ r.sent = ms
  BY DEF Finished, Finish, unbuilt
<1>2. ms \in Seq(Msg) /\ \A g \in In(ms) :
        /\ g.type = "relay/data" /\ phone.phase = "sealed" /\ g.of = g.key[1]
        /\ g.kind = "unsubscribe"
  <2>1. CASE ms = <<>>
    BY <2>1, Emptied
  <2>2. CASE phone.phase = "sealed" /\ ms = <<d>>
    <3>1. "unsubscribe" \in Kinds /\ 0 \in Nat
      BY DEF Kinds
    <3>2. /\ <<d>> \in Seq(Msg) /\ In(<<d>>) = {d}
          /\ d.type = "relay/data" /\ d.kind = "unsubscribe" /\ d.of = d.key[1]
      BY <2>2, <3>1, SealsOne
    <3> HIDE DEF d
    <3> QED
      BY <2>2, <3>2
  <2> QED
    BY <2>1, <2>2
<1>3. RelayTypeOK'
  BY DEF RelayInv
<1> HIDE DEF r
<1> QED
  BY <1>1, <1>2, <1>3, PhoneEndsWait DEF r

LEMMA PhoneSocketFailsWait ==
  ASSUME RelayInv, RelayInv', WaitInv, PhoneSocketFails
  PROVE  WaitInv'
BY PhoneGivesUpWait DEF PhoneSocketFails

LEMMA HandshakeTimeoutWait ==
  ASSUME RelayInv, RelayInv', WaitInv, HandshakeTimeout
  PROVE  WaitInv'
BY PhoneGivesUpWait DEF HandshakeTimeout

LEMMA PhoneClosesWait ==
  ASSUME RelayInv, RelayInv', Waiting, WaitInv, PhoneCloses
  PROVE  WaitInv'
<1> DEFINE ms == IF phone.sub \in {"asked", "following"}
                 THEN <<Data(phone.channel, Tunnel("unsubscribe", 0, phone.n))>> ELSE <<>>
<1>1. PhoneDoes(Finished(phone, ms, "retry"), <<>>) /\ phone.phase # "closed"
  BY DEF PhoneCloses
<1>2. \/ ms = <<>>
      \/ phone.phase = "sealed" /\ ms = <<Data(phone.channel, Tunnel("unsubscribe", 0, phone.n))>>
  BY DEF Waiting
<1> HIDE DEF ms
<1> QED
  BY <1>1, <1>2, PhoneGivesUpWait

LEMMA PhoneConnectsWait ==
  ASSUME RelayInv, RelayInv', WaitInv, PhoneConnects
  PROVE  WaitInv'
<1>1. /\ connector' = connector /\ backend' = backend /\ greeted' = greeted /\ peers' = peers
      /\ open' = open /\ up' = up /\ down' = down
      /\ phone' = [unbuilt EXCEPT !.n = phone.n + 1, !.phase = "opening"]
  BY DEF PhoneConnects
<1>2. phone'.n = phone.n + 1 /\ phone'.phase = "opening"
  BY <1>1 DEF unbuilt
<1>3. /\ RelayTypeOK /\ RelayTypeOK' /\ RecordsLast /\ Spoken /\ Known
      /\ phone.n \in Nat /\ connector \in Connector
  <2>1. RelayTypeOK /\ RelayTypeOK' /\ RecordsLast /\ Spoken /\ Known
    BY DEF RelayInv, WaitInv
  <2>2. phone \in Phone /\ connector \in Connector
    BY <2>1 DEF RelayTypeOK
  <2> QED
    BY <2>1, <2>2, SocketIs DEF Phone
<1>4. PICK s \in 0 .. MaxSessions : Agreed(connector, phone, PhoneSent, BridgeSent, s)
  BY DEF RelayInv
<1>5. PhoneSent' = PhoneSent /\ PhoneSent \in SUBSET Frames
  BY <1>1, <1>3, OnTheirWay DEF PhoneSent
<1>6. RecordsLast'
  BY <1>1, <1>3 DEF RecordsLast
<1>7. Spoken'
  <2> SUFFICES ASSUME NEW g \in PhoneSent, g.type = "relay/data" PROVE g.of # phone.n + 1
    BY <1>2, <1>3, <1>5 DEF Spoken
  <2>1. g.of = Author(g)
    BY <1>3 DEF Spoken, Author
  <2>2. Author(g) \in 1 .. phone.n
    BY <1>4 DEF Agreed, Shapes
  <2> QED
    BY <1>3, <2>1, <2>2
<1>8. Known'
  <2>1. /\ \A r \in backend : r.of \in Nat /\ r.of <= phone.n
        /\ \A n \in connector.live \cup greeted : n \in Nat /\ n <= phone.n
    <3>1. /\ \A r \in backend : r.of \in Nat
          /\ \A n \in connector.live \cup greeted : n \in Nat
      BY <1>3, WorkIs DEF RelayTypeOK, Connector
    <3> QED
      BY <1>3, <3>1 DEF Known
  <2>2. \A n \in Nat : n <= phone.n => n <= phone.n + 1 /\ n # phone.n + 1
    BY <1>3
  <2>3. /\ \A r \in backend : r.of <= phone.n + 1 /\ r.of # phone.n + 1
        /\ \A n \in connector.live \cup greeted : n <= phone.n + 1 /\ n # phone.n + 1
    BY <2>1, <2>2
  <2> QED
    BY <1>1, <1>2, <2>3 DEF Known
<1>9. ~ Live'
  BY <1>2 DEF Live
<1> QED
  BY <1>1, <1>3, <1>6, <1>7, <1>8, <1>9, PhoneFinishedWait

LEMMA PhoneSocketOpensWait ==
  ASSUME RelayInv, RelayInv', WaitInv, PhoneSocketOpens
  PROVE  WaitInv'
<1>1. /\ phone.phase = "opening" /\ phone' = [phone EXCEPT !.phase = "registering"]
      /\ open' = open \cup {Session} /\ up' = [up EXCEPT ![Session] = <<Register>>]
      /\ connector' = connector /\ backend' = backend /\ greeted' = greeted /\ peers' = peers
      /\ down' = down /\ overQuota' = overQuota
  BY DEF PhoneSocketOpens
<1>2. /\ RelayTypeOK /\ RelayTypeOK' /\ Sockets /\ phone \in Phone /\ up \in [Socket -> Seq(Msg)]
      /\ Session \in Socket /\ Session[1] = "phone" /\ Dialled # Session
      /\ down["phone"] = <<>> /\ down["bridge"] \in Seq(Msg)
      /\ RecordsLast /\ Spoken /\ Known /\ HellosHold
  <2>1. RelayTypeOK /\ Sockets
    BY DEF RelayInv
  <2> QED
    BY <1>1, <2>1, OwnIs, SocketIs, EndIs DEF RelayInv, RelayTypeOK, WaitInv, Sockets
<1>3. phone'.phase = "registering" /\ phone'.n = phone.n /\ phone'.channel = phone.channel
  BY <1>1, <1>2 DEF Phone
<1>4. phone.channel = None
  <2>1. PICK s \in 0 .. MaxSessions : Agreed(connector, phone, PhoneSent, BridgeSent, s)
    BY DEF RelayInv
  <2>2. Theirs(connector, phone)
    BY <2>1 DEF Agreed
  <2> QED
    BY <1>1, <2>2 DEF Theirs
<1>5. up'[Session] = <<Register>> /\ \A x \in Socket : x # Session => up'[x] = up[x]
  BY <1>1, <1>2
<1>6. Register \in Msg /\ ~ Frame(Register)
  BY RelaySays
<1>7. In(<<Register>>) = {Register} /\ Chain(<<Register>>, GreetedFirst)
  BY <1>6, Single
<1>8. RecordsLast'
  <2> SUFFICES ASSUME NEW x \in Socket, x[1] = "phone"
               PROVE  /\ Chain(up'[x], GreetedFirst)
                      /\ \A a \in In(down["bridge"]), b \in In(up'[x]) : <<a, b>> \in GreetedFirst
    BY <1>1, <1>2 DEF RecordsLast
  <2>1. \A a \in In(down["bridge"]) : a \in Msg /\ <<a, Register>> \in GreetedFirst
    <3>1. \A a \in In(down["bridge"]) : a \in Msg
      BY <1>2 DEF In
    <3> QED
      BY <1>6, <3>1 DEF GreetedFirst, Frame
  <2>2. CASE x = Session
    BY <1>5, <1>7, <2>1, <2>2
  <2>3. CASE x # Session
    BY <1>2, <1>5, <2>3 DEF RecordsLast
  <2> QED
    BY <2>2, <2>3
<1>9. PhoneSent' \subseteq PhoneSent
  <2> SUFFICES ASSUME NEW g \in PhoneSent' PROVE g \in PhoneSent
    OBVIOUS
  <2>1. Frame(g) /\ (g \in In(down'["bridge"]) \/ \E x \in Socket : x[1] = "phone" /\ g \in In(up'[x]))
    BY <1>2, OnTheirWayNext
  <2>2. g \in In(down["bridge"]) \/ \E x \in Socket : x[1] = "phone" /\ g \in In(up[x])
    BY <1>1, <1>5, <1>6, <1>7, <2>1
  <2> QED
    BY <1>2, <2>1, <2>2, OnTheirWay
\* The session has said nothing yet, and nobody works for it.
<1>10. Spoken'
  BY <1>1, <1>2, <1>3, <1>9 DEF Spoken
<1>11. Known'
  BY <1>1, <1>2, <1>3 DEF Known
<1>12. HellosHold'
  <2>1. Held(down["phone"], connector.channel, connector.live)
    <3>1. In(<<>>) = {}
      BY Emptied
    <3> QED
      BY <1>2, <3>1, NothingHeld
  <2>2. Dialled' = Dialled
    BY <1>1 DEF Dialled
  <2>3. ASSUME connector.link = "open", Dialled \in open', ~ Closing(up'[Dialled])
        PROVE  Held(up'[Dialled], connector.channel, connector.live)
    <3>1. Dialled \in open /\ Dialled \in Socket
      BY <1>1, <1>2, <2>3 DEF RelayTypeOK
    <3>2. up'[Dialled] = up[Dialled]
      BY <1>2, <1>5, <3>1
    <3> QED
      BY <1>2, <2>3, <3>1, <3>2 DEF HellosHold
  <2> QED
    BY <1>1, <2>1, <2>2, <2>3 DEF HellosHold
<1>13. ~ Meets'
  BY <1>3, <1>4 DEF Meets
<1> QED
  BY <1>8, <1>10, <1>11, <1>12, <1>13 DEF WaitInv, Reached, Followed, Asked, Requested

-----------------------------------------------------------------------------
LEMMA WaitInvStarts ==
  ASSUME RelayInit
  PROVE  WaitInv
<1>1. /\ connector = undialled /\ phone = unbuilt /\ backend = {} /\ greeted = {}
      /\ up = [s \in Socket |-> <<>>] /\ down = [e \in End |-> <<>>]
  BY DEF RelayInit
<1>2. /\ connector.link = "none" /\ phone.phase = "idle" /\ connector.live = {}
      /\ down["bridge"] = <<>> /\ \A s \in Socket : up[s] = <<>>
  BY <1>1, EndIs DEF undialled, unbuilt
<1>3. In(<<>>) = {} /\ \A R : Chain(<<>>, R)
  BY Emptied
<1>4. ~ Facing /\ ~ Meets
  BY <1>2 DEF Facing, Meets
<1>5. PhoneSent = {}
  <2>1. RelayTypeOK
    BY RelayInvStarts DEF RelayInvHolds, RelayInv
  <2> QED
    BY <1>2, <1>3, <2>1, OnTheirWay
<1>6. RecordsLast
  BY <1>2, <1>3 DEF RecordsLast
<1>7. Spoken /\ Known
  BY <1>1, <1>2, <1>5 DEF Spoken, Known
<1> QED
  BY <1>2, <1>4, <1>6, <1>7 DEF WaitInv, HellosHold, Reached, Followed, Asked, Requested

LEMMA StepKeepsWaitInv ==
  ASSUME RelayInvHolds, WaitInv, RelayNext
  PROVE  WaitInv'
<1>1. RelayInv /\ Waiting /\ WaitInv /\ RelayInv'
  BY StepKeepsRelayInv DEF RelayInvHolds
<1>2. ASSUME NEW s \in Socket, RelayReads(s) \/ ConnectionDies(s) PROVE WaitInv'
  BY <1>1, <1>2, RelayReadsWait, ConnectionDiesWait
<1>3. CASE ConnectorReads \/ ConnectorDials \/ ConnectorStops
  BY <1>1, <1>3, ConnectorReadsWait, ConnectorDialsWait, ConnectorStopsWait
<1>4. CASE ConnectorSocketOpens \/ ConnectorSocketFails
  BY <1>1, <1>4, ConnectorSocketOpensWait, ConnectorSocketFailsWait
<1>5. ASSUME NEW r \in backend, BackendAnswers(r) \/ SubscribeAnswered(r) PROVE WaitInv'
  BY <1>1, <1>5, BackendAnswersWait, SubscribeAnsweredWait
<1>6. ASSUME NEW n \in connector.live, StreamGreets(n) \/ StreamEnds(n) PROVE WaitInv'
  BY <1>1, <1>6, StreamGreetsWait, StreamEndsWait
<1>7. CASE PhoneReads \/ PhoneConnects \/ PhoneSocketOpens \/ PhoneSocketFails
  BY <1>1, <1>7, PhoneReadsWait, PhoneConnectsWait, PhoneSocketOpensWait, PhoneSocketFailsWait
<1>8. CASE PhoneCloses \/ HandshakeTimeout \/ PhoneRequests \/ PhoneSubscribes
  BY <1>1, <1>8, PhoneClosesWait, HandshakeTimeoutWait, PhoneRequestsWait, PhoneSubscribesWait
<1>9. ASSUME NEW id \in phone.pending, RequestTimesOut(id) PROVE WaitInv'
  BY <1>1, <1>9, RequestTimesOutWait
<1> QED
  BY <1>2, <1>3, <1>4, <1>5, <1>6, <1>7, <1>8, <1>9 DEF RelayNext

LEMMA WaitInvStutters ==
  ASSUME WaitInv, UNCHANGED relayVars
  PROVE  WaitInv'
<1>1. /\ connector' = connector /\ phone' = phone /\ backend' = backend /\ greeted' = greeted
      /\ peers' = peers /\ open' = open /\ up' = up /\ down' = down /\ overQuota' = overQuota
  BY DEF relayVars
<1>2. Dialled' = Dialled /\ Session' = Session /\ Live' = Live /\ PhoneSent' = PhoneSent
  BY <1>1 DEF Dialled, Session, Live, PhoneSent
<1>3. Facing' = Facing /\ Incoming' = Incoming /\ Outgoing' = Outgoing
  BY <1>1, <1>2 DEF Facing, Incoming, Outgoing
<1>4. Meets' = Meets
  BY <1>1, <1>3 DEF Meets
<1>5. RecordsLast' /\ Spoken' /\ Known'
  BY <1>1, <1>2 DEF WaitInv, RecordsLast, Spoken, Known
<1>6. Reached' /\ Followed' /\ HellosHold'
  BY <1>1, <1>2, <1>3, <1>4 DEF WaitInv, Reached, Followed, HellosHold
<1>7. Requested' /\ Asked'
  <2>1. /\ \A k, i : Wanted(k, i) => Wanted(k, i)'
        /\ Awaited => Awaited'
    BY <1>1, <1>3, StillWanted
  <2>2. \A g : Informs(g)' = Informs(g)
    BY <1>1 DEF Informs
  <2>3. Requested'
    BY <1>1, <1>3, <1>4, <2>1 DEF WaitInv, Requested
  <2>4. Asked'
    BY <1>1, <1>3, <1>4, <2>1, <2>2 DEF WaitInv, Asked
  <2> QED
    BY <2>3, <2>4
<1> QED
  BY <1>5, <1>6, <1>7 DEF WaitInv

\* What the phone waits for is always with somebody who could move it: handleRequest and the
\* stream sinks of connector.ts, TunnelClient in tunnel.ts, and the frames server.ts still has
\* to forward; records of a session follow its greetings, an answer goes out on the channel
\* it was asked on, and a hello is of a stream that lives or its end is on its way behind it.
THEOREM WaitInvAlways == RelaySpec => []WaitInv
<1>1. RelayInvHolds /\ WaitInv /\ [RelayNext]_relayVars => WaitInv'
  BY StepKeepsWaitInv, WaitInvStutters
<1> QED
  BY <1>1, WaitInvStarts, RelayInvAlways, PTL DEF RelaySpec

\* Two ends that nothing keeps apart meet.
LEMMA NothingKeepsApart ==
  ASSUME RelayInv, Waiting, phone.pending # {} \/ phone.sub # "none", ~ Ending, Orphans = {}
  PROVE  /\ Meets /\ peers["bridge"] = Dialled /\ peers["bridge"] # None
         /\ In(up[Session]) = ToSet(up[Session]) /\ In(up[Dialled]) = ToSet(up[Dialled])
         /\ In(down["phone"]) = ToSet(down["phone"]) /\ In(down["bridge"]) = ToSet(down["bridge"])
<1>1. RelayTypeOK /\ Sockets /\ PhoneTold /\ Fresh
  BY DEF RelayInv
<1>2. PICK s \in 0 .. MaxSessions : Agreed(connector, phone, PhoneSent, BridgeSent, s)
  BY DEF RelayInv
<1>3. phone.phase = "sealed" /\ phone.channel # None /\ phone.peerEphemeral # 0
  <2>1. phone.phase = "sealed"
    BY DEF Waiting
  <2>2. Theirs(connector, phone)
    BY <1>2 DEF Agreed
  <2> QED
    BY <2>1, <2>2 DEF Theirs
<1>4. /\ up \in [Socket -> Seq(Msg)] /\ down["phone"] \in Seq(Msg) /\ down["bridge"] \in Seq(Msg)
      /\ peers \in [End -> Socket \cup {None}] /\ "phone" \in End /\ "bridge" \in End
  BY <1>1, EndIs DEF RelayTypeOK
<1>5. Live /\ Session \in Socket /\ Session # None
  BY <1>1, <1>3, LiveIs, SocketIs DEF Live
<1>6. \A q \in Seq(Msg) : In(q) = ToSet(q) /\ In(q) = {q[i] : i \in DOMAIN q}
  BY DEF In, ToSet
<1>7. NoEnds(down["phone"])
  <2> SUFFICES ASSUME NEW m \in In(down["phone"]), Ends(m) PROVE FALSE
    BY DEF NoEnds
  <2>1. PICK i \in DOMAIN down["phone"] : m = down["phone"][i]
    BY <1>4, <1>6
  <2> QED
    BY <2>1 DEF Ending, Ends
<1>8. Session \in open /\ peers["phone"] = Session
  <2>1. closed \notin In(down["phone"])
    BY <1>7, NoticesDiffer DEF NoEnds
  <2> QED
    BY <1>1, <1>3, <1>5, <2>1 DEF PhoneTold
<1>9. peers["bridge"] # None
  BY <1>1, <1>3, <1>5, <1>7, <1>8 DEF Fresh
<1>10. /\ peers["bridge"] = Dialled /\ connector.link = "open" /\ ~ Closing(up[Dialled])
       /\ ~ Closing(up[Session]) /\ Dialled \in Socket
  <2>1. peers["bridge"] \in open /\ peers["bridge"][1] = "bridge" /\ ~ Closing(up[peers["bridge"]])
    BY <1>1, <1>4, <1>9 DEF Sockets, Ending
  <2>2. peers["bridge"] = Dialled /\ connector.link = "open"
    BY <2>1 DEF Orphans
  <2> QED
    BY <1>4, <1>9, <2>1, <2>2 DEF Ending
<1>11. Meets
  BY <1>3, <1>5, <1>7, <1>10 DEF Facing, Meets
<1> QED
  BY <1>4, <1>5, <1>6, <1>9, <1>10, <1>11

LEMMA NobodyWaitsForNothingThen ==
  ASSUME RelayInv, Waiting, WaitInv
  PROVE  NobodyWaitsForNothing
<1>1. Followed /\ Asked /\ Requested
  BY DEF WaitInv
<1>2. \A k, i : LET g == Data(phone.channel, Tunnel(k, i, phone.n))
                IN  g.type = "relay/data" /\ g.kind = k /\ g.id = i
  BY DEF Data, Tunnel
<1>3. NoRequestIsForgotten
  <2> SUFFICES ASSUME NEW id \in phone.pending, ~ Ending, Orphans = {}, ~ overQuota
               PROVE  LET OfIt(q) == \E m \in ToSet(q) : m.type = "relay/data" /\ m.id = id
                      IN  \/ OfIt(up[Session]) \/ OfIt(down["bridge"]) \/ OfIt(down["phone"])
                          \/ Tunnel("request", id, phone.n) \in backend
                          \/ peers["bridge"] # None /\ OfIt(up[peers["bridge"]])
    BY DEF NoRequestIsForgotten
  <2>1. /\ Meets /\ peers["bridge"] = Dialled /\ peers["bridge"] # None
        /\ In(up[Session]) = ToSet(up[Session]) /\ In(up[Dialled]) = ToSet(up[Dialled])
        /\ In(down["phone"]) = ToSet(down["phone"]) /\ In(down["bridge"]) = ToSet(down["bridge"])
    BY NothingKeepsApart
  <2>2. (\E g \in Incoming : Replies(g, id)) \/ Wanted("request", id)
    BY <1>1, <2>1 DEF Requested
  <2>3. ASSUME NEW g \in Incoming, Replies(g, id)
        PROVE  g.type = "relay/data" /\ g.id = id /\ (g \in ToSet(up[Dialled]) \/ g \in ToSet(down["phone"]))
    BY <2>1, <2>3 DEF Replies, IsRecord, Incoming
  <2>4. ASSUME Wanted("request", id)
        PROVE  \/ Tunnel("request", id, phone.n) \in backend
               \/ \E g \in ToSet(up[Session]) \cup ToSet(down["bridge"]) : g.type = "relay/data" /\ g.id = id
    BY <1>2, <2>1, <2>4 DEF Wanted, Outgoing
  <2> QED
    BY <2>1, <2>2, <2>3, <2>4
<1>4. SubscriptionIsServed
  <2> DEFINE Moving(m) == /\ m.type = "relay/data"
                          /\ m.kind \in {"subscribe", "hello", "subscribe-failed", "unsubscribed"}
  <2> SUFFICES ASSUME phone.sub \in {"asked", "following"}, ~ Ending, Orphans = {}, ~ overQuota
               PROVE  LET Moves(q) == \E m \in ToSet(q) : Moving(m)
                      IN  \/ phone.sub = "asked" /\ \/ Moves(up[Session]) \/ Moves(down["bridge"])
                                                    \/ Tunnel("subscribe", phone.subId, phone.n) \in backend
                                                    \/ phone.n \in connector.live \ greeted
                          \/ phone.sub = "following" /\ phone.hello \in connector.live
                          \/ Moves(down["phone"])
                          \/ peers["bridge"] # None /\ Moves(up[peers["bridge"]])
    BY DEF SubscriptionIsServed
  <2>1. /\ Meets /\ peers["bridge"] = Dialled /\ peers["bridge"] # None
        /\ In(up[Session]) = ToSet(up[Session]) /\ In(up[Dialled]) = ToSet(up[Dialled])
        /\ In(down["phone"]) = ToSet(down["phone"]) /\ In(down["bridge"]) = ToSet(down["bridge"])
    BY NothingKeepsApart
  <2>2. \A g \in Incoming : g \in ToSet(up[Dialled]) \/ g \in ToSet(down["phone"])
    BY <2>1 DEF Incoming
  <2>3. CASE phone.sub = "following"
    <3>1. phone.hello \in connector.live \/ \E g \in Incoming : Moving(g)
      BY <1>1, <2>1, <2>3 DEF Followed, IsRecord
    <3> HIDE DEF Moving
    <3> QED
      BY <2>1, <2>2, <2>3, <3>1
  <2>4. CASE phone.sub = "asked"
    <3>1. (\E g \in Incoming : Moving(g)) \/ Awaited
      BY <1>1, <2>1, <2>4 DEF Asked, Informs, IsRecord
    <3>2. Awaited => \/ Tunnel("subscribe", phone.subId, phone.n) \in backend
                     \/ \E g \in ToSet(up[Session]) \cup ToSet(down["bridge"]) : Moving(g)
                     \/ phone.n \in connector.live \ greeted
      BY <1>2, <2>1 DEF Awaited, Wanted, Outgoing
    <3> HIDE DEF Moving
    <3> QED
      BY <2>1, <2>2, <2>4, <3>1, <3>2
  <2> QED
    BY <2>3, <2>4
<1> QED
  BY <1>3, <1>4 DEF NobodyWaitsForNothing

\* NobodyWaitsForNothing in every state: a request the phone waits for, the hello it was
\* promised and the stream it follows (TunnelClient in tunnel.ts) are never forgotten by all
\* who could move them, the connector, the bridge's routes and the relay's queues, unless the
\* phone is about to hear that its session is over, a frame was over the quota, or a socket
\* of the connector is orphaned.
THEOREM NobodyEverWaitsForNothing == RelaySpec => []NobodyWaitsForNothing
<1>1. RelayInvHolds /\ WaitInv => NobodyWaitsForNothing
  BY NobodyWaitsForNothingThen DEF RelayInvHolds
<1> QED
  BY <1>1, RelayInvAlways, WaitInvAlways, PTL
=============================================================================
