------------------------------ MODULE WebSocket ------------------------------
(***************************************************************************)
(* The hand-written WebSocket of the bridge (bridge/src/http/websocket.ts):*)
(* FrameDecoder, ServerWebSocket and ClientWebSocket.  The server end is   *)
(* that of /m1/stream and of the relay.  The client end is the bridge's own*)
(* ClientWebSocket over a loopback carrier (relay/backend.ts), or that of  *)
(* a phone, which answers pings and closes alike and may also fragment its *)
(* messages and break the protocol.                                        *)
(*                                                                         *)
(* A frame crosses the network in two halves, and a read of the socket     *)
(* takes one or more of them.  A message is the sequence of its payloads.  *)
(* Every violation of the protocol that the decoder sees in one frame      *)
(* (mask, reserved bits, opcode, length, UTF-8) is the opcode "invalid";   *)
(* close codes, binary messages (text with another sink) and payload bytes *)
(* are left out.                                                           *)
(*                                                                         *)
(* A socket may fail or close at any moment, with what it had not yet      *)
(* read; a peer that vanishes, a phone on a dead radio, says nothing more. *)
(***************************************************************************)
EXTENDS Naturals, Sequences, SequencesExt

CONSTANTS
  MaxMessages,       \* bound, per end: messages it sends
  MaxMessageParts,   \* maxMessageBytes, a payload counting one
  MaxInvalid         \* bound: invalid frames written by the client

ASSUME WebSocketAssumption ==
  /\ MaxMessages \in [{"server", "client"} -> Nat]
  /\ MaxMessageParts \in Nat \ {0} /\ MaxInvalid \in Nat

End      == {"server", "client"}
Other(e) == IF e = "server" THEN "client" ELSE "server"

VARIABLES
  end,      \* per end: the fields of its ServerWebSocket or ClientWebSocket
  dead,     \* per end: its socket is destroyed
  wire,     \* per end: halves of frames on their way to it
  vanished, \* the network between them is silent
  invalid,  \* invalid frames written so far
  sent,     \* history, per end: messages it accepted for sending
  received, \* history, per end: messages its onMessage was called with
  notices   \* history, per end: calls of its onClose

wsVars == <<end, dead, wire, vanished, invalid, sent, received, notices>>

EncodeFrame(op, fin, part) == [op |-> op, fin |-> fin, part |-> part]
Text(part)   == EncodeFrame("text", TRUE, part)
Control(op)  == EncodeFrame(op, TRUE, 0)
Halves(fs)   == [i \in 1 .. 2 * Len(fs) |-> <<fs[(i + 1) \div 2], 2 - (i % 2)>>]

fresh == [buffer |-> <<>>, fragments |-> <<>>, closed |-> FALSE, closeSent |-> FALSE,
          attached |-> FALSE, pongTimer |-> FALSE]

-----------------------------------------------------------------------------
\* FrameDecoder. The outcome of a push: the messages of this push alone, and whether
\* the decoding stopped at a close frame or failed.

Decodes(op, parts) == [op |-> op, parts |-> parts]
IsText(m)          == m.op = "text"
IsControl(f)       == f.op \in {"ping", "pong", "close"}

\* The limit is on the accumulated message, and text never comes inside a message.
Refused_NoNesting(d, f) ==
  f.op = "invalid" \/ (~ IsControl(f) /\ Len(d.fragments) = MaxMessageParts)
Refused(d, f) ==
  \/ f.op = "invalid"
  \/ /\ ~ IsControl(f)
     /\ \/ (f.op = "text") # (d.fragments = <<>>)
        \/ Len(d.fragments) = MaxMessageParts

\* Control frames may come between fragments; a close frame ends the push.
Decoded(d, f) ==
  IF IsControl(f) THEN [d EXCEPT !.messages = Append(@, Decodes(f.op, <<>>)),
                                 !.stop = IF f.op = "close" THEN "close" ELSE @]
  ELSE IF ~ f.fin THEN [d EXCEPT !.fragments = Append(@, f.part)]
  ELSE [d EXCEPT !.messages = Append(@, Decodes("text", Append(d.fragments, f.part))),
                 !.fragments = <<>>]
DecodeFrame(d, f) ==
  IF d.stop # "no" THEN d
  ELSE IF Refused(d, f) THEN [d EXCEPT !.stop = "failed"]
  ELSE Decoded(d, f)

\* readFrame: the whole frames at the head of the buffer; half a frame stays in it.
WholeFrames(buffer) == [i \in 1 .. Len(buffer) \div 2 |-> buffer[2 * i][1]]
Remainder(buffer)   == SubSeq(buffer, 2 * (Len(buffer) \div 2) + 1, Len(buffer))

Push(w, chunk) ==
  LET buffer == w.buffer \o chunk
      frames == WholeFrames(buffer)
      after[i \in 0 .. Len(frames)] ==
        IF i = 0 THEN [fragments |-> w.fragments, messages |-> <<>>, stop |-> "no"]
        ELSE DecodeFrame(after[i - 1], frames[i])
  IN  [buffer |-> Remainder(buffer), result |-> after[Len(frames)]]

\* The texts among the messages, which are what the user is handed.
Taking(texts, m) == IF IsText(m) THEN Append(texts, m.parts) ELSE texts
Texts(ms) ==
  LET texts[i \in 0 .. Len(ms)] == IF i = 0 THEN <<>> ELSE Taking(texts[i - 1], ms[i])
  IN  texts[Len(ms)]

-----------------------------------------------------------------------------
\* The two socket classes. A method yields the end after it and the frames it wrote.

Does(w, out) == [end |-> w, out |-> out]

Teardown(w) == [w EXCEPT !.closed = TRUE, !.pongTimer = FALSE]

Closing(w) == IF w.closeSent THEN Does(w, <<>>)
              ELSE Does([Teardown(w) EXCEPT !.closeSent = TRUE], <<Control("close")>>)

\* What onData does with one message, after those before it.
PongFor(w) == IF w.closeSent THEN <<>> ELSE <<Control("pong")>>
OnDecoded(r, m) ==
  CASE m.op = "ping"  -> Does(r.end, r.out \o PongFor(r.end))
    [] m.op = "pong"  -> Does([r.end EXCEPT !.pongTimer = FALSE], r.out)
    [] m.op = "close" -> LET c == Closing(r.end) IN Does(c.end, r.out \o c.out)
    [] m.op = "text"  -> r

\* The sink of the text at position `at` closes the socket (a message its user refuses);
\* the loop over the messages goes on.
OnMessages(w, ms, at) ==
  LET Handle(r, i) == LET h == OnDecoded(r, ms[i]) IN
                      IF i = at THEN LET c == Closing(h.end) IN Does(c.end, h.out \o c.out) ELSE h
      after[i \in 0 .. Len(ms)] ==
        IF i = 0 THEN Does(w, <<>>) ELSE Handle(after[i - 1], i)
  IN  after[Len(ms)]

\* The end after n halves were read from its socket and a method ran: what the method
\* wrote is on its way, and the teardown that closes the end calls onClose. A closed end
\* ignores what it reads and has no use for what it has buffered.
Settled(w)  == IF w.closed THEN [w EXCEPT !.buffer = <<>>, !.fragments = <<>>] ELSE w
Tells(e, w) == notices' = [notices EXCEPT ![e] =
                             IF w.attached /\ w.closed /\ ~ end[e].closed THEN @ + 1 ELSE @]
Carried(e)  == ~ vanished /\ ~ dead[e] /\ ~ end[Other(e)].closed
Commits(e, n, r) ==
  /\ end' = [end EXCEPT ![e] = Settled(r.end)]
  /\ wire' = [wire EXCEPT ![e] = IF r.end.closed THEN <<>> ELSE SubSeq(@, n + 1, Len(@)),
                          ![Other(e)] = IF Carried(e) THEN @ \o Halves(r.out) ELSE @]
  /\ Tells(e, r.end)

\* The socket of an end is destroyed, with what it had not read.
Loses(e, w) ==
  /\ ~ dead[e] /\ dead' = [dead EXCEPT ![e] = TRUE]
  /\ end' = [end EXCEPT ![e] = Settled(w)] /\ wire' = [wire EXCEPT ![e] = <<>>]
  /\ Tells(e, w)
  /\ UNCHANGED <<vanished, invalid, sent, received>>

-----------------------------------------------------------------------------
\* Operations of the users of an end.

\* setSinks, which reports a socket that closed before.
SetSinks_Silent(e) ==
  /\ ~ end[e].attached
  /\ end' = [end EXCEPT ![e].attached = TRUE]
  /\ UNCHANGED <<dead, wire, vanished, invalid, sent, received, notices>>

SetSinks(e) ==
  /\ ~ end[e].attached
  /\ end' = [end EXCEPT ![e].attached = TRUE]
  /\ notices' = [notices EXCEPT ![e] = IF end[e].closed THEN @ + 1 ELSE @]
  /\ UNCHANGED <<dead, wire, vanished, invalid, sent, received>>

\* send and sendJson: nothing is accepted on a closed socket.
NextText(e) == Len(sent[e]) + 1
MaySend(e)  == ~ end[e].closed /\ Len(sent[e]) < MaxMessages[e]
Send(e) ==
  /\ MaySend(e)
  /\ Commits(e, 0, Does(end[e], <<Text(NextText(e))>>))
  /\ sent' = [sent EXCEPT ![e] = Append(@, <<NextText(e)>>)]
  /\ UNCHANGED <<dead, vanished, invalid, received>>

\* A phone sends a message of n payloads in fragments, with a ping after the first.
Fragments(n, part) ==
  <<EncodeFrame("text", FALSE, part), Control("ping")>>
    \o [i \in 1 .. n - 1 |-> EncodeFrame("continuation", i = n - 1, part)]
SendFragmented(n) ==
  /\ MaySend("client")
  /\ LET part == NextText("client")
     IN  /\ Commits("client", 0, Does(end["client"], Fragments(n, part)))
         /\ sent' = [sent EXCEPT !["client"] = Append(@, [i \in 1..n |-> part])]
  /\ UNCHANGED <<dead, vanished, invalid, received>>

\* A phone breaks the protocol: an invalid frame, a continuation of nothing, or a
\* message inside another.
Invalid == {<<Control("invalid")>>, <<EncodeFrame("continuation", TRUE, 0)>>,
            <<EncodeFrame("text", FALSE, 0), Text(0)>>}
SendInvalid(fs) ==
  /\ ~ end["client"].closed /\ invalid < MaxInvalid
  /\ Commits("client", 0, Does(end["client"], fs))
  /\ invalid' = invalid + 1
  /\ UNCHANGED <<dead, vanished, sent, received>>

Close(e) ==
  /\ ~ end[e].closeSent
  /\ Commits(e, 0, Closing(end[e]))
  /\ UNCHANGED <<dead, vanished, invalid, sent, received>>

\* destroy, by the user or by the pong timer: no close frame.
Destroy(e) == Loses(e, [Teardown(end[e]) EXCEPT !.closeSent = TRUE])

\* Bound: a read takes half a frame, all there is, or all but the last half.
ReadSizes(e) == {1, Len(wire[e]) - 1, Len(wire[e])} \cap (1 .. Len(wire[e]))

\* onData with the first n halves on their way. An outcome that is not ok drops the
\* messages that the same push completed.
OnData(e, n) ==
  LET pushed == Push(end[e], SubSeq(wire[e], 1, n))
      result == pushed.result
      w      == [end[e] EXCEPT !.buffer = pushed.buffer, !.fragments = result.fragments]
  IN  /\ end[e].attached /\ ~ end[e].closed
      /\ \/ result.stop = "failed" /\ Commits(e, n, Closing(w)) /\ UNCHANGED received
         \/ /\ result.stop # "failed"
            /\ \E at \in {0} \cup {i \in DOMAIN result.messages : IsText(result.messages[i])} :
                 Commits(e, n, OnMessages(w, result.messages, at))
            /\ received' = [received EXCEPT ![e] = @ \o Texts(result.messages)]
      /\ UNCHANGED <<dead, vanished, invalid, sent>>

-----------------------------------------------------------------------------
\* The keep-alive of the server end. Bound: one ping on its way, and no second one while
\* its pong is.

UnderWay(e, op) == \E i \in DOMAIN wire[e] : wire[e][i][1].op = op
MayPing == /\ ~ end["server"].closed /\ ~ UnderWay("client", "ping")
           /\ end["server"].pongTimer => ~ UnderWay("server", "pong")

\* The interval of armKeepAlive: a ping, and the pong timer unless it runs.
KeepAlive_Untimed ==
  /\ MayPing
  /\ Commits("server", 0, Does(end["server"], <<Control("ping")>>))
  /\ UNCHANGED <<dead, vanished, invalid, sent, received>>

KeepAlive ==
  /\ MayPing
  /\ Commits("server", 0, Does([end["server"] EXCEPT !.pongTimer = TRUE], <<Control("ping")>>))
  /\ UNCHANGED <<dead, vanished, invalid, sent, received>>

PongTimeout == end["server"].pongTimer /\ Destroy("server")

-----------------------------------------------------------------------------
\* The network.

\* The error or close event of a socket.
SocketCloses(e) == Loses(e, Teardown(end[e]))

Vanish ==
  /\ ~ vanished
  /\ vanished' = TRUE /\ wire' = [e \in End |-> <<>>]
  /\ UNCHANGED <<end, dead, invalid, sent, received, notices>>

WsInit ==
  /\ end = [e \in End |-> fresh] /\ dead = [e \in End |-> FALSE]
  /\ wire = [e \in End |-> <<>>] /\ vanished = FALSE /\ invalid = 0
  /\ sent = [e \in End |-> <<>>] /\ received = [e \in End |-> <<>>]
  /\ notices = [e \in End |-> 0]

WsNext ==
  \/ \E e \in End : SetSinks(e) \/ Send(e) \/ Close(e) \/ Destroy(e) \/ SocketCloses(e)
                    \/ \E n \in ReadSizes(e) : OnData(e, n)
  \/ \E n \in 2 .. MaxMessageParts + 1 : SendFragmented(n)
  \/ \E fs \in Invalid : SendInvalid(fs)
  \/ KeepAlive \/ PongTimeout \/ Vanish

WsSpec == WsInit /\ [][WsNext]_wsVars

\* The two timers of the server end run.
WsFairSpec == WsSpec /\ WF_wsVars(KeepAlive) /\ WF_wsVars(PongTimeout)

-----------------------------------------------------------------------------
Messages(e) == UNION {[1..n -> 1..MaxMessages[e]] : n \in 1 .. MaxMessageParts + 1}
ToServer == INSTANCE MessageStream
            WITH Message <- Messages("client"), sent <- sent["client"],
                 delivered <- received["server"]
ToClient == INSTANCE MessageStream
            WITH Message <- Messages("server"), sent <- sent["server"],
                 delivered <- received["client"]

\* Whatever the network makes of the bytes and the peer of its frames, an end is handed
\* the messages of the other, whole, in order and none skipped; what breaks the protocol
\* is never handed on as a message, nor glued to one.
ImplementsStreams == ToServer!StreamSpec /\ ToClient!StreamSpec

\* "onClose fires immediately so a subscriber is never left attached to a dead socket"
\* (setSinks): whichever of the close paths come, in any order and number, the user of an
\* end is told once.
ClosedIsToldOnce ==
  \A e \in End : notices[e] = IF end[e].attached /\ end[e].closed THEN 1 ELSE 0

\* Nothing follows a close frame, neither a pong that a read of several frames still
\* calls for nor a message of a sink that has not heard of the close.
NothingAfterClose ==
  \A e \in End : \A i \in DOMAIN wire[e] :
    wire[e][i][1].op = "close" => i >= Len(wire[e]) - 1

\* A close is the end of an end: told once, and the last thing it says.
CloseIsFinal == ClosedIsToldOnce /\ NothingAfterClose

\* "a backgrounded phone on a dead radio looks exactly like this, and holding the socket
\* open would leak a subscriber slot" (armKeepAlive): a peer that is gone, with or without
\* a word, is found out.
GonePeerIsNoticed ==
  (vanished \/ dead["client"]) ~> end["server"].closed
=============================================================================
