------------------------------- MODULE Respond -------------------------------
(***************************************************************************)
(* Phones answer dsh's questions: POST /m1/respond                         *)
(* (bridge/src/http/server.ts, handleRespond), over the hub's set of open  *)
(* obligations and a dsh that accepts one answer to each.                  *)
(*                                                                         *)
(* Several phones may answer one obligation at once.  A call is            *)
(* suspended at two places: in the chain of the calls for its rpcId, and   *)
(* in the request to dsh; between them it runs without interruption.       *)
(* Authentication, the rate limit and the policy gate come before all this *)
(* and answer for themselves.                                              *)
(***************************************************************************)
EXTENDS StreamHub

CONSTANTS
  Call,         \* the calls of a behaviour
  NoCall,
  MaxCrashes    \* bound: crashes of dsh

ASSUME RespondAssumption == NoCall \notin Call /\ MaxCrashes \in Nat

VARIABLES
  dshUp,        \* external: the dsh process serves requests
  asked,        \* external: what this dsh process waits for an answer to
  everAsked,    \* external: dsh never reuses an rpcId
  wire,         \* external: mux frames that the bridge has not ingested yet
  stray,        \* external: answers that dsh received and the bridge gave up on
  early,        \* history: what dsh asked for before its generation was ready
  crashes,
  call,         \* per call: its place in handleRespond, and its reply
  respondChains \* per rpcId: the promise the next call waits for

dshVars == <<dshUp, asked, everAsked, wire, stray, early, crashes>>
respondVars == <<hubVars, dshVars, call, respondChains>>

fresh == [state |-> "new", rpc |-> NoCall, after |-> NoCall,
          reply |-> "none"]

RespondInit ==
  /\ HubInit
  /\ dshUp = FALSE /\ asked = {} /\ everAsked = {} /\ wire = <<>>
  /\ stray = {} /\ early = {} /\ crashes = 0
  /\ call = [c \in Call |-> fresh]
  /\ respondChains = <<>>

-----------------------------------------------------------------------------
\* dsh, and the hub that follows it.

DshAsks == \E r \in Rpc \ everAsked :
  /\ dshUp
  /\ asked' = asked \cup {r} /\ everAsked' = everAsked \cup {r}
  /\ wire' = Append(wire, Requested(r))
  /\ early' = IF dshReady THEN early ELSE early \cup {r}
  /\ UNCHANGED <<hubVars, dshUp, stray, crashes, call, respondChains>>

\* The tool call was answered at the workstation, or cancelled.
DshResolves == \E r \in asked :
  /\ asked' = asked \ {r}
  /\ wire' = Append(wire, Resolved(r))
  /\ UNCHANGED <<hubVars, dshUp, everAsked, stray, early, crashes, call, respondChains>>

Pump == /\ wire # <<>>
        /\ IngestMux(Head(wire))
        /\ wire' = Tail(wire)
        /\ UNCHANGED <<dshUp, asked, everAsked, stray, early, crashes, call, respondChains>>

\* Requests that dsh has not handled die with it, receipts under way may not.
DshCrashes ==
  /\ dshUp /\ crashes < MaxCrashes
  /\ crashes' = crashes + 1 /\ dshUp' = FALSE
  /\ asked' = {} /\ wire' = <<>> /\ stray' = {}
  /\ IF dshReady THEN OnDshDisconnected ELSE UNCHANGED hubVars
  /\ call' = [c \in Call |-> IF call[c].state = "asking"
                             THEN [call[c] EXCEPT !.state = "broken"] ELSE call[c]]
  /\ UNCHANGED <<everAsked, early, respondChains>>

DshBoots == /\ ~ dshUp /\ dshUp' = TRUE
            /\ UNCHANGED <<hubVars, asked, everAsked, wire, stray, early, crashes,
                            call, respondChains>>

GenerationReady == /\ dshUp /\ ~ dshReady
                   /\ OnDshReady
                   /\ UNCHANGED <<dshVars, call, respondChains>>

-----------------------------------------------------------------------------
\* handleRespond.

Done(c, reply) == [call EXCEPT ![c].state = "done", ![c].reply = reply]

\* What the map of chains holds for a call is not the promise the call awaits, but
\* one derived from it that never fails.
Stored(c)  == [call |-> c, promise |-> "caught"]
Awaited(c) == [call |-> c, promise |-> "attempt"]

\* From the pending check to the chain: one synchronous step.
Refuse(c, r) ==
  /\ call[c].state = "new"
  /\ \E reply \in (IF r \notin pending THEN {"already-resolved"}
                   ELSE {"bad-request"} \cup (IF dshReady THEN {} ELSE {"dsh-unavailable"})) :
       call' = [call EXCEPT ![c].state = "done", ![c].rpc = r, ![c].reply = reply]
  /\ UNCHANGED <<hubVars, dshVars, respondChains>>

Chain(c, r) ==
  /\ call[c].state = "new" /\ r \in pending /\ dshReady
  /\ call' = [call EXCEPT ![c].state = "chained", ![c].rpc = r,
                ![c].after = IF r \in DOMAIN respondChains
                             THEN respondChains[r].call ELSE NoCall]
  /\ respondChains' = Put(respondChains, r, Stored(c))
  /\ UNCHANGED <<hubVars, dshVars>>

Before(c) == call[c].after
TurnCame_AtOnce(c) == TRUE
TurnCame_AfterSuccess(c) ==
  Before(c) # NoCall => call[Before(c)].reply \in {"accepted", "already-resolved", "rejected"}
\* The call before this one is settled, whatever its outcome.
TurnCame(c) == Before(c) # NoCall => call[Before(c)].state = "done"

ForgetChain(c) ==
  LET r == call[c].rpc
  IN  respondChains' = IF r \in DOMAIN respondChains /\ respondChains[r] = Awaited(c)
                       THEN Restrict(respondChains, DOMAIN respondChains \ {r})
                       ELSE respondChains

\* The call's turn: it is forwarded if its obligation is still open.
TakeTurn(c) ==
  /\ call[c].state = "chained" /\ TurnCame(c)
  /\ IF call[c].rpc \in pending
     THEN /\ call' = [call EXCEPT ![c].state = "asking"]
          /\ UNCHANGED respondChains
     ELSE call' = Done(c, "already-resolved") /\ ForgetChain(c)
  /\ UNCHANGED <<hubVars, dshVars>>

\* dsh handles the request (external): the first good answer is accepted.
DshHandles(c) ==
  /\ dshUp /\ call[c].state = "asking"
  /\ LET r == call[c].rpc
     IN  \/ /\ r \in asked
            /\ asked' = asked \ {r} /\ wire' = Append(wire, Resolved(r))
            /\ call' = [call EXCEPT ![c].state = "accepted"]
         \/ /\ r \in asked
            /\ call' = [call EXCEPT ![c].state = "rejected"]
            /\ UNCHANGED <<asked, wire>>
         \/ /\ r \notin asked
            /\ call' = [call EXCEPT ![c].state = "already-resolved"]
            /\ UNCHANGED <<asked, wire>>
  /\ UNCHANGED <<hubVars, dshUp, everAsked, stray, early, crashes, respondChains>>

Receipts == {"accepted", "rejected", "already-resolved"}

Consumes_Always(c) == TRUE
Consumes(c) == call[c].state = "accepted"

\* The receipt arrives; an accepted answer closes the obligation.
ReceiptArrives(c) ==
  /\ call[c].state \in Receipts
  /\ IF Consumes(c) /\ call[c].rpc \in pending
     THEN ConsumePending(call[c].rpc) ELSE UNCHANGED hubVars
  /\ call' = Done(c, call[c].state)
  /\ ForgetChain(c)
  /\ UNCHANGED dshVars

\* The request times out or its connection is lost: before dsh received it, while
\* dsh has it, or with the receipt under way.
RequestFails(c) ==
  /\ call[c].state \in {"asking", "broken"} \cup Receipts
  /\ call' = Done(c, "dsh-error")
  /\ ForgetChain(c)
  /\ stray' \in {stray, IF call[c].state = "asking" THEN stray \cup {call[c].rpc} ELSE stray}
  /\ UNCHANGED <<hubVars, dshUp, asked, everAsked, wire, early, crashes>>

\* dsh handles an answer nobody waits for (external).
DshHandlesStray == \E r \in stray :
  /\ stray' = stray \ {r}
  /\ IF r \in asked
     THEN asked' = asked \ {r} /\ wire' = Append(wire, Resolved(r))
     ELSE UNCHANGED <<asked, wire>>
  /\ UNCHANGED <<hubVars, dshUp, everAsked, early, crashes, call, respondChains>>

\* What a phone was ever shown.
Shown == {r \in Rpc : \E i \in Index : log[i] = Requested(r)}

RespondNext ==
  \/ DshAsks \/ DshResolves \/ Pump \/ DshCrashes \/ DshBoots \/ GenerationReady
  \/ DshHandlesStray
  \/ \E c \in Call, r \in Shown : Refuse(c, r) \/ Chain(c, r)
  \/ \E c \in Call : \/ TakeTurn(c) \/ DshHandles(c)
                     \/ ReceiptArrives(c) \/ RequestFails(c)

RespondSpec == RespondInit /\ [][RespondNext]_respondVars

\* A chained call takes its turn when it comes; a request is handled or fails.
RespondFairness == \A c \in Call :
  /\ WF_respondVars(TakeTurn(c))
  /\ WF_respondVars(DshHandles(c) \/ ReceiptArrives(c) \/ RequestFails(c))
RespondFairSpec == RespondSpec /\ RespondFairness

-----------------------------------------------------------------------------
InFlight(c) == call[c].state \in {"asking", "broken"} \cup Receipts

\* "Serialize per rpcId" (handleRespond): the bridge never awaits the receipts of two
\* answers to one obligation, and forwards none after it learned of an acceptance.
OneAnswerAtATime ==
  \A c, d \in Call :
    c # d /\ call[c].rpc = call[d].rpc /\ InFlight(c) =>
      ~ InFlight(d) /\ call[d].reply # "accepted"

\* A phone that is told an obligation was settled can believe it: dsh does not wait
\* for it any more. The exception is what dsh asked before its generation was ready,
\* which the readiness of that generation drops (see BridgeCore, AskedWhileConnectedIsPending).
AlreadyResolvedIsTrue ==
  \A c \in Call : call[c].reply = "already-resolved" => call[c].rpc \notin asked \ early

\* An accepted answer closes the obligation at once and for good: no other phone is
\* offered it while dsh's own notice is under way.
AcceptedIsClosed == \A c \in Call : call[c].reply = "accepted" => call[c].rpc \notin pending

\* Every call that was chained is replied to, whatever happens to those before it.
EveryCallIsAnswered ==
  \A c \in Call : call[c].state = "chained" ~> call[c].state = "done"

\* The replies of the bridge are true, of whichever of its two sources they come.
RepliesAreTrue == AlreadyResolvedIsTrue /\ AcceptedIsClosed
=============================================================================
