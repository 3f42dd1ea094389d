----------------------------- MODULE MCRespond -----------------------------
(* Phones answer one approval of one session; no stream is attached. *)
EXTENDS Respond
CONSTANTS a1, s1, c1, c2, c3
MCSessionOf == a1 :> s1
MCNoStreams == <<>>
MCWeight(f) == 1
=============================================================================
