---------------------------- MODULE MCStreamHub ----------------------------
(* One session with an approval and a question, one phone. *)
EXTENDS StreamHub
CONSTANTS a1, q1, s1, w1, phone
MCSessionOf == (a1 :> s1) @@ (q1 :> s1)
MCDeviceOf == w1 :> phone
MCWeight(f) == 1
MCOffered == {Requested(a1), Resolved(a1), Requested(q1), Removed(s1)}
             \cup {Projection(s1, n) : n \in 1 .. MaxSeq}
=============================================================================
