--------------------------- MODULE MCStreamResume ---------------------------
(* A phone with a few sockets to spend; dsh sends events of one session. *)
EXTENDS StreamResume
CONSTANTS s1, w1, w2, phone
MCSessionOf == <<>>
MCDeviceOf == [w \in Stream |-> phone]
MCWeight(f) == 1
MCOffered == {Event(s1)}
=============================================================================
