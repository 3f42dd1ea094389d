---------------------------- MODULE MessageStream ----------------------------
(***************************************************************************)
(* What a WebSocket promises its user in one direction: whole messages,    *)
(* each at most once and in the order in which they were sent.  A stream   *)
(* may stop delivering at any message and never skips one.                 *)
(***************************************************************************)
EXTENDS Naturals, Sequences, SequencesExt

CONSTANT Message

VARIABLES sent, delivered

StreamInit == sent = <<>> /\ delivered = <<>>

Send(m) == sent' = Append(sent, m) /\ UNCHANGED delivered

\* One read of the network may complete several messages.
Deliver == /\ delivered' # delivered
           /\ IsPrefix(delivered, delivered') /\ IsPrefix(delivered', sent)
           /\ UNCHANGED sent

StreamNext == (\E m \in Message : Send(m)) \/ Deliver

StreamSpec == StreamInit /\ [][StreamNext]_<<sent, delivered>>
=============================================================================
