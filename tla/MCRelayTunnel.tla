--------------------------- MODULE MCRelayTunnel ---------------------------
(* Two redials and two sessions: what is late is of the connection before. *)
EXTENDS RelayTunnel
=============================================================================
