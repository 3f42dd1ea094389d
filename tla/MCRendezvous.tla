--------------------------- MODULE MCRendezvous ---------------------------
(* Two phones, and two dials, of one phone or of both, at one window. *)
EXTENDS Rendezvous, TLC
CONSTANTS w1, p1, p2
Phones == Permutations(Phone)
=============================================================================
