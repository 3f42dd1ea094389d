----------------------------- MODULE MCPairing -----------------------------
(* Two phones, and two windows. *)
EXTENDS Pairing, TLC
CONSTANTS w1, w2, p1, p2
Everyone == Permutations(Phone) \cup Permutations(Window)
=============================================================================
