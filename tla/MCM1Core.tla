------------------------------ MODULE MCM1Core ------------------------------
(* Two authentications and one request at a time. *)
EXTENDS M1Core, TLC
CONSTANTS a1, a2, r1
Alike == Permutations(Auth)
=============================================================================
