------------------------------ MODULE MCAccess ------------------------------
(* One device that pairs twice, one call, one relay: the races are between the steps of *)
(* its pairings, its revocation, the terminal and a restart.                            *)
EXTENDS Access, TLC
CONSTANTS d1, n1, t1, t2, s1, c1, r1
Alike == Permutations(Token)
=============================================================================
