---------------------------- MODULE MCFrameRing ----------------------------
(* A small log: two frame sizes, so that both budgets evict. *)
EXTENDS FrameRing
CONSTANTS small, huge
MCFrame == {small, huge}
MCWeight(f) == IF f = small THEN 1 ELSE 4
=============================================================================
