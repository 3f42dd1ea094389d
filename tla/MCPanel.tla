------------------------------ MODULE MCPanel ------------------------------
(* One page with two requests under way; two windows, opened by the panel or by a
   terminal, so that one replaces the other; one phone that claims. *)
EXTENDS Panel
CONSTANTS w1, w2, p1, t1
=============================================================================
