-------------------------- MODULE MCCollapsingList --------------------------
(* Instances of CollapsingList for TLC. *)
EXTENDS CollapsingList

FourKeys == 1 .. 4

(* The integer part of the logarithm to base two. *)
MCLog2(n) == CHOOSE r \in 0 .. n : 2 ^ r <= n /\ n < 2 ^ (r + 1)

=============================================================================
