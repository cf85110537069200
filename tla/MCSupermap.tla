----------------------------- MODULE MCSupermap -----------------------------
(* Instances of Supermap for TLC. *)
EXTENDS Supermap, TLC

ThreeKeys == 1 .. 3
FourKeys == 1 .. 4

(* The integer part of the logarithm to base two. *)
MCLog2(n) == CHOOSE r \in 0 .. n : 2 ^ r <= n /\ n < 2 ^ (r + 1)

=============================================================================
