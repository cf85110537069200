-------------------------- MODULE MCSupermapFaults --------------------------
(* Instances of SupermapFaults for TLC. *)
EXTENDS SupermapFaults, TLC

ThreeKeys == 1 .. 3

(* Values are only compared with each other. *)
ValueSymmetry == Permutations(Values)

(* The integer part of the logarithm to base two. *)
MCLog2(n) == CHOOSE r \in 0 .. n : 2 ^ r <= n /\ n < 2 ^ (r + 1)

=============================================================================
