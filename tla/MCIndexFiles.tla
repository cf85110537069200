---------------------------- MODULE MCIndexFiles ----------------------------
(* Instances of IndexFiles for TLC. *)
EXTENDS IndexFiles, TLC

MCKeys == 1 .. 4
MCSeeds == {1, 2}

(* Two hash functions for each seed; keys collide under one seed or both. *)
MCHashes(seed, k) == {seed * k, seed + k * k}

(* Names are only compared: which of them a block gets makes no difference. *)
NameSymmetry == Permutations(Names)

(* The integer part of the logarithm to base two. *)
MCLog2(n) == CHOOSE r \in 0 .. n : 2 ^ r <= n /\ n < 2 ^ (r + 1)

=============================================================================
