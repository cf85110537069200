------------------------ MODULE MCShrinkableStorage ------------------------
(* Instances of ShrinkableStorage for TLC. *)
EXTENDS ShrinkableStorage

ThreeKeys == 1 .. 3

(* The rank of a block is not used. *)
MCLog2(n) == 0

=============================================================================
