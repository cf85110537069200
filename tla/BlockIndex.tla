----------------------------- MODULE BlockIndex -----------------------------
(***************************************************************************)
(* What a SortedStoragesList promises: a searchable collection in which    *)
(* the storage appended last has the largest order, so its items hide the  *)
(* items of the same key appended before (core/SortedStoragesList.hpp).    *)
(***************************************************************************)

CONSTANTS
    Keys,       \* The keys.
    NoIndex,    \* What find returns for an absent key.
    Blocks      \* The storages that may be appended: functions on Keys.

VARIABLE index  \* index[k] is what find returns for k.

Init == index = [k \in Keys |-> NoIndex]

Append(block) ==
    index' = [k \in Keys |-> IF block[k] # NoIndex THEN block[k] ELSE index[k]]

Next == \E block \in Blocks : Append(block)

Spec == Init /\ [][Next]_index

=============================================================================
