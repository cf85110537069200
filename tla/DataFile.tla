------------------------------ MODULE DataFile ------------------------------
(***************************************************************************)
(* What KeyValueShrinkableStorage computes from its files: the records a   *)
(* shrink keeps and the index it returns.  The files are given as one      *)
(* sequence, the sorted part first, because indexes count through both.    *)
(***************************************************************************)
EXTENDS BlockList

CONSTANTS
    Values,     \* The values, equal or different, nothing more.
    NoValue     \* std::nullopt.

ASSUME NoValueAssumption == NoValue \notin Values

Records == [key : Keys, value : Values]

StoredKeys(data) == {data[i].key : i \in DOMAIN data}

(* Mutant: the first record of a key is kept (no reverse before the sort). *)
FirstPosition(data, k) ==
    CHOOSE i \in DOMAIN data :
        /\ data[i].key = k
        /\ \A j \in DOMAIN data : data[j].key = k => i <= j

(* The position of the most relevant record of key k: the last one. *)
LastPosition(data, k) ==
    CHOOSE i \in DOMAIN data :
        /\ data[i].key = k
        /\ \A j \in DOMAIN data : data[j].key = k => j <= i

(* What a reader sees of a key in a data file that is scanned from its end. *)
ValueIn(data, k) ==
    IF k \in StoredKeys(data) THEN data[LastPosition(data, k)].value ELSE NoValue

(* The key that n keys of S precede. *)
KeyAt(S, n) == CHOOSE k \in S : Cardinality({j \in S : j < k}) = n

(* shrink: the last record of every key, in key order. *)
Shrunk(data) ==
    [i \in 1 .. Cardinality(StoredKeys(data)) |->
        data[LastPosition(data, KeyAt(StoredKeys(data), i - 1))]]

(* exportKeys: the keys of the sorted part with their indexes. *)
ExportKeys(data) ==
    [k \in Keys |->
        IF k \in StoredKeys(data) THEN LastPosition(data, k) - 1 ELSE NoIndex]

=============================================================================
