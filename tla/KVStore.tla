------------------------------ MODULE KVStore ------------------------------
(***************************************************************************)
(* What every KeyValueStorage promises (core/KeyValueStorage.hpp): a       *)
(* mapping from keys to values in which the value added last for a key is  *)
(* the one that is read ("More relevant key value overwrites less          *)
(* relevant").  The concrete storages are shown to implement this module.  *)
(***************************************************************************)

CONSTANTS
    Keys,       \* The keys a client may use.
    Values,     \* The values a client may store.
    NoValue     \* What getValue returns for an absent key: std::nullopt.

VARIABLE store  \* store[k] is the value getValue(k) returns.

Init == store = [k \in Keys |-> NoValue]

(* KeyValueStorage::add. *)
Add(k, v) == store' = [store EXCEPT ![k] = v]

Next == \E k \in Keys, v \in Values : Add(k, v)

Spec == Init /\ [][Next]_store

=============================================================================
