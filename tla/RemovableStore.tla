--------------------------- MODULE RemovableStore ---------------------------
(***************************************************************************)
(* What a KeyValueStorage with remove promises: a removed key has no value *)
(* until it is added again.                                                *)
(***************************************************************************)
EXTENDS KVStore

(* KeyValueStorage::remove. *)
Remove(k) == store' = [store EXCEPT ![k] = NoValue]

RemovableNext == Next \/ \E k \in Keys : Remove(k)

RemovableSpec == Init /\ [][RemovableNext]_store

=============================================================================
