----------------------------- MODULE StoreStack -----------------------------
(***************************************************************************)
(* The wrappers of a store, put together as KeyValueStorageBuilder and     *)
(* ShardedSupermapBuilder do:                                              *)
(*                                                                         *)
(*     DefaultFilteredKvs      a filter of the keys, asked before a read   *)
(*       DefaultRemovableKvs   values with a flag that says "removed"      *)
(*         KeyHashingShardedKVS    one of several stores for each key      *)
(*           shards                one Supermap each                       *)
(*                                                                         *)
(* A shard appends the record of an add first and reorganises its files    *)
(* next.  When it throws, the record may be there or not, and the index    *)
(* may have lost entries of this and of other keys: until a shrink returns *)
(* and builds the index anew, a read of any key that has a record in the   *)
(* shard may return an old value, no value, or that of another key.  The   *)
(* module Shard states this for one store, and SupermapFaults implements   *)
(* it.  No wrapper catches anything: what the outer layers did before      *)
(* stays done.                                                             *)
(***************************************************************************)
EXTENDS Integers, FiniteSets, FiniteSetsExt, BloomFilter

CONSTANTS
    Keys,           \* The keys.
    Values,         \* The values of the client.
    NoValue,        \* std::nullopt.
    DefaultValue,   \* Value{}, the value of a removed entry.
    Shards,         \* How many stores there are.
    HashOf(_),      \* hashWith(hasher, key, HASH_SEED)
    FilterCapacity, \* What the client reserved the filter for.
    MaxRecords      \* Bound of the model: records in a shard.

(* MaybeRemovedValue: a value and whether it has been removed. *)
MaybeRemovedValues == [value : Values, removed : BOOLEAN]

ASSUME ValuesAssumption ==
    /\ DefaultValue \in Values
    /\ NoValue \notin Values
    /\ NoValue \notin MaybeRemovedValues

ASSUME ShardsAssumption ==
    /\ Shards \in Nat \ {0}
    /\ \A k \in Keys : HashOf(k) \in Nat

VARIABLES
    shards,     \* The value that the last record of each key has in each shard.
    records,    \* What getUpperSizeBound of each shard returns.
    lost,       \* The shards whose index does not lead to all last records.
    filter      \* filter_ of the outermost wrapper.

vars == <<shards, records, lost, filter>>

ShardIds == 0 .. Shards - 1

(* What DefaultRemovableKvs stores for an added and for a removed key. *)
Present(v) == [value |-> v, removed |-> FALSE]

Tombstone == [value |-> DefaultValue, removed |-> TRUE]

-----------------------------------------------------------------------------
(* Reading, from the innermost store to the outermost, as long as the index *)
(* of the shard is intact.                                                  *)

ShardId(k) == HashOf(k) % Shards

ShardedGetValue(k) == shards[ShardId(k)][k]

(* A removed entry is there, but has no value for the client. *)
RemovableGetValue(k) ==
    LET found == ShardedGetValue(k)
    IN  IF found = NoValue \/ found.removed THEN NoValue ELSE found.value

GetValue(k) == IF MightContain(filter, k) THEN RemovableGetValue(k) ELSE NoValue

Intact(k) == ShardId(k) \notin lost

StoredKeys(shard) == {k \in Keys : shard[k] # NoValue}

(* A shard that has lost entries may return whatever one of its records     *)
(* has, for the keys of its records.                                        *)
MayHaveValue(k) ==
    IF Intact(k)
    THEN GetValue(k) # NoValue
    ELSE ShardedGetValue(k) # NoValue /\ MightContain(filter, k)

(* Mutant: the bound of the last shard overwrites those before it. *)
UpperSizeBoundOfLast == records[Shards - 1]

(* getUpperSizeBound: the sum over the shards. *)
UpperSizeBound == MapThenSumSet(LAMBDA i : records[i], ShardIds)

-----------------------------------------------------------------------------

Init ==
    /\ shards = [i \in ShardIds |-> [k \in Keys |-> NoValue]]
    /\ records = [i \in ShardIds |-> 0]
    /\ lost = {}
    /\ \E seed \in Seeds : filter = Reserve(NewFilter(seed), FilterCapacity)

(* The record of k is appended, and the shard has n records then. *)
ShardHolds(k, v, n) ==
    /\ n <= MaxRecords
    /\ shards' = [shards EXCEPT ![ShardId(k)][k] = v]
    /\ records' = [records EXCEPT ![ShardId(k)] = n]

ShardAppends(k, v) == ShardHolds(k, v, records[ShardId(k)] + 1)

(* One record for each key is left. *)
ShardShrinks(k, v) ==
    ShardHolds(k, v, Cardinality(StoredKeys(shards[ShardId(k)]) \cup {k}))

(* add of the shard of k returns.  A shrink builds the index anew. *)
ShardAdd(k, v) ==
    \/ ShardAppends(k, v) /\ UNCHANGED lost
    \/ ShardShrinks(k, v) /\ lost' = lost \ {ShardId(k)}

(* It throws: before the record is appended; in a merge or in a shrink that *)
(* has not changed the data yet, which costs nothing; in the drop of the    *)
(* RAM index, whose entries are gone; or when the data is shrunk and the    *)
(* index still has the old positions.                                       *)
ShardThrows(k, v) ==
    \/ UNCHANGED <<shards, records, lost>>
    \/ ShardAppends(k, v) /\ lost' \in {lost, lost \cup {ShardId(k)}}
    \/ ShardShrinks(k, v) /\ lost' = lost \cup {ShardId(k)}

(* DefaultFilteredKvs::add: the filter learns the key, then the inner store *)
(* is called.                                                               *)
Add(k, v) ==
    /\ filter' = AddAll(filter, {k})
    /\ ShardAdd(k, Present(v))

(* Mutant: the filter learns the key after the inner add, if that returns. *)
AddThrowsUnlearned(k, v) ==
    /\ UNCHANGED filter
    /\ ShardThrows(k, Present(v))

AddThrows(k, v) ==
    /\ filter' = AddAll(filter, {k})
    /\ ShardThrows(k, Present(v))

(* DefaultRemovableKvs::remove adds a removed value; the filter, which can  *)
(* not forget, is left alone by the wrapper around it.                      *)
Remove(k) ==
    /\ ShardAdd(k, Tombstone)
    /\ UNCHANGED filter

RemoveThrows(k) ==
    /\ ShardThrows(k, Tombstone)
    /\ UNCHANGED filter

Next ==
    \E k \in Keys :
        \/ \E v \in Values : Add(k, v) \/ AddThrows(k, v)
        \/ Remove(k)
        \/ RemoveThrows(k)

Spec == Init /\ [][Next]_vars

-----------------------------------------------------------------------------
(* Properties. *)

(* Each wrapper may hide, delay or redirect a call; all of them together    *)
(* are still a store with remove.  To the records of the shards, and so to  *)
(* what is read whenever the index of the shard is intact or intact again,  *)
(* a call that throws either happened or did not: nothing it left behind    *)
(* shows up in a later call for another key, as a value that a filter had   *)
(* hidden would once it shares its bits.                                    *)
Promise == INSTANCE RemovableStore WITH store <- [k \in Keys |-> GetValue(k)]

ImplementsRemovableStore == Promise!RemovableSpec

(* getUpperSizeBound is an upper bound: no more keys can be read than it    *)
(* says, in whatever shards they are, whenever those were reorganised, and  *)
(* also when they have lost entries and return values of other keys.        *)
SizeBoundHolds == Cardinality({k \in Keys : MayHaveValue(k)}) <= UpperSizeBound

=============================================================================
