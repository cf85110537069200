------------------------------ MODULE Supermap ------------------------------
(***************************************************************************)
(* Supermap (core/Supermap.hpp): every record is appended to a data file,  *)
(* the index of the recent records is kept in RAM and dropped to an on-    *)
(* disk list of sorted blocks when it is full, and the data file is shrunk *)
(* when too large a part of it is not sorted.                              *)
(*                                                                         *)
(* add is one handler and runs to its end before the next call (there is   *)
(* one thread), so each of its paths is one action.  Failing file          *)
(* operations are not part of this module.                                 *)
(***************************************************************************)
EXTENDS DataFile

CONSTANTS
    PartNum,    \* maxNotSortedPart_ is PartNum / PartDen.
    PartDen,
    MaxItems    \* Bound of the model: records in the data file.

ASSUME PartAssumption == PartNum \in Nat /\ PartDen \in Nat \ {0}

ASSUME MaxItemsAssumption == MaxItems \in Nat

VARIABLES
    sorted,     \* diskDataStorage_->sortedStorage_: records in key order.
    notSorted,  \* diskDataStorage_->notSortedStorage_: in order of arrival.
    ram,        \* innerStorage_: index of keys added since the last drop.
    disk        \* diskIndex_: the list of index blocks, newest first.

vars == <<sorted, notSorted, ram, disk>>

-----------------------------------------------------------------------------
(* The data file: KeyValueShrinkableStorage. *)

ItemsCount == Len(sorted) + Len(notSorted)

(* get: indexes count through the sorted part first. *)
Get(i) ==
    IF i >= Len(sorted) THEN notSorted[i - Len(sorted) + 1] ELSE sorted[i + 1]

-----------------------------------------------------------------------------
(* The index, and reading. *)

IndexOf(k) == IF ram[k] # NoIndex THEN ram[k] ELSE Find(disk, k)

(* getValue trusts the index: it does not compare the key of the record.   *)
GetValue(k) == IF IndexOf(k) = NoIndex THEN NoValue ELSE Get(IndexOf(k)).value

-----------------------------------------------------------------------------
(* add(k, v).  The record is appended, then its index put into RAM. *)

Appended(k, v) == Append(notSorted, [key |-> k, value |-> v])

Indexed(k) == [ram EXCEPT ![k] = ItemsCount]

(* Mutant: the count of unsorted records is read before the append. *)
TooMuchWasNotSorted == Len(notSorted) * PartDen >= PartNum * (ItemsCount + 1)

(* Both thresholds are tested after the append. *)
RamFull(k) == Cardinality(KeysOf(Indexed(k))) >= BatchSize

TooMuchNotSorted == (Len(notSorted) + 1) * PartDen >= PartNum * (ItemsCount + 1)

Init ==
    /\ sorted = << >>
    /\ notSorted = << >>
    /\ ram = EmptyBlock
    /\ disk = << >>

AddToRam(k, v) ==
    /\ ~ RamFull(k)
    /\ ~ TooMuchNotSorted
    /\ notSorted' = Appended(k, v)
    /\ ram' = Indexed(k)
    /\ UNCHANGED <<sorted, disk>>

(* Mutant: the RAM index is copied, not extracted. *)
AddAndCopy(k, v) ==
    /\ RamFull(k)
    /\ ~ TooMuchNotSorted
    /\ notSorted' = Appended(k, v)
    /\ ram' = Indexed(k)
    /\ disk' = AppendBlock(disk, Indexed(k))
    /\ UNCHANGED sorted

(* dropRamIndexToDisk: the whole RAM index becomes a block of the list. *)
AddAndDrop(k, v) ==
    /\ RamFull(k)
    /\ ~ TooMuchNotSorted
    /\ notSorted' = Appended(k, v)
    /\ ram' = EmptyBlock
    /\ disk' = AppendBlock(disk, Indexed(k))
    /\ UNCHANGED sorted

(* Mutant: the RAM index is not dropped before the shrink. *)
AddAndShrinkOnly(k, v) ==
    /\ TooMuchNotSorted
    /\ sorted' = Shrunk(sorted \o Appended(k, v))
    /\ notSorted' = << >>
    /\ ram' = Indexed(k)
    /\ disk' = AppendBlock(<< >>, ExportKeys(sorted'))

(* The RAM index is dropped even when it is not full, and the list it was  *)
(* dropped to is then replaced: the shrink moves every record.             *)
AddAndShrink(k, v) ==
    /\ TooMuchNotSorted
    /\ sorted' = Shrunk(sorted \o Appended(k, v))
    /\ notSorted' = << >>
    /\ ram' = EmptyBlock
    /\ disk' = AppendBlock(<< >>, ExportKeys(sorted'))

Add(k, v) == AddToRam(k, v) \/ AddAndDrop(k, v) \/ AddAndShrink(k, v)

Next == \E k \in Keys, v \in Values : ItemsCount < MaxItems /\ Add(k, v)

Spec == Init /\ [][Next]_vars

-----------------------------------------------------------------------------
(* Properties. *)

(* The state is well formed: records and indexes are of the declared types, *)
(* no index block is empty, and RAM holds fewer keys than a batch between   *)
(* two calls of add.                                                        *)
TypeOK ==
    /\ sorted \in Seq(Records)
    /\ notSorted \in Seq(Records)
    /\ ram \in Blocks
    /\ Cardinality(KeysOf(ram)) < BatchSize
    /\ disk \in Seq(Blocks)
    /\ \A n \in DOMAIN disk : KeysOf(disk[n]) # {}

Positions(k) == {i \in 0 .. ItemsCount - 1 : Get(i).key = k}

(* The index, RAM before disk and new blocks before old ones, always leads  *)
(* to the last record of a key, and to none for a key that has no record.   *)
(* getValue needs this of add, of the collapses and of the renumbering done *)
(* by shrink, because it does not check the record it reads.                *)
LookupIsLatest ==
    \A k \in Keys :
        IF Positions(k) = {}
        THEN IndexOf(k) = NoIndex
        ELSE /\ IndexOf(k) \in Positions(k)
             /\ \A i \in Positions(k) : i <= IndexOf(k)

(* Superseded entries included, every entry of RAM and of every block leads *)
(* to a record of its own key, and of two layers that hold a key the newer  *)
(* one leads to the later record.  This is what lets a collapse and a find  *)
(* decide by the age of a block alone, with no look at the data.            *)
LayersAgeInOrder ==
    LET layers == <<ram>> \o disk
    IN  \A k \in Keys : \A n \in Holders(layers, k) :
            /\ layers[n][k] \in Positions(k)
            /\ \A m \in Holders(layers, k) :
                   n < m => layers[m][k] < layers[n][k]

(* After every append and its collapses the ranks of the blocks strictly    *)
(* increase towards the tail, which is what the assertion in append's loop  *)
(* relies on at the next append.                                            *)
RanksIncrease ==
    \A m, n \in DOMAIN disk : m < n => Rank(disk[m]) < Rank(disk[n])

(* A lookup reads at most logarithmically many blocks: collapsing keeps the *)
(* list short whatever the order of the keys added.                         *)
FewBlocks ==
    Len(disk) <= 1 + Log2((Cardinality(Keys) + BatchSize - 1) \div BatchSize)

(* The data file never holds more records than the distinct keys divided by *)
(* the part that must be sorted: add shrinks in time, and shrink leaves one *)
(* record per key.  (With a part of one or more nothing bounds the file.)   *)
SpaceBound == ItemsCount * (PartDen - PartNum) <= PartDen * Cardinality(Keys)

Promise == INSTANCE KVStore WITH store <- [k \in Keys |-> GetValue(k)]

(* Supermap is a key-value store: what getValue returns for every key       *)
(* changes as the abstract add says, whatever drops, collapses and shrinks  *)
(* happen inside.                                                           *)
ImplementsKVStore == Promise!Spec

=============================================================================
