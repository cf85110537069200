------------------------- MODULE ShrinkableStorage -------------------------
(***************************************************************************)
(* KeyValueShrinkableStorage::shrink batch by batch.  The keys of the      *)
(* sorted part are exported to one index file, the keys of the other part  *)
(* to one file per batch, these files are merged, the records the merged   *)
(* index names are copied in batches to a new file, the storage takes that *)
(* file for its own, and the keys are exported once more.                  *)
(*                                                                         *)
(* Every step opens files and may throw; nothing catches it.  The files    *)
(* written so far are temporary and are removed as the exception passes.   *)
(* Only resetWith cannot throw.                                            *)
(***************************************************************************)
EXTENDS DataFile

CONSTANTS
    MaxItems,       \* Bound of the model: records in the data file.
    MaxFailures     \* Bound of the model: steps that throw.

ASSUME BoundsAssumption == MaxItems \in Nat /\ MaxFailures \in Nat

VARIABLES
    sorted,     \* sortedStorage_.
    notSorted,  \* notSortedStorage_.
    index,      \* The index returned by the last shrink that returned one.
    pc,         \* Where shrink is; "idle" between two calls.
    batches,    \* sortedBatches, the newest first.
    merged,     \* updatedIndex.
    copied,     \* sortedStorage_ of the new storage.
    failures    \* Steps that have thrown so far.

vars == <<sorted, notSorted, index, pc, batches, merged, copied, failures>>

data == <<sorted, notSorted, index>>
temporaries == <<batches, merged, copied>>

(* Number of records of the unsorted part that have been read. *)
Consumed == Min({Len(notSorted), (Len(batches) - 1) * BatchSize})

(* A batch starts behind what is read and ends with the file, or full. *)
BatchEnd(done, count) == Min({count, done + BatchSize})

NoTemporaries ==
    /\ batches' = << >>
    /\ merged' = EmptyBlock
    /\ copied' = << >>

Init ==
    /\ sorted = << >>
    /\ notSorted = << >>
    /\ index = EmptyBlock
    /\ pc = "idle"
    /\ batches = << >>
    /\ merged = EmptyBlock
    /\ copied = << >>
    /\ failures = 0

AppendItem(r) ==
    /\ pc = "idle"
    /\ notSorted' = Append(notSorted, r)
    /\ UNCHANGED <<sorted, index, pc, temporaries, failures>>

BeginShrink ==
    /\ pc = "idle"
    /\ pc' = "export"
    /\ UNCHANGED <<data, temporaries, failures>>

ExportSorted ==
    /\ pc = "export"
    /\ batches' = <<ExportKeys(sorted)>>
    /\ pc' = "read"
    /\ UNCHANGED <<data, merged, copied, failures>>

(* Mutant: every batch is numbered from the start of the unsorted part. *)
BatchIndexRestarted(first, last) ==
    LET batch == SubSeq(notSorted, first, last)
    IN  [k \in Keys |->
            IF k \in StoredKeys(batch)
            THEN Len(sorted) + LastPosition(batch, k) - 1
            ELSE NoIndex]

(* The index of the records first .. last of the unsorted part: a key has   *)
(* the position of its last record among them, counted from the sorted part.*)
BatchIndex(first, last) ==
    LET batch == SubSeq(notSorted, first, last)
    IN  [k \in Keys |->
            IF k \in StoredKeys(batch)
            THEN Len(sorted) + first + LastPosition(batch, k) - 2
            ELSE NoIndex]

ReadBatch ==
    /\ pc = "read"
    /\ Consumed < Len(notSorted)
    /\ batches' = <<BatchIndex(Consumed + 1, BatchEnd(Consumed, Len(notSorted)))>> \o batches
    /\ UNCHANGED <<data, pc, merged, copied, failures>>

MergeBatches ==
    /\ pc = "read"
    /\ Consumed = Len(notSorted)
    /\ merged' = Merge(batches)
    /\ pc' = "copy"
    /\ UNCHANGED <<data, batches, copied, failures>>

(* The record the new storage has at a place: the key is that of the        *)
(* merged index, the value is read from the old storage.                    *)
CopyOf(place) ==
    LET k == KeyAt(KeysOf(merged), place - 1)
    IN  [key |-> k, value |-> (sorted \o notSorted)[merged[k] + 1].value]

(* Mutant: a batch is copied only when it is full. *)
CopyFullBatch ==
    /\ pc = "copy"
    /\ Len(copied) + BatchSize <= Cardinality(KeysOf(merged))
    /\ copied' = copied \o [i \in 1 .. BatchSize |-> CopyOf(Len(copied) + i)]
    /\ UNCHANGED <<data, pc, batches, merged, failures>>

CopyBatch ==
    /\ pc = "copy"
    /\ Len(copied) < Cardinality(KeysOf(merged))
    /\ LET last == BatchEnd(Len(copied), Cardinality(KeysOf(merged)))
       IN  copied' = copied \o [i \in 1 .. last - Len(copied) |-> CopyOf(Len(copied) + i)]
    /\ UNCHANGED <<data, pc, batches, merged, failures>>

(* Mutant: the copy ends with the first batch. *)
ResetWithFirst ==
    /\ pc = "copy"
    /\ copied # << >> \/ KeysOf(merged) = {}
    /\ sorted' = copied
    /\ notSorted' = << >>
    /\ pc' = "actual"
    /\ UNCHANGED <<index, temporaries, failures>>

ResetWith ==
    /\ pc = "copy"
    /\ Len(copied) = Cardinality(KeysOf(merged))
    /\ sorted' = copied
    /\ notSorted' = << >>
    /\ pc' = "actual"
    /\ UNCHANGED <<index, temporaries, failures>>

(* Mutant: the index of the positions before the shrink is returned. *)
ReturnMerged ==
    /\ pc = "actual"
    /\ index' = merged
    /\ pc' = "idle"
    /\ NoTemporaries
    /\ UNCHANGED <<sorted, notSorted, failures>>

(* The merged index is reset with the keys of the new file, and returned. *)
ReturnActual ==
    /\ pc = "actual"
    /\ index' = ExportKeys(sorted)
    /\ pc' = "idle"
    /\ NoTemporaries
    /\ UNCHANGED <<sorted, notSorted, failures>>

Throw ==
    /\ pc # "idle"
    /\ failures < MaxFailures
    /\ failures' = failures + 1
    /\ pc' = "idle"
    /\ NoTemporaries
    /\ UNCHANGED data

ShrinkStep ==
    \/ ExportSorted
    \/ ReadBatch
    \/ MergeBatches
    \/ CopyBatch
    \/ ResetWith
    \/ ReturnActual

Next ==
    \/ \E r \in Records : Len(sorted) + Len(notSorted) < MaxItems /\ AppendItem(r)
    \/ BeginShrink
    \/ ShrinkStep
    \/ Throw

(* shrink is sequential code: once called it goes on.  Calls and failures   *)
(* are never owed.                                                          *)
Spec == Init /\ [][Next]_vars /\ WF_vars(ShrinkStep)

-----------------------------------------------------------------------------
(* Properties. *)

(* While the batches are read, the files written so far amount to the exact *)
(* index of the records read so far, wherever the batches are cut: that is  *)
(* why merging them by age needs no look at the data.                       *)
BatchesIndexPrefix ==
    pc = "read" =>
        Merge(batches) = ExportKeys(sorted \o SubSeq(notSorted, 1, Consumed))

(* A shrink batch by batch, thrown out of at any point, is the two-step     *)
(* shrink of the promise: it replaces the records by the last ones of each  *)
(* key in one instant and returns an exact index of them, or does nothing,  *)
(* or fails to return the index after the replacement.                      *)
Promise == INSTANCE DataStorage

ImplementsDataStorage == Promise!Spec

(* No step of a shrink, and no failure of one, changes the value a key has  *)
(* in the data, or makes a key appear or vanish.                            *)
ShrinkKeepsValues ==
    [][pc # "idle" =>
          \A k \in Keys : ValueIn(sorted' \o notSorted', k) = ValueIn(sorted \o notSorted, k)]_vars

(* Every call of shrink ends, by returning or by throwing: each batch makes *)
(* the rest of the file shorter, also the last one that is not full.        *)
ShrinkEnds == pc # "idle" ~> pc = "idle"

=============================================================================
