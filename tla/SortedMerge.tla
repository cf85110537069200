---------------------------- MODULE SortedMerge -----------------------------
(***************************************************************************)
(* The merging constructor of SortedSingleFileIndexedStorage: sorted files *)
(* are merged into one, the newest file winning where they share keys,     *)
(* with one item of each file and a write buffer in memory.                *)
(*                                                                         *)
(* Only the keys of the items are compared.  An item is therefore given by *)
(* its key and the number of the file it comes from; a larger number is a  *)
(* newer, more relevant file.                                              *)
(***************************************************************************)
EXTENDS Integers, Sequences, FiniteSets

CONSTANTS
    Keys,       \* The keys in the order of Key::operator<.
    Newer,      \* The arguments newer: sequences of files, oldest first.
    BatchSize   \* batchSize: when the write buffer is dropped to the file.

ASSUME KeysAreNumbers == Keys \subseteq Nat

ASSUME BatchAssumption == BatchSize \in Nat \ {0}

Increasing(keys) == \A m, n \in DOMAIN keys : m < n => keys[m] < keys[n]

ASSUME NewerAssumption ==
    \A files \in Newer :
        /\ files \in Seq(Seq(Keys))
        /\ \A f \in DOMAIN files : Increasing(files[f])

VARIABLES
    newer,          \* The keys of the files merged.
    pointers,       \* currentFrontPointers: items of each file already passed.
    i,              \* The file the scan is at; 0 when the scan is over.
    min,            \* The file with the smallest front item, 0 when ~hasMin.
    writeBuffer,
    merged,         \* The items written to the new file.
    done            \* The constructor has returned.

vars == <<newer, pointers, i, min, writeBuffer, merged, done>>

storagesCount == Len(newer)

(* frontLine[f] and its value: the first item of file f not passed yet. *)
HasFront(f) == pointers[f] < Len(newer[f])

Front(f) == newer[f][pointers[f] + 1]

(* updateOnce *)
Update(f) == pointers' = [pointers EXCEPT ![f] = @ + 1]

MinItem == [key |-> Front(min), from |-> min]

Init ==
    /\ newer \in Newer
    /\ pointers = [f \in DOMAIN newer |-> 0]
    /\ i = storagesCount
    /\ min = 0
    /\ writeBuffer = << >>
    /\ merged = << >>
    /\ done = FALSE

(* Mutant: the oldest file is not scanned. *)
ScanButOldest ==
    /\ i > 1
    /\ i' = i - 1
    /\ UNCHANGED <<newer, writeBuffer, merged, done>>

(* The scan goes from the newest file to the oldest. *)
Scan ==
    /\ i > 0
    /\ i' = i - 1
    /\ UNCHANGED <<newer, writeBuffer, merged, done>>

ScanExhausted ==
    /\ Scan
    /\ ~ HasFront(i)
    /\ UNCHANGED <<pointers, min>>

ScanFirst ==
    /\ Scan
    /\ HasFront(i)
    /\ min = 0
    /\ min' = i
    /\ UNCHANGED pointers

(* Mutant: of two equal items the older one is taken. *)
ScanSmallerOrEqual ==
    /\ Scan
    /\ HasFront(i)
    /\ min # 0
    /\ Front(i) <= Front(min)
    /\ min' = i
    /\ UNCHANGED pointers

ScanSmaller ==
    /\ Scan
    /\ HasFront(i)
    /\ min # 0
    /\ Front(i) < Front(min)
    /\ min' = i
    /\ UNCHANGED pointers

(* Mutant: the older item of a key stays. *)
ScanDuplicateKept ==
    /\ Scan
    /\ HasFront(i)
    /\ min # 0
    /\ Front(i) = Front(min)
    /\ UNCHANGED <<pointers, min>>

(* The older item of a key is passed over. *)
ScanDuplicate ==
    /\ Scan
    /\ HasFront(i)
    /\ min # 0
    /\ Front(i) = Front(min)
    /\ Update(i)
    /\ UNCHANGED min

ScanLarger ==
    /\ Scan
    /\ HasFront(i)
    /\ min # 0
    /\ Front(i) > Front(min)
    /\ UNCHANGED <<pointers, min>>

(* The smallest item goes to the buffer, and the next scan begins. *)
Emit ==
    /\ i = 0
    /\ min # 0
    /\ Update(min)
    /\ i' = storagesCount
    /\ min' = 0
    /\ UNCHANGED <<newer, done>>

(* Mutant: the buffer holds one item too many. *)
EmitToBufferLate ==
    /\ Emit
    /\ Len(writeBuffer) < BatchSize
    /\ writeBuffer' = Append(writeBuffer, MinItem)
    /\ UNCHANGED merged

EmitToBuffer ==
    /\ Emit
    /\ Len(writeBuffer) + 1 < BatchSize
    /\ writeBuffer' = Append(writeBuffer, MinItem)
    /\ UNCHANGED merged

(* dropWriteBuffer: the full buffer is appended to the file. *)
EmitAndDrop ==
    /\ Emit
    /\ Len(writeBuffer) + 1 >= BatchSize
    /\ merged' = merged \o Append(writeBuffer, MinItem)
    /\ writeBuffer' = << >>

(* Mutant: the rest of the buffer is forgotten. *)
FinishWithoutDrop ==
    /\ i = 0
    /\ min = 0
    /\ ~ done
    /\ writeBuffer' = << >>
    /\ done' = TRUE
    /\ UNCHANGED <<newer, pointers, i, min, merged>>

(* All files are exhausted: what is left in the buffer is appended. *)
Finish ==
    /\ i = 0
    /\ min = 0
    /\ ~ done
    /\ merged' = merged \o writeBuffer
    /\ writeBuffer' = << >>
    /\ done' = TRUE
    /\ UNCHANGED <<newer, pointers, i, min>>

Next ==
    \/ ScanExhausted
    \/ ScanFirst
    \/ ScanSmaller
    \/ ScanDuplicate
    \/ ScanLarger
    \/ EmitToBuffer
    \/ EmitAndDrop
    \/ Finish

(* The loop is plain sequential code: as long as it can go on it does. *)
Spec == Init /\ [][Next]_vars /\ WF_vars(Next)

-----------------------------------------------------------------------------
(* Properties. *)

(* No file is read past its end, and the buffer stays below a batch between *)
(* two steps.                                                               *)
TypeOK ==
    /\ newer \in Seq(Seq(Keys))
    /\ pointers \in [DOMAIN newer -> Nat]
    /\ \A f \in DOMAIN newer : pointers[f] <= Len(newer[f])
    /\ i \in 0 .. storagesCount
    /\ min \in 0 .. storagesCount
    /\ min # 0 => HasFront(min)
    /\ \A items \in {writeBuffer, merged} :
           items \in Seq([key : Keys, from : DOMAIN newer])
    /\ Len(writeBuffer) < BatchSize
    /\ done \in BOOLEAN

Written == merged \o writeBuffer

(* The new file is strictly sorted at every moment, whatever part of it has *)
(* left the buffer: find would miss keys in a file that is not.             *)
MergedIsSorted ==
    \A m, n \in DOMAIN Written : m < n => Written[m].key < Written[n].key

Holding(k) == {f \in DOMAIN newer : \E n \in DOMAIN newer[f] : newer[f][n] = k}

(* Every item written comes from the newest of the files that hold its key. *)
NewestWins ==
    \A n \in DOMAIN Written :
        /\ Written[n].from \in Holding(Written[n].key)
        /\ \A f \in Holding(Written[n].key) : f <= Written[n].from

(* No item is lost: when the constructor returns, every key of every file   *)
(* is in the new file.                                                      *)
NothingIsLost ==
    done => \A k \in Keys :
                Holding(k) # {} => \E n \in DOMAIN merged : merged[n].key = k

(* The constructor returns: every scan finds a smallest item and passes it, *)
(* or ends the loop.                                                        *)
MergeEnds == <>done

=============================================================================
