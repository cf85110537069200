----------------------------- MODULE MergedFile -----------------------------
(***************************************************************************)
(* The file that SortedMerge writes, as its bytes are: what appendAll      *)
(* leaves in it, batch after batch, and what get and an InputIterator read *)
(* from it afterwards, as KeyValueShrinkableStorage and find do.           *)
(*                                                                         *)
(* The unit is a serialized key or value.  A write may be lost in part:    *)
(* neither writeAll nor flush looks at the state of the stream, so that    *)
(* the register counts the items all the same, and what it counts may be   *)
(* more than the file holds.                                               *)
(***************************************************************************)
EXTENDS SortedMerge, FiniteSetsExt

Seqs == INSTANCE SequencesExt

CONSTANTS
    Limits  \* The arguments of collect; 0 is no limit.

ASSUME LimitsAssumption == Limits \subseteq Nat

VARIABLES
    bytes,      \* The contents of the file, in units.
    intact,     \* History: the items written before anything was lost.
    pos,        \* Where the InputIterator is in the file.
    index,      \* index_: items the InputIterator has read.
    reading,    \* The reader: "closed", "open", "ended" or "aborted".
    collected   \* What it has collected so far: items with their indexes.

fileVars == <<bytes, intact, pos, index, reading, collected>>

(* The units of an item: a key and a value. *)
EachSize == 2

Serialize(item) == <<item.key, item.from>>

(* writeAll: every item to a buffer, and the buffer to the stream. *)
Serialized(items) == Seqs!FlattenSeq([n \in DOMAIN items |-> Serialize(items[n])])

(* What a deserializer leaves uninitialized at the end of the file. *)
Garbage == [key |-> 0, from |-> 0]

(* Deserializing at an offset: first the key, then the value. *)
ItemAt(offset) ==
    IF offset + EachSize <= Len(bytes)
    THEN [key |-> bytes[offset + 1], from |-> bytes[offset + 2]]
    ELSE Garbage

(* SingleFileIndexedStorage::get *)
Get(n) == ItemAt(n * EachSize)

(* What is in the file after flush: the first n of the units written. *)
Flushed(units, n) == bytes \o SubSeq(units, 1, n)

availableBytes == Len(bytes) - pos

FileInit ==
    /\ Init
    /\ bytes = << >>
    /\ intact = 0
    /\ pos = 0
    /\ index = 0
    /\ reading = "closed"
    /\ collected = << >>

(* Mutant: a second flush, with which a string stream appends all again. *)
AppendAllFlushedTwice(items) ==
    /\ bytes' = bytes \o Serialized(items) \o Serialized(items)
    /\ intact' = intact + Len(items)
    /\ UNCHANGED <<pos, index, reading, collected>>

(* appendAll: the file is opened for appending, and of what is written to   *)
(* it the first n units arrive, normally all.                               *)
AppendAll(items) ==
    \E n \in 0 .. EachSize * Len(items) :
        /\ bytes' = Flushed(Serialized(items), n)
        /\ intact' = IF intact < Len(merged) THEN intact ELSE intact + n \div EachSize
        /\ UNCHANGED <<pos, index, reading, collected>>

(* getDataIterator, once the constructor has returned. *)
OpenInput ==
    /\ done
    /\ reading = "closed"
    /\ reading' = "open"
    /\ UNCHANGED <<bytes, intact, pos, index, collected>>

(* collect: up to limit items, and an empty batch when there are no more,   *)
(* at which the loops of the callers end.                                   *)
Collect(limit) ==
    LET objectsInStream == availableBytes \div EachSize
        objectsToRead == IF limit = 0 THEN objectsInStream ELSE Min({objectsInStream, limit})
    IN  /\ reading = "open"
        /\ collected' = collected \o
               [n \in 1 .. objectsToRead |->
                   [item |-> ItemAt(pos + (n - 1) * EachSize), index |-> index + n - 1]]
        /\ pos' = pos + objectsToRead * EachSize
        /\ index' = index + objectsToRead
        /\ reading' = IF objectsToRead = 0 THEN "ended" ELSE "open"
        /\ UNCHANGED <<bytes, intact>>

(* The assertion of collect, in a build that has it: no part of an item. *)
AssertionFails ==
    /\ reading = "open"
    /\ availableBytes % EachSize # 0
    /\ reading' = "aborted"
    /\ UNCHANGED <<bytes, intact, pos, index, collected>>

-----------------------------------------------------------------------------
(* The constructor, with the calls of dropWriteBuffer, and then its reader. *)

(* What a step of the merge hands over to the file. *)
Dropped == SubSeq(merged', Len(merged) + 1, Len(merged'))

FileNext ==
    \/ Next /\ AppendAll(Dropped)
    \/ OpenInput /\ UNCHANGED vars
    \/ (\E limit \in Limits : Collect(limit)) /\ UNCHANGED vars
    \/ AssertionFails /\ UNCHANGED vars

(* The merge and the loop that reads go on as long as they can. *)
FileSpec ==
    /\ FileInit
    /\ [][FileNext]_<<vars, fileVars>>
    /\ WF_<<vars, fileVars>>(FileNext)

-----------------------------------------------------------------------------
(* Properties. *)

(* Up to the first item that a write has lost, what was merged is read: an  *)
(* item by its index, as find and the next merge do, and all of them in     *)
(* batches of whatever sizes, each item once and with its index, as a       *)
(* shrink does.  When nothing was lost, the reader gets all of them.        *)
ReadsWhatWasMerged ==
    /\ \A n \in 1 .. intact : Get(n - 1) = merged[n]
    /\ \A n \in 1 .. Len(collected) :
          /\ collected[n].index = n - 1
          /\ n <= intact => collected[n].item = merged[n]
    /\ reading = "ended" => Len(collected) >= intact
    /\ reading # "closed" /\ intact = Len(merged) =>
          /\ reading # "aborted"
          /\ Len(collected) <= Len(merged)

=============================================================================
