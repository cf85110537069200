----------------------------- MODULE SortedFind -----------------------------
(***************************************************************************)
(* SortedSingleFileIndexedStorage::find: a binary search that reads one    *)
(* item of the file per turn of its loop.  Positions are IndexT, unsigned  *)
(* integers that wrap.                                                     *)
(***************************************************************************)
EXTENDS Integers, Sequences, FiniteSets

CONSTANTS
    Keys,       \* The keys in the order of Key::operator<.
    Files,      \* The files searched: the keys of their items, in order.
    IndexMod    \* 2^w, where w is the width of IndexT in bits.

ASSUME KeysAreNumbers == Keys \subseteq Nat

ASSUME WidthAssumption == IndexMod \in Nat \ {0}

(* Sorted and unique, as sortedEndIterator and the merge leave a file.  The *)
(* count of its items is an IndexT too.                                     *)
ASSUME FilesAssumption ==
    \A f \in Files :
        /\ f \in Seq(Keys)
        /\ Len(f) < IndexMod
        /\ \A i, j \in DOMAIN f : i < j => f[i] < f[j]

VARIABLES
    file,       \* The keys of the items in the file.
    pattern,    \* The key searched for.
    firstLeq,
    lastGt,
    pc,         \* "loop", or "done" once find has returned.
    result      \* The position of the item found, or NotFound.

vars == <<file, pattern, firstLeq, lastGt, pc, result>>

NotFound == -1

(* get(index) *)
KeyOfItem(index) == file[index + 1]

ItemsCount == Len(file)

Wrapped(n) == n % IndexMod

Middle == Wrapped(firstLeq + lastGt) \div 2

(* Mutant: the loop goes on until the interval is empty. *)
WidthPlusOne == Wrapped(lastGt - firstLeq + 1)

Width == Wrapped(lastGt - firstLeq)

(* Mutant: the last item is left out. *)
InitShort ==
    /\ file \in Files
    /\ pattern \in Keys
    /\ firstLeq = 0
    /\ lastGt = IF ItemsCount > 1 THEN ItemsCount - 1 ELSE ItemsCount
    /\ pc = "loop"
    /\ result = NotFound

Init ==
    /\ file \in Files
    /\ pattern \in Keys
    /\ firstLeq = 0
    /\ lastGt = ItemsCount
    /\ pc = "loop"
    /\ result = NotFound

ProbeLow ==
    /\ pc = "loop"
    /\ Width > 1
    /\ KeyOfItem(Middle) <= pattern
    /\ firstLeq' = Middle
    /\ UNCHANGED <<file, pattern, lastGt, pc, result>>

ProbeHigh ==
    /\ pc = "loop"
    /\ Width > 1
    /\ KeyOfItem(Middle) > pattern
    /\ lastGt' = Middle
    /\ UNCHANGED <<file, pattern, firstLeq, pc, result>>

(* The loop is over: the one item left is the pattern's or none is.  An     *)
(* empty file is answered before the loop is entered.                       *)
Answer ==
    /\ pc = "loop"
    /\ Width <= 1
    /\ pc' = "done"
    /\ result' =
           IF firstLeq < ItemsCount /\ KeyOfItem(firstLeq) = pattern
           THEN firstLeq
           ELSE NotFound
    /\ UNCHANGED <<file, pattern, firstLeq, lastGt>>

Next == ProbeLow \/ ProbeHigh \/ Answer

(* The loop is plain sequential code: as long as it can go on it does. *)
Spec == Init /\ [][Next]_vars /\ WF_vars(Next)

-----------------------------------------------------------------------------
(* Properties. *)

(* Both ends of the interval stay within the file, and in this order.  It   *)
(* is what keeps every get within the assertion of SingleFileIndexed-       *)
(* Storage::get, and the subtraction of the loop condition from wrapping.   *)
TypeOK ==
    /\ file \in Files
    /\ pattern \in Keys
    /\ pc \in {"loop", "done"}
    /\ firstLeq \in 0 .. ItemsCount
    /\ lastGt \in 0 .. ItemsCount
    /\ IF file = << >> THEN lastGt = 0 ELSE firstLeq < lastGt
    /\ result \in {NotFound} \cup 0 .. ItemsCount - 1

(* What the comment of find promises: nothing is returned iff no item       *)
(* equals the pattern, and otherwise such an item.                          *)
FindIsExact ==
    pc = "done" =>
        IF \E i \in DOMAIN file : file[i] = pattern
        THEN result # NotFound /\ KeyOfItem(result) = pattern
        ELSE result = NotFound

(* find returns: each turn narrows the interval. *)
FindReturns == <>(pc = "done")

=============================================================================
