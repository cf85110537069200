--------------------------- MODULE SupermapFaults ---------------------------
(***************************************************************************)
(* Supermap when file operations throw.  An exception leaves add in the    *)
(* middle: the steps before it stay done, and the next call starts from    *)
(* what they left.  An append of the record that throws changes nothing    *)
(* and is a stuttering step.                                               *)
(*                                                                         *)
(* The calls of add that return are those of Supermap.  Assertions are not *)
(* compiled in, so that a list whose ranks no longer increase goes on.     *)
(***************************************************************************)
EXTENDS Supermap

CONSTANTS
    FailingSteps,   \* The steps that may throw.
    MaxFailures     \* Bound of the model: calls that throw.

ASSUME FaultsAssumption ==
    /\ FailingSteps \subseteq {"drop", "collapse", "shrink", "export"}
    /\ MaxFailures \in Nat

VARIABLES
    thrown,     \* The steps that threw since a shrink last returned.
    failures    \* Calls that have thrown so far.

faultVars == <<vars, thrown, failures>>

FaultInit ==
    /\ Init
    /\ thrown = {}
    /\ failures = 0

AddReturns(k, v) ==
    /\ Add(k, v)
    /\ thrown' = IF notSorted' = << >> THEN {} ELSE thrown
    /\ UNCHANGED failures

(* What all calls that throw in dropRamIndexToDisk or behind it have done.  *)
Throws(step, k) ==
    /\ step \in FailingSteps
    /\ failures < MaxFailures
    /\ failures' = failures + 1
    /\ thrown' = thrown \cup {step}
    /\ RamFull(k) \/ TooMuchNotSorted
    /\ ram' = EmptyBlock

(* The file of the new block cannot be written.  extract has emptied the    *)
(* RAM index before, and what it returned is gone.                          *)
DropThrows(k, v) ==
    /\ Throws("drop", k)
    /\ notSorted' = Appended(k, v)
    /\ UNCHANGED <<sorted, disk>>

(* Mutant: the head is unlinked while it is merged. *)
CollapseThrowsUnlinked(k, v) ==
    /\ Throws("collapse", k)
    /\ notSorted' = Appended(k, v)
    /\ LET list == <<Indexed(k)>> \o disk
       IN  \E d \in 1 .. CollapseDepth(list) - 1 : disk' = SubSeq(list, d + 1, Len(list))
    /\ UNCHANGED sorted

(* A merge throws after the collapse has reached some depth. *)
CollapseThrows(k, v) ==
    /\ Throws("collapse", k)
    /\ notSorted' = Appended(k, v)
    /\ LET list == <<Indexed(k)>> \o disk
       IN  \E d \in 1 .. CollapseDepth(list) - 1 :
               disk' = <<Merge(SubSeq(list, 1, d))>> \o SubSeq(list, d + 1, Len(list))
    /\ UNCHANGED sorted

(* Mutant: the unsorted part is emptied as it is read. *)
ShrinkThrowsEmptied(k, v) ==
    /\ Throws("shrink", k)
    /\ TooMuchNotSorted
    /\ notSorted' = << >>
    /\ disk' = AppendBlock(disk, Indexed(k))
    /\ UNCHANGED sorted

(* shrink throws before the data storage takes the new file for its own. *)
ShrinkThrows(k, v) ==
    /\ Throws("shrink", k)
    /\ TooMuchNotSorted
    /\ notSorted' = Appended(k, v)
    /\ disk' = AppendBlock(disk, Indexed(k))
    /\ UNCHANGED sorted

(* shrink throws behind that: the list of blocks is not replaced. *)
ExportThrows(k, v) ==
    /\ Throws("export", k)
    /\ TooMuchNotSorted
    /\ sorted' = Shrunk(sorted \o Appended(k, v))
    /\ notSorted' = << >>
    /\ disk' = AppendBlock(disk, Indexed(k))

FaultNext ==
    \E k \in Keys, v \in Values :
        /\ ItemsCount < MaxItems
        /\ \/ AddReturns(k, v)
           \/ DropThrows(k, v)
           \/ CollapseThrows(k, v)
           \/ ShrinkThrows(k, v)
           \/ ExportThrows(k, v)

FaultSpec == FaultInit /\ [][FaultNext]_faultVars

-----------------------------------------------------------------------------
(* Properties.  As `thrown` is emptied by a shrink that returns, each says   *)
(* too that such a shrink repairs what exceptions before it have broken.    *)

(* Only an exception in the drop of the RAM index, or behind the            *)
(* replacement of the data file, makes the index inexact.  One in a         *)
(* collapse or earlier in shrink costs nothing but time and space.          *)
ExactUnlessDropOrExport ==
    thrown \cap {"drop", "export"} = {} => LookupIsLatest

(* After a drop that threw reads may be stale, but they are never of        *)
(* another key, and the order of age of the layers is kept.                 *)
AgedUnlessExport == "export" \notin thrown => LayersAgeInOrder

(* As long as nothing threw in a drop or behind the replacement of the data *)
(* file, each call of add, the one that throws included, does what the      *)
(* abstract add says or nothing to what getValue returns.                   *)
ActsAsStore ==
    [][(thrown \cup thrown') \cap {"drop", "export"} = {}
          => [Promise!Next]_<<[k \in Keys |-> GetValue(k)]>>]_faultVars

Broken == thrown \cap {"drop", "export"} # {}

Shard == INSTANCE Shard WITH
    store <- [k \in Keys |-> ValueIn(sorted \o notSorted, k)],
    records <- ItemsCount,
    lost <- Broken,
    found <- {k \in Keys : IndexOf(k) # NoIndex}

(* This is what the wrappers rely on: an exception, wherever it comes from, *)
(* costs no record and changes the value that the last record has for no    *)
(* key but the one that is added; a key with no record is never found, even *)
(* by an index whose positions are stale; and a shrink that returns makes   *)
(* every record readable again.                                             *)
ImplementsShard == Shard!Spec

(* "Object of type Value which corresponds to given key" (getValue): the    *)
(* record read for a key is a record of that key.                           *)
ReadsOwnKey == \A k \in Keys : IndexOf(k) # NoIndex => IndexOf(k) \in Positions(k)

=============================================================================
