---------------------------- MODULE DataStorage ----------------------------
(***************************************************************************)
(* What KeyValueShrinkableStorage promises: records are appended to the    *)
(* part that is not sorted, and a shrink leaves the last record of every   *)
(* key in key order and then hands out the index of what it left.  The two *)
(* halves of a shrink are separate actions because the second may throw.   *)
(***************************************************************************)
EXTENDS DataFile

VARIABLES
    sorted,     \* The records in key order.
    notSorted,  \* The records in order of arrival.
    index       \* The index handed out by the last shrink that returned.

vars == <<sorted, notSorted, index>>

Init ==
    /\ sorted = << >>
    /\ notSorted = << >>
    /\ index = EmptyBlock

AppendRecord(r) ==
    /\ notSorted' = Append(notSorted, r)
    /\ UNCHANGED <<sorted, index>>

(* From here on every index handed out before is stale. *)
Rearrange ==
    /\ sorted' = Shrunk(sorted \o notSorted)
    /\ notSorted' = << >>
    /\ UNCHANGED index

HandOut ==
    /\ notSorted = << >>
    /\ index' = ExportKeys(sorted)
    /\ UNCHANGED <<sorted, notSorted>>

Next == Rearrange \/ HandOut \/ \E r \in Records : AppendRecord(r)

Spec == Init /\ [][Next]_vars

=============================================================================
