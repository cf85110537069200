--------------------------- MODULE CollapsingList ---------------------------
(***************************************************************************)
(* BinaryCollapsingSortedStoragesList::append step by step: one action     *)
(* puts the new block at the head, and each turn of the loop merges the    *)
(* head into the block behind it, in a file named "collapse" that is then  *)
(* swapped with the file of that block.                                    *)
(*                                                                         *)
(* Creating the merged file may throw (FileOutputStream's constructor      *)
(* does when the file cannot be opened).  Nothing in append catches the    *)
(* exception: the turns done so far stay done, the others are not done.    *)
(***************************************************************************)
EXTENDS BlockList

CONSTANTS
    MaxAppends,     \* Bound of the model: calls of append.
    MaxFailures     \* Bound of the model: merges that throw.

ASSUME BoundsAssumption == MaxAppends \in Nat /\ MaxFailures \in Nat

VARIABLES
    list,       \* The blocks from head_ on.
    pc,         \* "idle" between two calls, "loop" at the head of the loop.
    appends,    \* Calls of append so far; the indexes of a block carry it.
    failures    \* Merges that have thrown so far.

vars == <<list, pc, appends, failures>>

(* The blocks that hold exactly the keys S, written by call number n. *)
BlockOf(S, n) == [k \in Keys |-> IF k \in S THEN n ELSE NoIndex]

(* Mutant: an empty RAM index is appended too. *)
AppendableOrEmpty(S) == Cardinality(S) <= BatchSize \/ list = << >>

(* Supermap appends what it drops from RAM, never more than a batch, and,   *)
(* to a new list, the index of all the data.                                *)
Appendable(S) ==
    /\ S # {}
    /\ Cardinality(S) <= BatchSize \/ list = << >>

Init ==
    /\ list = << >>
    /\ pc = "idle"
    /\ appends = 0
    /\ failures = 0

(* append: head_ is replaced before anything is merged. *)
AppendStorage(S) ==
    /\ pc = "idle"
    /\ Appendable(S)
    /\ appends' = appends + 1
    /\ list' = <<BlockOf(S, appends')>> \o list
    /\ pc' = "loop"
    /\ UNCHANGED failures

(* Mutant: blocks of equal rank are not merged. *)
LoopEndsEarly == Len(list) > 1 => Rank(list[1]) <= Rank(list[2])

(* The loop ends at the last block, or before a block of larger rank. *)
LoopEnds == Len(list) > 1 => Rank(list[1]) < Rank(list[2])

(* Mutant: the blocks are passed in the wrong order, the older one wins. *)
MergeHeadOldest ==
    /\ pc = "loop"
    /\ ~ LoopEnds
    /\ list' = <<Merge(<<list[2], list[1]>>)>> \o SubSeq(list, 3, Len(list))
    /\ UNCHANGED <<pc, appends, failures>>

(* Mutant: the merged block is not taken out of its old place. *)
MergeHeadInPlace ==
    /\ pc = "loop"
    /\ ~ LoopEnds
    /\ list' = <<Merge(SubSeq(list, 1, 2))>> \o SubSeq(list, 2, Len(list))
    /\ UNCHANGED <<pc, appends, failures>>

MergeHead ==
    /\ pc = "loop"
    /\ ~ LoopEnds
    /\ list' = <<Merge(SubSeq(list, 1, 2))>> \o SubSeq(list, 3, Len(list))
    /\ UNCHANGED <<pc, appends, failures>>

(* The constructor of the merged storage throws. *)
MergeFails ==
    /\ pc = "loop"
    /\ ~ LoopEnds
    /\ failures < MaxFailures
    /\ failures' = failures + 1
    /\ pc' = "idle"
    /\ UNCHANGED <<list, appends>>

Return ==
    /\ pc = "loop"
    /\ LoopEnds
    /\ pc' = "idle"
    /\ UNCHANGED <<list, appends, failures>>

Next ==
    \/ \E S \in SUBSET Keys : appends < MaxAppends /\ AppendStorage(S)
    \/ MergeHead
    \/ MergeFails
    \/ Return

(* The loop is plain sequential code: as long as it can go on it does.  The *)
(* next call, and a failure, are never owed.                                *)
Spec == Init /\ [][Next]_vars /\ WF_vars(MergeHead) /\ WF_vars(Return)

-----------------------------------------------------------------------------
(* Properties. *)

(* The list is a sequence of blocks that are not empty. *)
TypeOK ==
    /\ list \in Seq(Blocks)
    /\ \A n \in DOMAIN list : KeysOf(list[n]) # {}
    /\ pc \in {"idle", "loop"}
    /\ appends \in Nat
    /\ failures \in Nat

(* The assertion in the loop, "curNode->getRank() <= nextNode->getRank()".  *)
(* Two blocks of one rank merge into one of at most the next rank, so that  *)
(* a cascade never overtakes the block it runs into.                        *)
RankAssertion ==
    pc = "loop" /\ Len(list) > 1 => Rank(list[1]) <= Rank(list[2])

(* The assertion never fails before a merge has thrown.  (Afterwards it may *)
(* fail: a cascade that was cut short leaves blocks of one rank behind.)    *)
AssertionUntilFailure == failures = 0 => RankAssertion

(* Between two calls, and before a merge has thrown, no two blocks have one *)
(* rank, and older ranks are larger: otherwise a later collapse would stop  *)
(* too early or never start.                                                *)
RanksIncreaseWhenIdle ==
    pc = "idle" /\ failures = 0 =>
        \A m, n \in DOMAIN list : m < n => Rank(list[m]) < Rank(list[n])

(* Whatever a merge does, and even if it throws half way through a cascade, *)
(* find answers as if the appended blocks were simply laid over each other: *)
(* a merge never lets an older entry come before a newer one.               *)
Layers ==
    INSTANCE BlockIndex WITH
        index <- [k \in Keys |-> Find(list, k)],
        Blocks <- {BlockOf(S, n) : S \in SUBSET Keys, n \in 1 .. MaxAppends}

ImplementsBlockIndex == Layers!Spec

(* Turn by turn the loop computes the closed form that Supermap is modelled *)
(* with: no turn changes what the whole collapse amounts to, and when the   *)
(* loop returns it has been reached.                                        *)
LoopComputesCollapse ==
    [][pc = "loop" /\ failures' = failures =>
          /\ Collapse(list') = Collapse(list)
          /\ pc' = "idle" => list' = Collapse(list)]_vars

(* Every call of append ends: each turn shortens the list. *)
AppendReturns == pc = "loop" ~> pc = "idle"

=============================================================================
