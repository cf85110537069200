----------------------------- MODULE BlockList -----------------------------
(***************************************************************************)
(* The on-disk index: BinaryCollapsingSortedStoragesList, a list of sorted *)
(* index blocks, the most recently appended first.                         *)
(*                                                                         *)
(* A block is a SortedSingleFileIndexedStorage of KeyValue<Key, IndexT>:   *)
(* a file of pairs in strictly increasing key order.  It is represented by *)
(* the function from keys to the indexes it holds for them, which          *)
(* determines the file.                                                    *)
(***************************************************************************)
EXTENDS Integers, Sequences, FiniteSets, FiniteSetsExt

CONSTANTS
    Keys,       \* The keys: numbers, as Key::operator< orders them.
    BatchSize,  \* keyIndexBatchSize_: RAM index limit, and size of rank one.
    Log2(_)     \* std::log2 cut to IndexT, on the numbers a rank needs.

ASSUME KeysAssumption == Keys \subseteq Nat /\ IsFiniteSet(Keys)

(* A batch of zero items divides by zero in getRank and in shrink. *)
ASSUME BatchAssumption == BatchSize \in Nat \ {0}

(* What is used of the integer part of the logarithm: it is monotonic, and  *)
(* doubling its argument adds at most one.                                  *)
ASSUME Log2Assumption ==
    /\ \A n \in 1 .. Cardinality(Keys) : Log2(n) \in Nat
    /\ \A m, n \in 1 .. Cardinality(Keys) : m <= n => Log2(m) <= Log2(n)
    /\ \A m, n \in 1 .. Cardinality(Keys) : m <= 2 * n => Log2(m) <= Log2(n) + 1

-----------------------------------------------------------------------------

(* An absent index: the empty std::optional. *)
NoIndex == -1

Blocks == [Keys -> Nat \cup {NoIndex}]

EmptyBlock == [k \in Keys |-> NoIndex]

KeysOf(block) == {k \in Keys : block[k] # NoIndex}

(* Mutant: the size in batches, without the logarithm. *)
RankIsSize(block) == (Cardinality(KeysOf(block)) + BatchSize - 1) \div BatchSize

(* ListNode::getRank: the logarithm of the number of batches in the block. *)
Rank(block) == Log2((Cardinality(KeysOf(block)) + BatchSize - 1) \div BatchSize)

(* The blocks of the list that hold key k. *)
Holders(list, k) == {i \in DOMAIN list : list[i][k] # NoIndex}

(* Mutant: the search starts at the oldest block. *)
FindOldest(list, k) ==
    IF Holders(list, k) = {} THEN NoIndex ELSE list[Max(Holders(list, k))][k]

(* find: the blocks are searched from the head, the newest block, on. *)
Find(list, k) ==
    IF Holders(list, k) = {} THEN NoIndex ELSE list[Min(Holders(list, k))][k]

(* The merging constructor of a sorted storage: every key of the blocks     *)
(* once, with the index the newest of them has for it.                      *)
Merge(list) == [k \in Keys |-> Find(list, k)]

(* Mutant: blocks of equal rank are not merged. *)
CollapseDepthShort(list) ==
    Min({d \in 1 .. Len(list) :
            d < Len(list) => Rank(Merge(SubSeq(list, 1, d))) <= Rank(list[d + 1])})

(* The loop of append stops at the first depth where the merged head has a  *)
(* smaller rank than the block behind it, or where nothing is behind it.    *)
CollapseDepth(list) ==
    Min({d \in 1 .. Len(list) :
            d < Len(list) => Rank(Merge(SubSeq(list, 1, d))) < Rank(list[d + 1])})

(* Mutant: the merged block goes behind the blocks it was merged before. *)
CollapseToTail(list) ==
    LET d == CollapseDepth(list)
    IN  SubSeq(list, d + 1, Len(list)) \o <<Merge(SubSeq(list, 1, d))>>

Collapse(list) ==
    LET d == CollapseDepth(list)
    IN  <<Merge(SubSeq(list, 1, d))>> \o SubSeq(list, d + 1, Len(list))

(* append: the block becomes the head and is then collapsed with its tail. *)
AppendBlock(list, block) == Collapse(<<block>> \o list)

=============================================================================
