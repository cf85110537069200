------------------------ MODULE CollapsingListProofs ------------------------
(***************************************************************************)
(* Theorems about CollapsingList for every set of keys and batch size: the *)
(* content of the list whether or not merges throw, and the assertion of   *)
(* the loop when none does.                                                *)
(*                                                                         *)
(* The lemmas about lists of blocks are those of DataFileProofs.  What     *)
(* that module declares beside them, the values of a data file, occurs in  *)
(* no definition and in no proof here.                                     *)
(***************************************************************************)
EXTENDS CollapsingList, DataFileProofs

-----------------------------------------------------------------------------
(* What the turns of the loop and its entry do to the list. *)

(* The first two blocks of the list, and the rest. *)
LEMMA CutAtTwo ==
    ASSUME NEW l \in Seq(Blocks), Len(l) > 1
    PROVE  /\ SubSeq(l, 1, 2) \in Seq(Blocks)
           /\ Len(SubSeq(l, 1, 2)) = 2
           /\ SubSeq(l, 1, 2)[1] = l[1]
           /\ SubSeq(l, 1, 2)[2] = l[2]
           /\ SubSeq(l, 3, Len(l)) \in Seq(Blocks)
           /\ Len(SubSeq(l, 3, Len(l))) = Len(l) - 2
           /\ \A i \in 1 .. Len(l) - 2 : SubSeq(l, 3, Len(l))[i] = l[2 + i]
           /\ SubSeq(l, 1, 2) \o SubSeq(l, 3, Len(l)) = l
<1>1. Len(l) \in Nat
  BY LenProperties
<1>2. ASSUME NEW d \in 1 .. Len(l), NEW e \in Nat, e = d + 1
      PROVE  /\ SubSeq(l, e, Len(l)) \in Seq(Blocks)
             /\ Len(SubSeq(l, e, Len(l))) = Len(l) - d
             /\ \A i \in 1 .. Len(l) - d : SubSeq(l, e, Len(l))[i] = l[d + i]
             /\ SubSeq(l, 1, d) \o SubSeq(l, e, Len(l)) = l
  BY <1>2, CutProperties
<1>3. 2 \in 1 .. Len(l) /\ 3 \in Nat /\ 3 = 2 + 1
  BY <1>1
<1>4. /\ SubSeq(l, 1, 2) \in Seq(Blocks)
      /\ Len(SubSeq(l, 1, 2)) = 2
      /\ \A i \in 1 .. 2 : SubSeq(l, 1, 2)[i] = l[i]
  BY <1>3, CutProperties
<1>5. 1 \in 1 .. 2 /\ 2 \in 1 .. 2
  OBVIOUS
<1> QED
  BY <1>2, <1>3, <1>4, <1>5

(* The list after one turn: its first two blocks are merged. *)
Turn(l) == <<Merge(SubSeq(l, 1, 2))>> \o SubSeq(l, 3, Len(l))

LEMMA TurnProperties ==
    ASSUME NEW l \in Seq(Blocks), Len(l) > 1
    PROVE  /\ Turn(l) \in Seq(Blocks)
           /\ Len(Turn(l)) = Len(l) - 1
           /\ Turn(l)[1] = Merge(SubSeq(l, 1, 2))
           /\ \A i \in 2 .. Len(l) - 1 : Turn(l)[i] = l[i + 1]
           /\ \A k \in Keys : Find(Turn(l), k) = Find(l, k)
<1> DEFINE front == SubSeq(l, 1, 2)
           back == SubSeq(l, 3, Len(l))
           merged == Merge(front)
<1>1. Len(l) \in Nat
  BY LenProperties
<1>2. /\ front \in Seq(Blocks)
      /\ back \in Seq(Blocks)
      /\ Len(back) = Len(l) - 2
      /\ \A i \in 1 .. Len(l) - 2 : back[i] = l[2 + i]
      /\ front \o back = l
  BY CutAtTwo
<1>3. Turn(l) = <<merged>> \o back
  BY DEF Turn
<1> HIDE DEF front, back
<1>4. merged \in Blocks /\ \A k \in Keys : merged[k] = Find(front, k)
  BY <1>2, MergeProperties
<1> HIDE DEF merged
<1>5. /\ Turn(l) \in Seq(Blocks)
      /\ Len(Turn(l)) = Len(back) + 1
      /\ Turn(l)[1] = merged
      /\ \A i \in 2 .. Len(back) + 1 : Turn(l)[i] = back[i - 1]
      /\ \A k \in Keys : Find(Turn(l), k) =
             IF merged[k] # NoIndex THEN merged[k] ELSE Find(back, k)
  BY <1>2, <1>3, <1>4, PushProperties
<1>6. ASSUME NEW i \in 2 .. Len(l) - 1 PROVE Turn(l)[i] = l[i + 1]
  <2>1. i \in 2 .. Len(back) + 1 /\ i - 1 \in 1 .. Len(l) - 2 /\ 2 + (i - 1) = i + 1
    BY <1>1, <1>2
  <2> QED
    BY <1>2, <1>5, <2>1
<1>7. ASSUME NEW k \in Keys PROVE Find(Turn(l), k) = Find(l, k)
  <2>1. Find(front \o back, k) =
            IF Find(front, k) # NoIndex THEN Find(front, k) ELSE Find(back, k)
    BY <1>2, FindConcat
  <2> QED
    BY <1>2, <1>4, <1>5, <2>1
<1>8. Len(Turn(l)) = Len(l) - 1
  BY <1>1, <1>2, <1>5
<1> QED
  BY <1>5, <1>6, <1>7, <1>8 DEF front, merged

LEMMA BlockOfProperties ==
    ASSUME NEW S \in SUBSET Keys, NEW n \in Nat
    PROVE  BlockOf(S, n) \in Blocks /\ KeysOf(BlockOf(S, n)) = S
BY DEF BlockOf, Blocks, KeysOf, NoIndex

-----------------------------------------------------------------------------
(* Type correctness. *)

LEMMA TypeOKInit == Init => TypeOK
BY DEF Init, TypeOK

LEMMA TypeOKStep == TypeOK /\ [Next]_vars => TypeOK'
<1> SUFFICES ASSUME TypeOK, [Next]_vars PROVE TypeOK'
  OBVIOUS
<1>1. /\ list \in Seq(Blocks) /\ Len(list) \in Nat /\ DOMAIN list = 1 .. Len(list)
      /\ \A n \in 1 .. Len(list) : list[n] \in Blocks /\ KeysOf(list[n]) # {}
  BY LenProperties, ElementOfSeq DEF TypeOK
<1>2. ASSUME NEW S \in SUBSET Keys, AppendStorage(S) PROVE TypeOK'
  <2> DEFINE block == BlockOf(S, appends + 1)
             new == <<block>> \o list
  <2>1. /\ list' = new /\ pc' = "loop"
        /\ appends' = appends + 1 /\ failures' = failures
    BY <1>2 DEF AppendStorage
  <2>2. appends + 1 \in Nat
    BY DEF TypeOK
  <2>3. block \in Blocks /\ KeysOf(block) # {}
    BY <1>2, <2>2, BlockOfProperties DEF AppendStorage, Appendable
  <2> HIDE DEF block
  <2>4. /\ new \in Seq(Blocks) /\ Len(new) = Len(list) + 1 /\ new[1] = block
        /\ \A i \in 2 .. Len(list) + 1 : new[i] = list[i - 1]
    BY <1>1, <2>3, PushProperties
  <2> HIDE DEF new
  <2>5. ASSUME NEW i \in DOMAIN new PROVE KeysOf(new[i]) # {}
    <3>1. i = 1 \/ (i \in 2 .. Len(list) + 1 /\ i - 1 \in 1 .. Len(list))
      BY <1>1, <2>4, LenProperties
    <3> QED
      BY <1>1, <2>3, <2>4, <3>1
  <2> QED
    BY <2>1, <2>2, <2>4, <2>5 DEF TypeOK
<1>3. CASE MergeHead
  <2>1. list' = Turn(list) /\ Len(list) > 1 /\ UNCHANGED <<pc, appends, failures>>
    BY <1>1, <1>3 DEF MergeHead, LoopEnds, Turn
  <2>2. /\ Turn(list) \in Seq(Blocks)
        /\ Len(Turn(list)) = Len(list) - 1
        /\ Turn(list)[1] = Merge(SubSeq(list, 1, 2))
        /\ \A i \in 2 .. Len(list) - 1 : Turn(list)[i] = list[i + 1]
    BY <1>1, <2>1, TurnProperties
  <2>3. KeysOf(Merge(SubSeq(list, 1, 2))) # {}
    <3> DEFINE front == SubSeq(list, 1, 2)
    <3>1. 2 \in 1 .. Len(list) /\ 1 \in 1 .. 2
      BY <1>1, <2>1
    <3>2. front \in Seq(Blocks) /\ Len(front) = 2 /\ front[1] = list[1]
      BY <1>1, <3>1, CutProperties
    <3> HIDE DEF front
    <3>3. front # << >>
      BY <3>2, EmptySeq
    <3>4. KeysOf(list[1]) \subseteq KeysOf(Merge(front))
      BY <3>2, <3>3, MergeHolds
    <3> QED
      BY <1>1, <2>1, <3>4 DEF front
  <2>4. ASSUME NEW i \in DOMAIN Turn(list) PROVE KeysOf(Turn(list)[i]) # {}
    <3>1. i = 1 \/ (i \in 2 .. Len(list) - 1 /\ i + 1 \in 1 .. Len(list))
      BY <1>1, <2>2, LenProperties
    <3> QED
      BY <1>1, <2>2, <2>3, <3>1
  <2> QED
    BY <2>1, <2>2, <2>4 DEF TypeOK
<1>4. CASE MergeFails
  BY <1>4 DEF MergeFails, TypeOK
<1>5. CASE Return
  BY <1>5 DEF Return, TypeOK
<1>6. CASE UNCHANGED vars
  BY <1>6 DEF vars, TypeOK
<1> QED
  BY <1>2, <1>3, <1>4, <1>5, <1>6 DEF Next

(* The list always consists of blocks that are not empty, and the loop is   *)
(* at one of its two control points.                                        *)
THEOREM TypeCorrect == Spec => []TypeOK
<1> QED
  BY TypeOKInit, TypeOKStep, PTL DEF Spec

-----------------------------------------------------------------------------
(* The assertion of the loop, before a merge has thrown. *)

(* The argument of the logarithm in getRank. *)
Batches(n) == (n + BatchSize - 1) \div BatchSize

LEMMA BatchesOfBlock ==
    ASSUME NEW block \in Blocks, KeysOf(block) # {}
    PROVE  /\ Cardinality(KeysOf(block)) \in Nat \ {0}
           /\ Batches(Cardinality(KeysOf(block))) \in 1 .. Cardinality(Keys)
           /\ Cardinality(Keys) \in Nat
           /\ Rank(block) = Log2(Batches(Cardinality(KeysOf(block))))
<1> DEFINE n == Cardinality(KeysOf(block))
<1>1. /\ n \in Nat \ {0}
      /\ n <= Cardinality(Keys)
      /\ Cardinality(Keys) \in Nat
  <2>1. KeysOf(block) \in SUBSET Keys
    BY DEF KeysOf
  <2> QED
    BY <2>1, KeysAssumption, FS_Subset, FS_CardinalityType, FS_EmptySet
<1>2. Rank(block) = Log2(Batches(n))
  BY DEF Rank, Batches
<1> HIDE DEF n
<1>3. (n + BatchSize - 1) \div BatchSize \in 1 .. n
  BY <1>1, BatchAssumption, Z3
<1>4. Batches(n) \in 1 .. Cardinality(Keys)
  BY <1>1, <1>3 DEF Batches
<1> QED
  BY <1>1, <1>2, <1>4 DEF n

(* A block of at most one batch has the smallest rank. *)
LEMMA RankOfBatch ==
    ASSUME NEW block \in Blocks, KeysOf(block) # {},
           Cardinality(KeysOf(block)) <= BatchSize,
           NEW other \in Blocks, KeysOf(other) # {}
    PROVE  Rank(block) <= Rank(other)
<1> DEFINE n == Cardinality(KeysOf(block))
           m == Cardinality(KeysOf(other))
<1>1. n \in Nat \ {0} /\ Rank(block) = Log2(Batches(n))
      /\ n <= BatchSize /\ Cardinality(Keys) \in Nat
      /\ Batches(n) \in 1 .. Cardinality(Keys)
  BY BatchesOfBlock
<1>2. Batches(m) \in 1 .. Cardinality(Keys) /\ Rank(other) = Log2(Batches(m))
  BY BatchesOfBlock
<1> HIDE DEF n, m
<1>3. (n + BatchSize - 1) \div BatchSize = 1
  BY <1>1, BatchAssumption, Z3
<1>4. Batches(n) = 1
  BY <1>3 DEF Batches
<1>5. Batches(n) <= Batches(m)
  BY <1>1, <1>2, <1>4
<1> QED
  BY <1>1, <1>2, <1>5, Log2Assumption

(* Two blocks need as many batches as their merge, or more. *)
LEMMA BatchesOfSum ==
    ASSUME NEW m \in Nat \ {0}, NEW n \in Nat \ {0}, NEW sum \in Nat \ {0},
           sum <= m + n
    PROVE  \/ Batches(sum) <= 2 * Batches(m)
           \/ Batches(sum) <= 2 * Batches(n)
<1>1. CASE m <= n
  <2>1. (sum + BatchSize - 1) \div BatchSize <= 2 * ((n + BatchSize - 1) \div BatchSize)
    BY <1>1, BatchAssumption, Z3
  <2> QED
    BY <2>1 DEF Batches
<1>2. CASE n <= m
  <2>1. (sum + BatchSize - 1) \div BatchSize <= 2 * ((m + BatchSize - 1) \div BatchSize)
    BY <1>2, BatchAssumption, Z3
  <2> QED
    BY <2>1 DEF Batches
<1> QED
  BY <1>1, <1>2

(* Two blocks of one rank merge into a block of at most the next rank. *)
LEMMA RankOfMerge ==
    ASSUME NEW front \in Seq(Blocks), Len(front) = 2,
           KeysOf(front[1]) # {}, KeysOf(front[2]) # {},
           Rank(front[1]) = Rank(front[2])
    PROVE  /\ Merge(front) \in Blocks
           /\ KeysOf(Merge(front)) # {}
           /\ Rank(Merge(front)) <= Rank(front[1]) + 1
<1>0. front # << >>
  <2>1. Len(<< >>) = 0 /\ 2 # 0
    OBVIOUS
  <2> QED
    BY <2>1, Zenon
<1> DEFINE first == front[1]
           second == front[2]
           merged == Merge(front)
           m == Cardinality(KeysOf(first))
           n == Cardinality(KeysOf(second))
           sum == Cardinality(KeysOf(merged))
<1>1. 1 \in 1 .. Len(front) /\ 2 \in 1 .. Len(front)
  OBVIOUS
<1>2. first \in Blocks /\ second \in Blocks
  BY <1>1, ElementOfSeq
<1>3. merged \in Blocks /\ KeysOf(merged) # {}
  BY <1>0, <1>1, <1>2, MergeProperties, MergeHolds
<1>4. KeysOf(merged) \subseteq KeysOf(first) \cup KeysOf(second)
  <2> SUFFICES ASSUME NEW k \in Keys, first[k] = NoIndex, second[k] = NoIndex
               PROVE  merged[k] = NoIndex
    BY DEF KeysOf
  <2>1. \A j \in 1 .. Len(front) : front[j][k] = NoIndex
    OBVIOUS
  <2>2. Find(front, k) = NoIndex
    BY <2>1, FindNone
  <2> QED
    BY <2>2, MergeProperties
<1>5. /\ m \in Nat \ {0} /\ Batches(m) \in 1 .. Cardinality(Keys)
      /\ Rank(first) = Log2(Batches(m))
      /\ Cardinality(Keys) \in Nat
  BY <1>2, BatchesOfBlock
<1>6. /\ n \in Nat \ {0} /\ Batches(n) \in 1 .. Cardinality(Keys)
      /\ Rank(second) = Log2(Batches(n))
  BY <1>2, BatchesOfBlock
<1>7. /\ sum \in Nat \ {0} /\ Batches(sum) \in 1 .. Cardinality(Keys)
      /\ Rank(merged) = Log2(Batches(sum))
  BY <1>3, BatchesOfBlock
<1>8. sum <= m + n
  <2>1. IsFiniteSet(KeysOf(first)) /\ IsFiniteSet(KeysOf(second))
    <3>1. KeysOf(first) \in SUBSET Keys /\ KeysOf(second) \in SUBSET Keys
      BY DEF KeysOf
    <3> QED
      BY <3>1, KeysAssumption, FS_Subset
  <2> DEFINE union == KeysOf(first) \cup KeysOf(second)
             common == KeysOf(first) \cap KeysOf(second)
  <2>2. /\ IsFiniteSet(union)
        /\ Cardinality(union) = m + n - Cardinality(common)
    BY <2>1, FS_Union
  <2>3. Cardinality(common) \in Nat
    BY <2>1, FS_Intersection, FS_CardinalityType
  <2>4. sum <= Cardinality(union) /\ Cardinality(union) \in Nat
    BY <1>4, <2>2, FS_Subset, FS_CardinalityType
  <2> HIDE DEF m, n, sum, union, common
  <2> QED
    BY <1>5, <1>6, <1>7, <2>2, <2>3, <2>4
<1> HIDE DEF m, n, sum, merged, first, second
<1>9. \/ Batches(sum) <= 2 * Batches(m)
      \/ Batches(sum) <= 2 * Batches(n)
  BY <1>5, <1>6, <1>7, <1>8, BatchesOfSum
<1>10. Rank(first) = Rank(second)
  BY DEF first, second
<1>11. Rank(merged) <= Rank(first) + 1
  BY <1>5, <1>6, <1>7, <1>9, <1>10, Log2Assumption
<1> QED
  BY <1>3, <1>11 DEF first, merged

(* Behind the head, which the loop is still working on, the ranks strictly *)
(* increase.                                                               *)
TailIncreases ==
    \A m, n \in DOMAIN list : 1 < m /\ m < n => Rank(list[m]) < Rank(list[n])

(* The invariant, which the first merge that throws makes void.            *)
Inv ==
    /\ TypeOK
    /\ failures = 0 => TailIncreases /\ RankAssertion /\ RanksIncreaseWhenIdle

LEMMA InvInit == Init => Inv
<1> SUFFICES ASSUME Init PROVE Inv
  OBVIOUS
<1>1. TypeOK
  BY TypeOKInit
<1>2. DOMAIN list = {} /\ Len(list) = 0
  BY DEF Init
<1> QED
  BY <1>1, <1>2 DEF Init, Inv, TailIncreases, RankAssertion, RanksIncreaseWhenIdle

LEMMA InvStep == Inv /\ [Next]_vars => Inv'
<1> SUFFICES ASSUME Inv, [Next]_vars PROVE Inv'
  OBVIOUS
<1>0. TypeOK'
  BY TypeOKStep DEF Inv
<1> SUFFICES ASSUME failures' = 0
             PROVE  TailIncreases' /\ RankAssertion' /\ RanksIncreaseWhenIdle'
  BY <1>0 DEF Inv
<1>a. CASE failures # 0
  (* No step takes a failure back. *)
  <2>1. failures \in Nat
    BY DEF Inv, TypeOK
  <2>2. failures' = failures \/ failures' = failures + 1
    BY DEF Next, AppendStorage, MergeHead, MergeFails, Return, vars
  <2> QED
    BY <1>a, <2>1, <2>2
<1> SUFFICES ASSUME failures = 0
             PROVE  TailIncreases' /\ RankAssertion' /\ RanksIncreaseWhenIdle'
  BY <1>a
<1>1. /\ list \in Seq(Blocks) /\ Len(list) \in Nat /\ DOMAIN list = 1 .. Len(list)
      /\ \A n \in 1 .. Len(list) : /\ list[n] \in Blocks
                                   /\ KeysOf(list[n]) # {}
                                   /\ Rank(list[n]) \in Nat
  BY LenProperties, ElementOfSeq, RankType DEF Inv, TypeOK
<1>2. TailIncreases /\ RankAssertion /\ RanksIncreaseWhenIdle
  BY DEF Inv
<1>3. ASSUME NEW S \in SUBSET Keys, AppendStorage(S)
      PROVE  TailIncreases' /\ RankAssertion' /\ RanksIncreaseWhenIdle'
  <2> DEFINE block == BlockOf(S, appends + 1)
             new == <<block>> \o list
  <2>1. /\ list' = new /\ pc = "idle" /\ pc' = "loop"
        /\ S # {} /\ (Cardinality(S) <= BatchSize \/ list = << >>)
    BY <1>1, <1>3 DEF AppendStorage, Appendable
  <2>2. block \in Blocks /\ KeysOf(block) = S
    <3>1. appends + 1 \in Nat
      BY DEF Inv, TypeOK
    <3> QED
      BY <3>1, BlockOfProperties
  <2> HIDE DEF block
  <2>3. /\ new \in Seq(Blocks) /\ Len(new) = Len(list) + 1 /\ new[1] = block
        /\ \A i \in 2 .. Len(list) + 1 : new[i] = list[i - 1]
    BY <1>1, <2>2, PushProperties
  <2>4. DOMAIN new = 1 .. Len(list) + 1
    BY <2>3, LenProperties
  <2> HIDE DEF new
  <2>5. \A m, n \in DOMAIN list : m < n => Rank(list[m]) < Rank(list[n])
    BY <1>2, <2>1 DEF RanksIncreaseWhenIdle
  <2>6. ASSUME NEW m \in DOMAIN new, NEW n \in DOMAIN new, 1 < m, m < n
        PROVE  Rank(new[m]) < Rank(new[n])
    <3>1. /\ m \in 2 .. Len(list) + 1 /\ n \in 2 .. Len(list) + 1
          /\ m - 1 \in DOMAIN list /\ n - 1 \in DOMAIN list /\ m - 1 < n - 1
      BY <1>1, <2>4, <2>6
    <3> QED
      BY <2>3, <2>5, <3>1
  <2>7. ASSUME Len(new) > 1 PROVE Rank(new[1]) <= Rank(new[2])
    <3>1. 1 \in 1 .. Len(list) /\ 2 \in 2 .. Len(list) + 1 /\ 2 - 1 = 1
      BY <1>1, <2>3, <2>7
    <3>2. list # << >> /\ new[2] = list[1]
      BY <1>1, <2>3, <3>1, EmptySeq
    <3> QED
      BY <1>1, <2>1, <2>2, <2>3, <3>1, <3>2, RankOfBatch
  <2>8. TailIncreases'
    BY <2>1, <2>6 DEF TailIncreases
  <2>9. RankAssertion'
    BY <2>1, <2>7 DEF RankAssertion
  <2> QED
    BY <1>2, <2>1, <2>8, <2>9 DEF RanksIncreaseWhenIdle
<1>4. CASE MergeHead
  <2>1. /\ list' = Turn(list) /\ Len(list) > 1 /\ pc = "loop" /\ pc' = "loop"
        /\ ~ (Rank(list[1]) < Rank(list[2]))
    BY <1>1, <1>4 DEF MergeHead, LoopEnds, Turn
  <2>2. 1 \in 1 .. Len(list) /\ 2 \in 1 .. Len(list)
    BY <1>1, <2>1
  <2>3. Rank(list[1]) = Rank(list[2])
    BY <1>1, <1>2, <2>1, <2>2 DEF RankAssertion
  <2> DEFINE front == SubSeq(list, 1, 2)
             merged == Merge(front)
             new == Turn(list)
  <2>4. /\ front \in Seq(Blocks) /\ Len(front) = 2
        /\ front[1] = list[1] /\ front[2] = list[2]
    BY <1>1, <2>1, CutAtTwo
  <2>5. /\ new \in Seq(Blocks)
        /\ Len(new) = Len(list) - 1
        /\ new[1] = merged
        /\ \A i \in 2 .. Len(list) - 1 : new[i] = list[i + 1]
    BY <1>1, <2>1, TurnProperties
  <2>6. DOMAIN new = 1 .. Len(list) - 1
    BY <2>5, LenProperties
  <2> HIDE DEF front, new
  <2>7. merged \in Blocks /\ KeysOf(merged) # {} /\ Rank(merged) <= Rank(list[1]) + 1
    BY <1>1, <2>2, <2>3, <2>4, RankOfMerge
  <2>8. Rank(merged) \in Nat
    BY <2>7, RankType
  <2> HIDE DEF merged
  <2>9. ASSUME NEW m \in DOMAIN new, NEW n \in DOMAIN new, 1 < m, m < n
        PROVE  Rank(new[m]) < Rank(new[n])
    <3>1. /\ m \in 2 .. Len(list) - 1 /\ n \in 2 .. Len(list) - 1
          /\ m + 1 \in DOMAIN list /\ n + 1 \in DOMAIN list
          /\ 1 < m + 1 /\ m + 1 < n + 1
      BY <1>1, <2>6, <2>9
    <3> QED
      BY <1>2, <2>5, <3>1 DEF TailIncreases
  <2>10. ASSUME Len(new) > 1 PROVE Rank(new[1]) <= Rank(new[2])
    <3>1. /\ 2 \in DOMAIN list /\ 3 \in DOMAIN list /\ 3 \in 1 .. Len(list)
          /\ 2 \in 2 .. Len(list) - 1 /\ 2 + 1 = 3 /\ 1 < 2 /\ 2 < 3
      BY <1>1, <2>5, <2>10
    <3>2. Rank(list[2]) < Rank(list[3])
      BY <1>2, <3>1 DEF TailIncreases
    <3>3. new[2] = list[3]
      BY <2>5, <3>1
    <3> QED
      BY <1>1, <2>2, <2>3, <2>5, <2>7, <2>8, <3>1, <3>2, <3>3
  <2>11. TailIncreases'
    BY <2>1, <2>9 DEF TailIncreases, new
  <2>12. RankAssertion'
    BY <2>1, <2>10 DEF RankAssertion, new
  <2> QED
    BY <2>1, <2>11, <2>12 DEF RanksIncreaseWhenIdle
<1>5. CASE MergeFails
  BY <1>5 DEF MergeFails
<1>6. CASE Return
  <2>1. /\ list' = list /\ pc' = "idle"
        /\ Len(list) > 1 => Rank(list[1]) < Rank(list[2])
    BY <1>1, <1>6 DEF Return, LoopEnds
  <2>2. \A m, n \in DOMAIN list : 1 < m /\ m < n => Rank(list[m]) < Rank(list[n])
    BY <1>2 DEF TailIncreases
  <2>3. ASSUME NEW m \in DOMAIN list, NEW n \in DOMAIN list, m < n
        PROVE  Rank(list[m]) < Rank(list[n])
    <3>1. CASE 1 < m
      BY <2>2, <2>3, <3>1
    <3>2. CASE m = 1
      <4>1. /\ Len(list) > 1 /\ 1 \in 1 .. Len(list) /\ 2 \in 1 .. Len(list)
            /\ 1 < 2 /\ (n = 2 \/ 2 < n)
        BY <1>1, <2>3, <3>2
      <4>2. Rank(list[2]) = Rank(list[n]) \/ Rank(list[2]) < Rank(list[n])
        BY <1>1, <2>2, <4>1
      <4> QED
        BY <1>1, <2>1, <3>2, <4>1, <4>2
    <3> QED
      BY <1>1, <3>1, <3>2
  <2>4. TailIncreases' /\ RanksIncreaseWhenIdle'
    BY <2>1, <2>3 DEF TailIncreases, RanksIncreaseWhenIdle
  <2> QED
    BY <2>1, <2>4 DEF RankAssertion
<1>7. CASE UNCHANGED vars
  BY <1>2, <1>7 DEF vars, TailIncreases, RankAssertion, RanksIncreaseWhenIdle
<1> QED
  BY <1>3, <1>4, <1>5, <1>6, <1>7 DEF Next

(* The assertion in the loop of append never fails before a merge has      *)
(* thrown, for any keys, batch and order of appends.                        *)
THEOREM AssertionHolds == Spec => []AssertionUntilFailure
<1>1. Inv => AssertionUntilFailure
  BY DEF Inv, AssertionUntilFailure
<1> QED
  BY <1>1, InvInit, InvStep, PTL DEF Spec

(* Before a merge has thrown the ranks strictly increase between two        *)
(* appends: what Supermap's own invariant says of the list as a whole.      *)
THEOREM RanksIncreaseBetweenAppends == Spec => []RanksIncreaseWhenIdle
<1>1. Inv => RanksIncreaseWhenIdle
  BY DEF Inv, RanksIncreaseWhenIdle
<1> QED
  BY <1>1, InvInit, InvStep, PTL DEF Spec

-----------------------------------------------------------------------------
(* The content of the list, whether or not merges throw. *)

(* append lays the new block over the list and no turn of the loop changes  *)
(* what find returns: the list implements the abstract index, at the moment *)
(* the head is replaced, even when merges throw half way through a cascade. *)
THEOREM ListImplementsIndex == Spec => ImplementsBlockIndex
<1> DEFINE F == [k \in Keys |-> Find(list, k)]
<1>1. Init => Layers!Init
  <2> SUFFICES ASSUME Init PROVE F = [k \in Keys |-> NoIndex]
    BY DEF Layers!Init
  <2>1. list \in Seq(Blocks) /\ \A j \in 1 .. Len(list) : FALSE
    BY DEF Init
  <2>2. \A k \in Keys : Find(list, k) = NoIndex
    BY <2>1, FindNone
  <2> QED
    BY <2>2
<1>2. TypeOK /\ [Next]_vars => [Layers!Next]_F
  <2> SUFFICES ASSUME TypeOK, [Next]_vars PROVE [Layers!Next]_F
    OBVIOUS
  <2>1. list \in Seq(Blocks) /\ Len(list) \in Nat
    BY LenProperties DEF TypeOK
  <2>2. ASSUME NEW S \in SUBSET Keys, appends < MaxAppends, AppendStorage(S)
        PROVE  Layers!Next
    <3> DEFINE block == BlockOf(S, appends + 1)
    <3>1. list' = <<block>> \o list
      BY <2>2 DEF AppendStorage
    <3>2. appends + 1 \in 1 .. MaxAppends
      BY <2>2, BoundsAssumption DEF TypeOK
    <3>3. block \in Blocks
      BY <3>2, BlockOfProperties
    <3>4. \E b \in {BlockOf(T, n) : T \in SUBSET Keys, n \in 1 .. MaxAppends} :
              b = block
      BY <3>2
    <3> HIDE DEF block
    <3>5. \A k \in Keys : Find(list', k) =
              IF block[k] # NoIndex THEN block[k] ELSE Find(list, k)
      BY <2>1, <3>1, <3>3, PushProperties
    <3>6. F' = [k \in Keys |-> Find(list', k)]
      BY DEF Find, Holders
    <3>7. F' = [k \in Keys |-> IF block[k] # NoIndex THEN block[k] ELSE F[k]]
      BY <3>5, <3>6
    <3> QED
      BY <3>4, <3>7 DEF Layers!Next, Layers!Append
  <2>3. CASE MergeHead
    <3>1. list' = Turn(list) /\ Len(list) > 1
      BY <2>1, <2>3 DEF MergeHead, LoopEnds, Turn
    <3>2. \A k \in Keys : Find(list', k) = Find(list, k)
      BY <2>1, <3>1, TurnProperties
    <3>3. F' = [k \in Keys |-> Find(list', k)]
      BY DEF Find, Holders
    <3> QED
      BY <3>2, <3>3
  <2>4. ASSUME list' = list PROVE F' = F
    BY <2>4 DEF Find, Holders
  <2> QED
    BY <2>2, <2>3, <2>4 DEF Next, MergeFails, Return, vars
<1> QED
  BY <1>1, <1>2, TypeCorrect, PTL DEF Spec, ImplementsBlockIndex, Layers!Spec

-----------------------------------------------------------------------------
(* The loop and its closed form. *)

(* A merge of one block is that block. *)
LEMMA MergeOfFirst ==
    ASSUME NEW l \in Seq(Blocks), l # << >>
    PROVE  Merge(SubSeq(l, 1, 1)) = l[1]
<1> DEFINE front == SubSeq(l, 1, 1)
           one == <<l[1]>>
<1>1. Len(l) \in Nat \ {0}
  BY EmptySeq
<1>2. 1 \in 1 .. Len(l)
  BY <1>1
<1>3. l[1] \in Blocks
  BY <1>2, ElementOfSeq
<1>4. front \in Seq(Blocks) /\ Len(front) = 1 /\ \A i \in 1 .. 1 : front[i] = l[i]
  BY <1>2, CutProperties
<1>5. one \in Seq(Blocks) /\ Len(one) = 1 /\ one[1] = l[1]
  BY <1>3
<1>6. \A k \in Keys : Find(one, k) = l[1][k]
  BY <1>3, FindSingle
<1> HIDE DEF front, one
<1>7. front = one
  BY <1>4, <1>5, SeqEqual
<1>8. Merge(front) \in Blocks /\ \A k \in Keys : Merge(front)[k] = Find(front, k)
  BY <1>4, MergeProperties
<1>9. \A k \in Keys : Merge(front)[k] = l[1][k]
  BY <1>6, <1>7, <1>8
<1>10. Merge(front) = l[1]
  BY <1>3, <1>8, <1>9 DEF Blocks
<1> QED
  BY <1>10 DEF front

(* The first blocks behind a turn are a turn on the first blocks. *)
LEMMA TurnPrefix ==
    ASSUME NEW l \in Seq(Blocks), NEW d \in 1 .. Len(l) - 1
    PROVE  Merge(SubSeq(Turn(l), 1, d)) = Merge(SubSeq(l, 1, d + 1))
<1> DEFINE new == Turn(l)
           short == SubSeq(new, 1, d)
           front == SubSeq(l, 1, d + 1)
           turned == Turn(front)
<1>1. Len(l) \in Nat /\ Len(l) > 1 /\ d + 1 \in 2 .. Len(l) /\ d \in Nat
  BY LenProperties
<1>2. /\ new \in Seq(Blocks)
      /\ Len(new) = Len(l) - 1
      /\ new[1] = Merge(SubSeq(l, 1, 2))
      /\ \A i \in 2 .. Len(l) - 1 : new[i] = l[i + 1]
  BY <1>1, TurnProperties
<1>3. front \in Seq(Blocks) /\ Len(front) = d + 1 /\ \A i \in 1 .. d + 1 : front[i] = l[i]
  <2>1. d + 1 \in 1 .. Len(l)
    BY <1>1
  <2> QED
    BY <2>1, CutProperties
<1> HIDE DEF new, front
<1>4. short \in Seq(Blocks) /\ Len(short) = d /\ \A i \in 1 .. d : short[i] = new[i]
  <2>1. d \in 1 .. Len(new)
    BY <1>1, <1>2
  <2> QED
    BY <1>2, <2>1, CutProperties
<1>5. SubSeq(front, 1, 2) = SubSeq(l, 1, 2)
  <2> DEFINE s == SubSeq(front, 1, 2)
             t == SubSeq(l, 1, 2)
  <2>1. 2 \in 1 .. Len(front) /\ 2 \in 1 .. Len(l)
    BY <1>1, <1>3
  <2>2. s \in Seq(Blocks) /\ Len(s) = 2 /\ \A i \in 1 .. 2 : s[i] = front[i]
    BY <1>3, <2>1, CutProperties
  <2>3. t \in Seq(Blocks) /\ Len(t) = 2 /\ \A i \in 1 .. 2 : t[i] = l[i]
    BY <2>1, CutProperties
  <2> HIDE DEF s, t
  <2>4. \A i \in 1 .. 2 : s[i] = t[i]
    BY <1>1, <1>3, <2>2, <2>3
  <2>5. s = t
    BY <2>2, <2>3, <2>4, SeqEqual
  <2> QED
    BY <2>5 DEF s, t
<1>6. /\ turned \in Seq(Blocks)
      /\ Len(turned) = d
      /\ turned[1] = Merge(SubSeq(front, 1, 2))
      /\ \A i \in 2 .. d : turned[i] = front[i + 1]
      /\ \A k \in Keys : Find(turned, k) = Find(front, k)
  <2>1. Len(front) > 1 /\ Len(front) - 1 = d
    BY <1>1, <1>3
  <2> QED
    BY <1>3, <2>1, TurnProperties
<1> HIDE DEF short, turned
<1>7. ASSUME NEW i \in 1 .. d PROVE short[i] = turned[i]
  <2>1. CASE i = 1
    BY <1>2, <1>4, <1>5, <1>6, <2>1
  <2>2. CASE i # 1
    <3>1. i \in 2 .. d /\ i \in 2 .. Len(l) - 1 /\ i + 1 \in 1 .. d + 1
      BY <1>1, <2>2
    <3> QED
      BY <1>2, <1>3, <1>4, <1>6, <3>1
  <2> QED
    BY <2>1, <2>2
<1>8. short = turned
  BY <1>4, <1>6, <1>7, SeqEqual
<1>9. /\ Merge(short) \in Blocks /\ \A k \in Keys : Merge(short)[k] = Find(short, k)
      /\ Merge(front) \in Blocks /\ \A k \in Keys : Merge(front)[k] = Find(front, k)
  BY <1>3, <1>4, MergeProperties
<1>10. Merge(short) = Merge(front)
  BY <1>6, <1>8, <1>9 DEF Blocks
<1> QED
  BY <1>10 DEF short, front, new

(* Where the loop goes on, one turn takes one block off what is left to do. *)
LEMMA TurnCollapses ==
    ASSUME NEW l \in Seq(Blocks), Len(l) > 1, ~ (Rank(l[1]) < Rank(l[2]))
    PROVE  Collapse(Turn(l)) = Collapse(l)
<1> DEFINE new == Turn(l)
           a == CollapseDepth(l)
           b == CollapseDepth(new)
           StopsOld(d) == d < Len(l) => Rank(Merge(SubSeq(l, 1, d))) < Rank(l[d + 1])
           StopsNew(d) == d < Len(new) => Rank(Merge(SubSeq(new, 1, d))) < Rank(new[d + 1])
<1>1. Len(l) \in Nat
  BY LenProperties
<1>2. /\ new \in Seq(Blocks)
      /\ Len(new) = Len(l) - 1
      /\ \A i \in 2 .. Len(l) - 1 : new[i] = l[i + 1]
  BY TurnProperties
<1>3. l # << >> /\ new # << >>
  BY <1>1, <1>2, EmptySeq
<1>4. a \in 1 .. Len(l) /\ StopsOld(a) /\ \A d \in 1 .. a - 1 : ~ StopsOld(d)
  BY <1>3, CollapseDepthProperties
<1> HIDE DEF new
<1>5. b \in 1 .. Len(new) /\ StopsNew(b) /\ \A d \in 1 .. b - 1 : ~ StopsNew(d)
  BY <1>2, <1>3, CollapseDepthProperties
<1>6. ~ StopsOld(1)
  BY <1>1, <1>3, MergeOfFirst
<1>7. ASSUME NEW d \in 1 .. Len(l) - 1
      PROVE  /\ Merge(SubSeq(new, 1, d)) = Merge(SubSeq(l, 1, d + 1))
             /\ StopsNew(d) <=> StopsOld(d + 1)
  <2>1. Merge(SubSeq(new, 1, d)) = Merge(SubSeq(l, 1, d + 1))
    BY TurnPrefix DEF new
  <2>2. d < Len(new) <=> d + 1 < Len(l)
    BY <1>1, <1>2
  <2>3. d < Len(new) => new[d + 1] = l[(d + 1) + 1]
    <3>1. d < Len(new) => d + 1 \in 2 .. Len(l) - 1
      BY <1>1, <1>2
    <3> QED
      BY <1>2, <3>1
  <2> QED
    BY <2>1, <2>2, <2>3
<1> HIDE DEF a, b, StopsOld, StopsNew
<1>8. a = b + 1
  <2>1. a # 1 /\ a - 1 \in 1 .. Len(l) - 1 /\ (a - 1) + 1 = a
    <3>1. a # 1
      BY <1>4, <1>6
    <3> QED
      BY <1>1, <1>4, <3>1
  <2>2. b \in 1 .. Len(l) - 1
    BY <1>2, <1>5
  <2>3. StopsNew(a - 1)
    BY <1>4, <1>7, <2>1
  <2>4. StopsOld(b + 1)
    BY <1>5, <1>7, <2>2
  <2>5. a - 1 \notin 1 .. b - 1
    BY <1>5, <2>3
  <2>6. b + 1 \notin 1 .. a - 1
    BY <1>4, <2>4
  <2> QED
    BY <1>1, <1>4, <2>1, <2>2, <2>5, <2>6
<1> DEFINE s == MergeFirst(new, b)
           t == MergeFirst(l, a)
<1>9. /\ s \in Seq(Blocks)
      /\ Len(s) = Len(new) - b + 1
      /\ s[1] = Merge(SubSeq(new, 1, b))
      /\ \A i \in 2 .. Len(new) - b + 1 : s[i] = new[i + b - 1]
  BY <1>2, <1>5, MergeFirstProperties
<1>10. /\ t \in Seq(Blocks)
       /\ Len(t) = Len(l) - a + 1
       /\ t[1] = Merge(SubSeq(l, 1, a))
       /\ \A i \in 2 .. Len(l) - a + 1 : t[i] = l[i + a - 1]
  BY <1>4, MergeFirstProperties
<1>11. Collapse(new) = s /\ Collapse(l) = t
  BY <1>2, <1>3, CollapseProperties DEF a, b
<1> HIDE DEF s, t
<1>12. b \in 1 .. Len(l) - 1 /\ Len(s) = Len(l) - b /\ Len(t) = Len(l) - b
  BY <1>1, <1>2, <1>5, <1>8, <1>9, <1>10
<1>13. ASSUME NEW i \in 1 .. Len(l) - b PROVE s[i] = t[i]
  <2>1. CASE i = 1
    BY <1>7, <1>8, <1>9, <1>10, <1>12, <2>1
  <2>2. CASE i # 1
    <3>1. /\ i \in 2 .. Len(new) - b + 1
          /\ i \in 2 .. Len(l) - a + 1
          /\ i + b - 1 \in 2 .. Len(l) - 1
          /\ (i + b - 1) + 1 = i + a - 1
      BY <1>1, <1>2, <1>8, <1>12, <2>2
    <3>2. s[i] = new[i + b - 1] /\ t[i] = l[i + a - 1]
      BY <1>9, <1>10, <3>1
    <3>3. new[i + b - 1] = l[(i + b - 1) + 1]
      BY <1>2, <3>1
    <3> QED
      BY <3>1, <3>2, <3>3
  <2> QED
    BY <2>1, <2>2
<1>14. s = t
  BY <1>9, <1>10, <1>12, <1>13, SeqEqual
<1> QED
  BY <1>11, <1>14 DEF new

(* Where the loop ends, nothing is left to do. *)
LEMMA EndIsCollapsed ==
    ASSUME NEW l \in Seq(Blocks), l # << >>, Len(l) > 1 => Rank(l[1]) < Rank(l[2])
    PROVE  Collapse(l) = l
<1> DEFINE a == CollapseDepth(l)
           StopsOld(d) == d < Len(l) => Rank(Merge(SubSeq(l, 1, d))) < Rank(l[d + 1])
           t == MergeFirst(l, 1)
<1>1. Len(l) \in Nat \ {0} /\ 1 \in 1 .. Len(l)
  BY EmptySeq
<1>2. a \in 1 .. Len(l) /\ \A d \in 1 .. a - 1 : ~ StopsOld(d)
  BY CollapseDepthProperties
<1>3. Merge(SubSeq(l, 1, 1)) = l[1]
  BY MergeOfFirst
<1>4. StopsOld(1)
  BY <1>1, <1>3
<1> HIDE DEF StopsOld
<1>5. Collapse(l) = MergeFirst(l, a)
  BY CollapseProperties
<1> HIDE DEF a
<1>6. a = 1
  <2>1. 1 \notin 1 .. a - 1
    BY <1>2, <1>4
  <2> QED
    BY <1>1, <1>2, <2>1
<1>7. /\ t \in Seq(Blocks)
      /\ Len(t) = Len(l) - 1 + 1
      /\ t[1] = l[1]
      /\ \A i \in 2 .. Len(l) - 1 + 1 : t[i] = l[i + 1 - 1]
  BY <1>1, <1>3, MergeFirstProperties
<1>8. Collapse(l) = t
  BY <1>5, <1>6
<1> HIDE DEF t
<1>9. Len(t) = Len(l)
  BY <1>1, <1>7
<1>10. ASSUME NEW i \in 1 .. Len(l) PROVE t[i] = l[i]
  <2>1. CASE i = 1
    BY <1>7, <2>1
  <2>2. CASE i # 1
    <3>1. i \in 2 .. Len(l) - 1 + 1 /\ i + 1 - 1 = i
      BY <1>1, <2>2
    <3> QED
      BY <1>7, <3>1
  <2> QED
    BY <2>1, <2>2
<1>11. t = l
  BY <1>7, <1>9, <1>10, SeqEqual
<1> QED
  BY <1>8, <1>11

(* The loop always has a head. *)
LoopHasHead == pc = "loop" => list # << >>

LEMMA LoopHasHeadStep == TypeOK /\ LoopHasHead /\ [Next]_vars => LoopHasHead'
<1> SUFFICES ASSUME TypeOK, LoopHasHead, [Next]_vars, pc' = "loop" PROVE list' # << >>
  BY DEF LoopHasHead
<1>1. list \in Seq(Blocks) /\ Len(list) \in Nat
  BY LenProperties DEF TypeOK
<1>2. ASSUME NEW S \in SUBSET Keys, AppendStorage(S) PROVE list' # << >>
  <2> DEFINE block == BlockOf(S, appends + 1)
             new == <<block>> \o list
  <2>1. list' = new
    BY <1>2 DEF AppendStorage
  <2>2. block \in Blocks
    BY BlockOfProperties DEF TypeOK
  <2> HIDE DEF block
  <2>3. new \in Seq(Blocks) /\ Len(new) = Len(list) + 1
    BY <1>1, <2>2, PushProperties
  <2> HIDE DEF new
  <2> QED
    BY <1>1, <2>1, <2>3, EmptySeq
<1>3. CASE MergeHead
  <2>1. list' = Turn(list) /\ Len(list) > 1
    BY <1>1, <1>3 DEF MergeHead, LoopEnds, Turn
  <2>2. Turn(list) \in Seq(Blocks) /\ Len(Turn(list)) = Len(list) - 1
    BY <1>1, <2>1, TurnProperties
  <2> QED
    BY <1>1, <2>1, <2>2, EmptySeq
<1> QED
  BY <1>2, <1>3 DEF Next, MergeFails, Return, vars, LoopHasHead

(* Turn by turn the loop computes Collapse: no turn changes what the whole  *)
(* collapse amounts to, and when the loop returns it has been reached.      *)
THEOREM LoopAlwaysComputesCollapse == Spec => LoopComputesCollapse
<1>1. Init => LoopHasHead
  BY DEF Init, LoopHasHead
<1>2. ASSUME TypeOK, LoopHasHead, [Next]_vars, pc = "loop", failures' = failures
      PROVE  \/ UNCHANGED vars
             \/ /\ Collapse(list') = Collapse(list)
                /\ pc' = "idle" => list' = Collapse(list)
  <2>1. list \in Seq(Blocks) /\ Len(list) \in Nat /\ list # << >> /\ failures \in Nat
    BY <1>2, LenProperties DEF TypeOK, LoopHasHead
  <2>2. CASE MergeHead
    <3>1. /\ list' = Turn(list) /\ Len(list) > 1 /\ pc' = "loop"
          /\ ~ (Rank(list[1]) < Rank(list[2]))
      BY <1>2, <2>1, <2>2 DEF MergeHead, LoopEnds, Turn
    <3> QED
      BY <2>1, <3>1, TurnCollapses
  <2>3. CASE Return
    <3>1. list' = list /\ (Len(list) > 1 => Rank(list[1]) < Rank(list[2]))
      BY <2>3 DEF Return, LoopEnds
    <3> QED
      BY <2>1, <3>1, EndIsCollapsed
  <2>4. ~ MergeFails
    BY <1>2, <2>1 DEF MergeFails
  <2> QED
    BY <1>2, <2>2, <2>3, <2>4 DEF Next, AppendStorage
<1>3. TypeOK /\ LoopHasHead /\ [Next]_vars =>
          [pc = "loop" /\ failures' = failures =>
              /\ Collapse(list') = Collapse(list)
              /\ pc' = "idle" => list' = Collapse(list)]_vars
  BY <1>2
<1> QED
  BY <1>1, <1>3, LoopHasHeadStep, TypeCorrect, PTL DEF Spec, LoopComputesCollapse

=============================================================================
