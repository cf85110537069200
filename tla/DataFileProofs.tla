--------------------------- MODULE DataFileProofs ---------------------------
(***************************************************************************)
(* Facts about the operators of BlockList and of DataFile, for every       *)
(* finite set of keys, every batch size, every list of blocks and every    *)
(* sequence of records: what find, a merge and the collapse of a list      *)
(* return, the ranks of a list, the last position of a key, the order of   *)
(* the keys, what a shrink keeps and what an exported index holds.         *)
(***************************************************************************)
EXTENDS DataFile, WellFoundedInduction, SequenceTheorems, FiniteSetTheorems, TLAPS

-----------------------------------------------------------------------------
(* Lists of blocks. *)

(* A set of naturals that is not empty has a least element.  The sets 0..n *)
(* are well-founded under inclusion, so one of them is minimal.            *)
LEMMA MinProperties ==
    ASSUME NEW S \in SUBSET Nat, S # {}
    PROVE  /\ Min(S) \in S
           /\ \A n \in S : Min(S) <= n
<1> DEFINE T == {0 .. n : n \in S}
<1>1. T \subseteq FiniteSubsetsOf(Nat) /\ T # {}
  <2> SUFFICES ASSUME NEW n \in S PROVE 0 .. n \in FiniteSubsetsOf(Nat)
    OBVIOUS
  <2> QED
    BY FS_Interval DEF FiniteSubsetsOf
<1>2. PICK X \in T : \A Y \in T : <<Y, X>> \notin StrictSubsetOrdering(Nat)
  <2> HIDE DEF T
  <2> QED
    BY <1>1, WFMin, FS_StrictSubsetOrderingWellFounded, Zenon
<1>3. PICK x \in S : X = 0 .. x
  OBVIOUS
<1>4. \A y \in S : x <= y
  <2> SUFFICES ASSUME NEW y \in S, y < x PROVE FALSE
    OBVIOUS
  <2>1. <<0 .. y, 0 .. x>> \notin StrictSubsetOrdering(Nat)
    BY <1>2, <1>3
  <2>2. x \in 0 .. x /\ x \notin 0 .. y
    OBVIOUS
  <2>3. 0 .. y \subseteq 0 .. x /\ 0 .. y # 0 .. x
    BY <2>2
  <2>4. 0 .. y \in SUBSET Nat /\ 0 .. x \in SUBSET Nat
    OBVIOUS
  <2> QED
    BY <2>1, <2>3, <2>4 DEF StrictSubsetOrdering
<1> QED
  BY <1>4 DEF Min

-----------------------------------------------------------------------------

(* find returns the index of the first block that holds the key. *)
LEMMA FindFirst ==
    ASSUME NEW list \in Seq(Blocks), NEW k \in Keys, NEW i \in 1 .. Len(list),
           list[i][k] # NoIndex,
           \A j \in 1 .. i - 1 : list[j][k] = NoIndex
    PROVE  Find(list, k) = list[i][k]
<1>1. i \in Holders(list, k) /\ Holders(list, k) \in SUBSET Nat
  BY LenProperties DEF Holders
<1>2. \A j \in Holders(list, k) : j \in 1 .. Len(list) /\ ~ (j < i)
  BY LenProperties DEF Holders
<1>3. Min(Holders(list, k)) = i
  BY <1>1, <1>2, MinProperties
<1> QED
  BY <1>1, <1>3 DEF Find

(* find returns nothing when no block holds the key. *)
LEMMA FindNone ==
    ASSUME NEW list \in Seq(Blocks), NEW k \in Keys,
           \A j \in 1 .. Len(list) : list[j][k] = NoIndex
    PROVE  Find(list, k) = NoIndex
BY LenProperties DEF Find, Holders

(* Every list has one of the two forms the lemmas above speak of. *)
LEMMA FindCases ==
    ASSUME NEW list \in Seq(Blocks), NEW k \in Keys
    PROVE  \/ \A j \in 1 .. Len(list) : list[j][k] = NoIndex
           \/ \E i \in 1 .. Len(list) :
                 /\ list[i][k] # NoIndex
                 /\ \A j \in 1 .. i - 1 : list[j][k] = NoIndex
<1>1. Holders(list, k) \in SUBSET Nat /\ DOMAIN list = 1 .. Len(list)
  BY LenProperties DEF Holders
<1>2. CASE Holders(list, k) = {}
  BY <1>1, <1>2 DEF Holders
<1>3. CASE Holders(list, k) # {}
  <2> DEFINE i == Min(Holders(list, k))
  <2>1. i \in Holders(list, k) /\ \A j \in Holders(list, k) : i <= j
    BY <1>1, <1>3, MinProperties
  <2>2. ASSUME NEW j \in 1 .. i - 1 PROVE list[j][k] = NoIndex
    <3>1. i \in 1 .. Len(list) /\ Len(list) \in Nat
      BY <1>1, <2>1, LenProperties DEF Holders
    <3>2. j \in DOMAIN list /\ ~ (i <= j)
      BY <1>1, <3>1
    <3> QED
      BY <2>1, <3>2 DEF Holders
  <2> QED
    BY <1>1, <2>1, <2>2 DEF Holders
<1> QED
  BY <1>2, <1>3

LEMMA FindType ==
    ASSUME NEW list \in Seq(Blocks), NEW k \in Keys
    PROVE  Find(list, k) \in Nat \cup {NoIndex}
<1>1. \A i \in 1 .. Len(list) : list[i] \in Blocks
  BY ElementOfSeq
<1>2. CASE \A j \in 1 .. Len(list) : list[j][k] = NoIndex
  BY <1>2, FindNone
<1>3. CASE \E i \in 1 .. Len(list) :
              /\ list[i][k] # NoIndex
              /\ \A j \in 1 .. i - 1 : list[j][k] = NoIndex
  BY <1>1, <1>3, FindFirst DEF Blocks
<1> QED
  BY <1>2, <1>3, FindCases

(* Two lists end to end are searched one after the other. *)
LEMMA FindConcat ==
    ASSUME NEW s \in Seq(Blocks), NEW t \in Seq(Blocks), NEW k \in Keys
    PROVE  Find(s \o t, k) =
               IF Find(s, k) # NoIndex THEN Find(s, k) ELSE Find(t, k)
<1> DEFINE both == s \o t
<1>1. /\ both \in Seq(Blocks)
      /\ Len(both) = Len(s) + Len(t)
      /\ Len(s) \in Nat
      /\ Len(t) \in Nat
      /\ \A i \in 1 .. Len(s) : both[i] = s[i]
      /\ \A i \in 1 .. Len(t) : both[Len(s) + i] = t[i]
  BY ConcatProperties, LenProperties
<1> HIDE DEF both
<1>2. CASE \E i \in 1 .. Len(s) :
              /\ s[i][k] # NoIndex
              /\ \A j \in 1 .. i - 1 : s[j][k] = NoIndex
  <2>1. PICK i \in 1 .. Len(s) :
            /\ s[i][k] # NoIndex
            /\ \A j \in 1 .. i - 1 : s[j][k] = NoIndex
    BY <1>2
  <2>2. i \in 1 .. Len(both) /\ \A j \in 1 .. i - 1 : both[j][k] = NoIndex
    BY <1>1, <2>1
  <2>3. Find(both, k) = s[i][k]
    <3>1. both \in Seq(Blocks) /\ both[i] = s[i] /\ both[i][k] # NoIndex
      BY <1>1, <2>1
    <3> QED
      BY <2>2, <3>1, FindFirst
  <2> QED
    BY <2>1, <2>3, FindFirst DEF both
<1>3. CASE \A j \in 1 .. Len(s) : s[j][k] = NoIndex
  <2>1. Find(s, k) = NoIndex
    BY <1>3, FindNone
  <2>2. ASSUME NEW j \in 1 .. Len(both)
        PROVE  \/ both[j][k] = NoIndex
               \/ j - Len(s) \in 1 .. Len(t) /\ both[j] = t[j - Len(s)]
    <3>1. j \in 1 .. Len(s) \/ j - Len(s) \in 1 .. Len(t)
      BY <1>1
    <3>2. j = Len(s) + (j - Len(s))
      BY <1>1
    <3> QED
      BY <1>1, <1>3, <3>1, <3>2
  <2>3. CASE \A j \in 1 .. Len(t) : t[j][k] = NoIndex
    BY <1>1, <2>1, <2>2, <2>3, FindNone DEF both
  <2>4. CASE \E i \in 1 .. Len(t) :
                /\ t[i][k] # NoIndex
                /\ \A j \in 1 .. i - 1 : t[j][k] = NoIndex
    <3>1. PICK i \in 1 .. Len(t) :
              /\ t[i][k] # NoIndex
              /\ \A j \in 1 .. i - 1 : t[j][k] = NoIndex
      BY <2>4
    <3>2. Len(s) + i \in 1 .. Len(both) /\ both[Len(s) + i][k] # NoIndex
      BY <1>1, <3>1
    <3>3. ASSUME NEW j \in 1 .. (Len(s) + i) - 1 PROVE both[j][k] = NoIndex
      <4>1. j \in 1 .. Len(both) /\ (j - Len(s) \in 1 .. Len(t) => j - Len(s) \in 1 .. i - 1)
        BY <1>1, <3>1
      <4> QED
        BY <2>2, <3>1, <4>1
    <3>4. Find(both, k) = both[Len(s) + i][k]
      BY <1>1, <3>2, <3>3, FindFirst
    <3> QED
      BY <1>1, <2>1, <3>1, <3>4, FindFirst DEF both
  <2> QED
    BY <2>3, <2>4, FindCases
<1> QED
  BY <1>2, <1>3, FindCases

LEMMA FindSingle ==
    ASSUME NEW block \in Blocks, NEW k \in Keys
    PROVE  Find(<<block>>, k) = block[k]
<1> DEFINE list == <<block>>
<1>1. list \in Seq(Blocks) /\ Len(list) = 1 /\ list[1] = block
  OBVIOUS
<1> HIDE DEF list
<1>2. CASE block[k] = NoIndex
  <2>1. \A j \in 1 .. Len(list) : list[j][k] = NoIndex
    BY <1>1, <1>2
  <2> QED
    BY <1>1, <1>2, <2>1, FindNone DEF list
<1>3. CASE block[k] # NoIndex
  <2>1. 1 \in 1 .. Len(list) /\ \A j \in 1 .. 1 - 1 : list[j][k] = NoIndex
    BY <1>1
  <2> QED
    BY <1>1, <1>3, <2>1, FindFirst DEF list
<1> QED
  BY <1>2, <1>3

-----------------------------------------------------------------------------

(* A merge is a block, and holds what is found in the blocks merged. *)
LEMMA MergeProperties ==
    ASSUME NEW list \in Seq(Blocks)
    PROVE  /\ Merge(list) \in Blocks
           /\ \A k \in Keys : Merge(list)[k] = Find(list, k)
BY FindType DEF Merge, Blocks

(* The loop of append stops, and at the first depth where it may. *)
LEMMA CollapseDepthProperties ==
    ASSUME NEW list \in Seq(Blocks), list # << >>
    PROVE  LET Stops(d) == d < Len(list) =>
                     Rank(Merge(SubSeq(list, 1, d))) < Rank(list[d + 1])
           IN  /\ CollapseDepth(list) \in 1 .. Len(list)
               /\ Stops(CollapseDepth(list))
               /\ \A d \in 1 .. CollapseDepth(list) - 1 : ~ Stops(d)
<1> DEFINE Stops(d) == d < Len(list) =>
               Rank(Merge(SubSeq(list, 1, d))) < Rank(list[d + 1])
           D == {d \in 1 .. Len(list) : Stops(d)}
<1>1. Len(list) \in Nat \ {0}
  BY EmptySeq
<1>2. D \in SUBSET Nat /\ Len(list) \in D
  BY <1>1
<1>3. CollapseDepth(list) = Min(D)
  BY DEF CollapseDepth
<1>4. Min(D) \in D /\ \A d \in D : Min(D) <= d
  <2> HIDE DEF D
  <2> QED
    BY <1>2, MinProperties
<1>5. Min(D) \in 1 .. Len(list) /\ Stops(Min(D))
  BY <1>4
<1>6. ASSUME NEW d \in 1 .. Min(D) - 1 PROVE ~ Stops(d)
  <2>1. d \in 1 .. Len(list) /\ ~ (Min(D) <= d)
    <3> HIDE DEF D
    <3> QED
      BY <1>1, <1>5
  <2>2. d \notin D
    BY <1>4, <2>1
  <2> QED
    BY <2>1, <2>2
<1> HIDE DEF D
<1> QED
  BY <1>3, <1>5, <1>6

(* The two parts a collapse makes of a list. *)
LEMMA CutProperties ==
    ASSUME NEW list \in Seq(Blocks), NEW d \in 1 .. Len(list)
    PROVE  /\ SubSeq(list, 1, d) \in Seq(Blocks)
           /\ Len(SubSeq(list, 1, d)) = d
           /\ \A i \in 1 .. d : SubSeq(list, 1, d)[i] = list[i]
           /\ SubSeq(list, d + 1, Len(list)) \in Seq(Blocks)
           /\ Len(SubSeq(list, d + 1, Len(list))) = Len(list) - d
           /\ \A i \in 1 .. Len(list) - d :
                  SubSeq(list, d + 1, Len(list))[i] = list[d + i]
           /\ SubSeq(list, 1, d) \o SubSeq(list, d + 1, Len(list)) = list
<1>1. /\ Len(list) \in Nat
      /\ \A i \in 1 .. Len(list) : list[i] \in Blocks
  BY LenProperties, ElementOfSeq
<1>2. /\ \A i \in 1 .. d : list[i] \in Blocks
      /\ \A i \in d + 1 .. Len(list) : list[i] \in Blocks
  BY <1>1
<1>3. /\ SubSeq(list, 1, d) \in Seq(Blocks)
      /\ Len(SubSeq(list, 1, d)) = d
      /\ \A i \in 1 .. d : SubSeq(list, 1, d)[i] = list[i]
  <2>1. /\ SubSeq(list, 1, d) \in Seq(Blocks)
        /\ Len(SubSeq(list, 1, d)) = IF 1 <= d THEN d - 1 + 1 ELSE 0
        /\ \A i \in 1 .. d - 1 + 1 : SubSeq(list, 1, d)[i] = list[1 + i - 1]
    BY <1>2, SubSeqProperties
  <2> QED
    BY <2>1
<1>4. /\ SubSeq(list, d + 1, Len(list)) \in Seq(Blocks)
      /\ Len(SubSeq(list, d + 1, Len(list))) = Len(list) - d
      /\ \A i \in 1 .. Len(list) - d :
             SubSeq(list, d + 1, Len(list))[i] = list[d + i]
  <2> DEFINE e == d + 1
             n == Len(list)
  <2>1. e \in Int /\ n \in Int /\ \A i \in e .. n : list[i] \in Blocks
    BY <1>1, <1>2
  <2> HIDE DEF e, n
  <2>2. /\ SubSeq(list, e, n) \in Seq(Blocks)
        /\ Len(SubSeq(list, e, n)) = IF e <= n THEN n - e + 1 ELSE 0
        /\ \A i \in 1 .. n - e + 1 : SubSeq(list, e, n)[i] = list[e + i - 1]
    BY <2>1, SubSeqProperties
  <2>3. n - e + 1 = n - d /\ (IF e <= n THEN n - e + 1 ELSE 0) = n - d
    BY <1>1 DEF e, n
  <2>4. \A i \in 1 .. n - d : e + i - 1 = d + i
    BY <1>1 DEF e, n
  <2> QED
    BY <2>2, <2>3, <2>4 DEF e, n
<1>5. SubSeq(list, 1, d) \o SubSeq(list, d + 1, Len(list)) = list
  <2>1. SubSeq(list, 1, Len(list)) = list
    BY SubSeqFull
  <2>2. 1 \in 1 .. Len(list) + 1 /\ d \in 1 - 1 .. Len(list) /\ Len(list) \in d .. Len(list)
    BY <1>1
  <2> QED
    BY <2>1, <2>2, ConcatAdjacentSubSeq
<1> QED
  BY <1>3, <1>4, <1>5

(* A block put at the head of a list. *)
LEMMA PushProperties ==
    ASSUME NEW l \in Seq(Blocks), NEW block \in Blocks
    PROVE  /\ <<block>> \o l \in Seq(Blocks)
           /\ Len(<<block>> \o l) = Len(l) + 1
           /\ (<<block>> \o l)[1] = block
           /\ \A i \in 2 .. Len(l) + 1 : (<<block>> \o l)[i] = l[i - 1]
           /\ \A k \in Keys : Find(<<block>> \o l, k) =
                  IF block[k] # NoIndex THEN block[k] ELSE Find(l, k)
<1> DEFINE head == <<block>>
           both == head \o l
<1>1. /\ head \in Seq(Blocks) /\ Len(head) = 1 /\ head[1] = block
      /\ Len(l) \in Nat
  BY LenProperties
<1>2. \A k \in Keys : Find(head, k) = block[k]
  BY FindSingle
<1> HIDE DEF head
<1>3. \A k \in Keys : Find(both, k) =
          IF Find(head, k) # NoIndex THEN Find(head, k) ELSE Find(l, k)
  BY <1>1, FindConcat
<1>4. /\ both \in Seq(Blocks)
      /\ Len(both) = Len(head) + Len(l)
      /\ \A i \in 1 .. Len(head) + Len(l) :
             both[i] = IF i <= Len(head) THEN head[i] ELSE l[i - Len(head)]
  BY <1>1, ConcatProperties
<1> HIDE DEF both
<1>5. Len(both) = Len(l) + 1 /\ both[1] = block
  BY <1>1, <1>4
<1>6. ASSUME NEW i \in 2 .. Len(l) + 1 PROVE both[i] = l[i - 1]
  BY <1>1, <1>4
<1>7. \A k \in Keys : Find(both, k) =
          IF block[k] # NoIndex THEN block[k] ELSE Find(l, k)
  BY <1>2, <1>3
<1> QED
  BY <1>4, <1>5, <1>6, <1>7 DEF both, head

(* The list after its first d blocks have been merged into one. *)
MergeFirst(list, d) ==
    <<Merge(SubSeq(list, 1, d))>> \o SubSeq(list, d + 1, Len(list))

(* A merge loses no key and keeps the newest index of each, at whatever     *)
(* depth it stops: blocks are merged only with their neighbours, the newer  *)
(* one winning.                                                             *)
LEMMA MergeFirstProperties ==
    ASSUME NEW list \in Seq(Blocks), NEW d \in 1 .. Len(list)
    PROVE  /\ MergeFirst(list, d) \in Seq(Blocks)
           /\ Len(MergeFirst(list, d)) = Len(list) - d + 1
           /\ MergeFirst(list, d)[1] = Merge(SubSeq(list, 1, d))
           /\ \A i \in 2 .. Len(list) - d + 1 :
                  MergeFirst(list, d)[i] = list[i + d - 1]
           /\ \A k \in Keys : Find(MergeFirst(list, d), k) = Find(list, k)
<1> DEFINE front == SubSeq(list, 1, d)
           back == SubSeq(list, d + 1, Len(list))
           new == <<Merge(front)>> \o back
<1>1. Len(list) \in Nat
  BY LenProperties
<1>2. /\ front \in Seq(Blocks)
      /\ back \in Seq(Blocks)
      /\ Len(back) = Len(list) - d
      /\ \A i \in 1 .. Len(list) - d : back[i] = list[d + i]
      /\ front \o back = list
  BY CutProperties
<1> HIDE DEF front, back
<1>3. Merge(front) \in Blocks /\ \A k \in Keys : Merge(front)[k] = Find(front, k)
  BY <1>2, MergeProperties
<1>4. /\ new \in Seq(Blocks)
      /\ Len(new) = Len(back) + 1
      /\ new[1] = Merge(front)
      /\ \A i \in 2 .. Len(back) + 1 : new[i] = back[i - 1]
      /\ \A k \in Keys : Find(new, k) =
             IF Merge(front)[k] # NoIndex THEN Merge(front)[k] ELSE Find(back, k)
  BY <1>2, <1>3, PushProperties
<1> HIDE DEF new
<1>5. ASSUME NEW i \in 2 .. Len(list) - d + 1 PROVE new[i] = list[i + d - 1]
  <2>1. i - 1 \in 1 .. Len(list) - d /\ d + (i - 1) = i + d - 1
    BY <1>1
  <2> QED
    BY <1>1, <1>2, <1>4, <2>1
<1>6. ASSUME NEW k \in Keys PROVE Find(new, k) = Find(list, k)
  <2>1. Find(list, k) =
            IF Find(front, k) # NoIndex THEN Find(front, k) ELSE Find(back, k)
    BY <1>2, FindConcat
  <2> QED
    BY <1>3, <1>4, <2>1
<1>7. Len(new) = Len(list) - d + 1
  BY <1>1, <1>2, <1>4
<1>8. MergeFirst(list, d) = new
  BY DEF MergeFirst, new, front, back
<1> QED
  BY <1>4, <1>5, <1>6, <1>7, <1>8 DEF front

LEMMA CollapseProperties ==
    ASSUME NEW list \in Seq(Blocks), list # << >>
    PROVE  /\ Collapse(list) = MergeFirst(list, CollapseDepth(list))
           /\ Collapse(list) \in Seq(Blocks)
           /\ Len(Collapse(list)) = Len(list) - CollapseDepth(list) + 1
           /\ Collapse(list)[1] = Merge(SubSeq(list, 1, CollapseDepth(list)))
           /\ \A i \in 2 .. Len(Collapse(list)) :
                  Collapse(list)[i] = list[i + CollapseDepth(list) - 1]
           /\ \A k \in Keys : Find(Collapse(list), k) = Find(list, k)
<1>1. CollapseDepth(list) \in 1 .. Len(list)
  BY CollapseDepthProperties
<1>2. Collapse(list) = MergeFirst(list, CollapseDepth(list))
  BY DEF Collapse, MergeFirst
<1> QED
  BY <1>1, <1>2, MergeFirstProperties

(* After append a key is found in the new block if the block holds it, and  *)
(* as before otherwise.                                                     *)
LEMMA AppendBlockProperties ==
    ASSUME NEW list \in Seq(Blocks), NEW block \in Blocks
    PROVE  /\ AppendBlock(list, block) \in Seq(Blocks)
           /\ \A k \in Keys :
                  Find(AppendBlock(list, block), k) =
                      IF block[k] # NoIndex THEN block[k] ELSE Find(list, k)
<1> DEFINE head == <<block>>
           longer == head \o list
<1>1. head \in Seq(Blocks) /\ head # << >> /\ \A k \in Keys : Find(head, k) = block[k]
  BY FindSingle
<1> HIDE DEF head
<1>2. longer \in Seq(Blocks) /\ longer # << >>
  BY <1>1, ConcatProperties, ConcatEqualIffEmpty
<1>3. \A k \in Keys : Find(longer, k) =
          IF block[k] # NoIndex THEN block[k] ELSE Find(list, k)
  BY <1>1, FindConcat
<1> HIDE DEF longer
<1>4. AppendBlock(list, block) = Collapse(longer)
  BY DEF AppendBlock, longer, head
<1> QED
  BY <1>2, <1>3, <1>4, CollapseProperties

-----------------------------------------------------------------------------
(* Ranks. *)

(* A block that holds a key has between one batch and as many batches as    *)
(* there are keys, so that its rank is a number Log2 is known for.          *)
LEMMA RankType ==
    ASSUME NEW block \in Blocks, KeysOf(block) # {}
    PROVE  Rank(block) \in Nat
<1> DEFINE n == Cardinality(KeysOf(block))
           batches == (n + BatchSize - 1) \div BatchSize
<1>1. /\ IsFiniteSet(KeysOf(block))
      /\ n \in Nat \ {0}
      /\ n <= Cardinality(Keys)
      /\ Cardinality(Keys) \in Nat
  <2>1. KeysOf(block) \in SUBSET Keys
    BY DEF KeysOf
  <2> QED
    BY <2>1, KeysAssumption, FS_Subset, FS_CardinalityType, FS_EmptySet
<1> HIDE DEF n
<1>2. batches \in 1 .. n
  BY <1>1, BatchAssumption, Z3
<1>3. batches \in 1 .. Cardinality(Keys)
  BY <1>1, <1>2
<1> QED
  BY <1>3, Log2Assumption DEF Rank, n

(* A merge holds at least the keys of the newest block merged. *)
LEMMA MergeHolds ==
    ASSUME NEW list \in Seq(Blocks), list # << >>
    PROVE  KeysOf(list[1]) \subseteq KeysOf(Merge(list))
<1> SUFFICES ASSUME NEW k \in KeysOf(list[1]) PROVE k \in KeysOf(Merge(list))
  OBVIOUS
<1>1. k \in Keys /\ list[1][k] # NoIndex
  BY DEF KeysOf
<1>2. 1 \in 1 .. Len(list) /\ \A j \in 1 .. 1 - 1 : list[j][k] = NoIndex
  BY EmptySeq
<1>3. Find(list, k) # NoIndex
  BY <1>1, <1>2, FindFirst
<1> QED
  BY <1>1, <1>3, MergeProperties DEF KeysOf

LEMMA MergeFirstHolds ==
    ASSUME NEW list \in Seq(Blocks), NEW d \in 1 .. Len(list),
           \A i \in DOMAIN list : KeysOf(list[i]) # {}
    PROVE  \A i \in DOMAIN MergeFirst(list, d) : KeysOf(MergeFirst(list, d)[i]) # {}
<1> DEFINE front == SubSeq(list, 1, d)
           new == MergeFirst(list, d)
<1>1. Len(list) \in Nat /\ DOMAIN list = 1 .. Len(list)
  BY LenProperties
<1>2. /\ new \in Seq(Blocks)
      /\ Len(new) = Len(list) - d + 1
      /\ new[1] = Merge(front)
      /\ \A i \in 2 .. Len(list) - d + 1 : new[i] = list[i + d - 1]
  BY MergeFirstProperties
<1>3. /\ front \in Seq(Blocks)
      /\ Len(front) = d
      /\ \A i \in 1 .. d : front[i] = list[i]
  BY CutProperties
<1> HIDE DEF front, new
<1>4. KeysOf(Merge(front)) # {}
  <2>1. front # << >> /\ front[1] = list[1] /\ 1 \in DOMAIN list
    BY <1>1, <1>3, EmptySeq
  <2>2. KeysOf(front[1]) \subseteq KeysOf(Merge(front))
    BY <1>3, <2>1, MergeHolds
  <2> QED
    BY <2>1, <2>2
<1>5. ASSUME NEW i \in DOMAIN new PROVE KeysOf(new[i]) # {}
  <2>1. i = 1 \/ (i \in 2 .. Len(list) - d + 1 /\ i + d - 1 \in 1 .. Len(list))
    BY <1>1, <1>2, LenProperties
  <2> QED
    BY <1>1, <1>2, <1>4, <2>1
<1> QED
  BY <1>5 DEF new

(* Append keeps the blocks not empty and the ranks strictly increasing: the *)
(* loop only stops where the head has a smaller rank than its successor.    *)
LEMMA AppendBlockRanks ==
    ASSUME NEW list \in Seq(Blocks), NEW block \in Blocks, KeysOf(block) # {},
           \A i \in DOMAIN list : KeysOf(list[i]) # {}
    PROVE  LET new == AppendBlock(list, block)
               Increase(l) == \A i, j \in DOMAIN l : i < j => Rank(l[i]) < Rank(l[j])
           IN  /\ \A i \in DOMAIN new : KeysOf(new[i]) # {}
               /\ Increase(list) => Increase(new)
<1> DEFINE longer == <<block>> \o list
           new == Collapse(longer)
           d == CollapseDepth(longer)
           merged == Merge(SubSeq(longer, 1, d))
           n == Len(list)
<1>1. n \in Nat /\ DOMAIN list = 1 .. n /\ \A i \in 1 .. n : list[i] \in Blocks
  BY LenProperties, ElementOfSeq
<1>2. /\ longer \in Seq(Blocks)
      /\ longer # << >>
      /\ Len(longer) = n + 1
      /\ longer[1] = block
      /\ \A i \in 2 .. n + 1 : longer[i] = list[i - 1]
  <2> DEFINE head == <<block>>
  <2>1. head \in Seq(Blocks) /\ head # << >> /\ Len(head) = 1 /\ head[1] = block
    OBVIOUS
  <2> HIDE DEF head
  <2>2. /\ head \o list \in Seq(Blocks)
        /\ head \o list # << >>
        /\ Len(head \o list) = 1 + n
        /\ \A i \in 1 .. 1 + n :
               (head \o list)[i] = IF i <= 1 THEN head[i] ELSE list[i - 1]
    BY <2>1, ConcatProperties, ConcatEqualIffEmpty
  <2>3. 1 \in 1 .. 1 + n /\ \A i \in 2 .. n + 1 : i \in 1 .. 1 + n /\ ~ (i <= 1)
    BY <1>1
  <2>4. longer = head \o list
    BY DEF head
  <2> HIDE DEF longer
  <2> QED
    BY <1>1, <2>1, <2>2, <2>3, <2>4
<1> HIDE DEF longer
<1>3. /\ d \in 1 .. n + 1
      /\ d < n + 1 => Rank(merged) < Rank(longer[d + 1])
  BY <1>2, CollapseDepthProperties
<1>4. /\ new \in Seq(Blocks)
      /\ Len(new) = n - d + 2
      /\ DOMAIN new = 1 .. n - d + 2
      /\ new[1] = merged
      /\ \A i \in 2 .. n - d + 2 : new[i] = longer[i + d - 1]
  <2>1. /\ new \in Seq(Blocks)
        /\ Len(new) = Len(longer) - d + 1
        /\ new[1] = merged
        /\ \A i \in 2 .. Len(new) : new[i] = longer[i + d - 1]
    BY <1>2, CollapseProperties
  <2>2. Len(longer) - d + 1 = n - d + 2
    BY <1>1, <1>2, <1>3
  <2> HIDE DEF new, d, merged
  <2>3. DOMAIN new = 1 .. Len(new)
    BY <2>1, LenProperties
  <2> QED
    BY <2>1, <2>2, <2>3
<1> HIDE DEF d, new
<1>5. ASSUME NEW i \in 2 .. n - d + 2
      PROVE  i + d - 2 \in 1 .. n /\ new[i] = list[i + d - 2]
  <2>1. i + d - 2 \in 1 .. n /\ i + d - 1 \in 2 .. n + 1 /\ (i + d - 1) - 1 = i + d - 2
    BY <1>1, <1>3
  <2> QED
    BY <1>2, <1>4, <2>1
<1>6. KeysOf(merged) # {} /\ merged \in Blocks
  <2> DEFINE front == SubSeq(longer, 1, d)
  <2>1. front \in Seq(Blocks) /\ Len(front) = d /\ front[1] = block
    <3>1. d \in 1 .. Len(longer)
      BY <1>2, <1>3
    <3>2. 1 \in 1 .. d
      BY <1>1, <1>3
    <3> QED
      BY <1>2, <3>1, <3>2, CutProperties
  <2> HIDE DEF front
  <2>2. front # << >>
    BY <1>1, <1>3, <2>1, EmptySeq
  <2>3. KeysOf(block) \subseteq KeysOf(Merge(front)) /\ Merge(front) \in Blocks
    BY <2>1, <2>2, MergeHolds, MergeProperties
  <2> QED
    BY <2>3 DEF front
<1> HIDE DEF merged
<1>7. \A i \in DOMAIN new : KeysOf(new[i]) # {} /\ new[i] \in Blocks
  <2> SUFFICES ASSUME NEW i \in DOMAIN new
               PROVE  KeysOf(new[i]) # {} /\ new[i] \in Blocks
    OBVIOUS
  <2>1. i = 1 \/ i \in 2 .. n - d + 2
    BY <1>1, <1>3, <1>4
  <2> QED
    BY <1>1, <1>4, <1>5, <1>6, <2>1
<1>8. ASSUME \A i, j \in DOMAIN list : i < j => Rank(list[i]) < Rank(list[j]),
             NEW i \in DOMAIN new, NEW j \in DOMAIN new, i < j
      PROVE  Rank(new[i]) < Rank(new[j])
  <2>1. j \in 2 .. n - d + 2 /\ (i = 1 \/ i \in 2 .. n - d + 2) /\ d < n + 1
    BY <1>1, <1>3, <1>4, <1>8
  <2>2. CASE i \in 2 .. n - d + 2
    <3>1. i + d - 2 < j + d - 2
      BY <1>1, <1>3, <1>8, <2>1, <2>2
    <3> QED
      BY <1>1, <1>5, <1>8, <2>1, <2>2, <3>1
  <2>3. CASE i = 1
    <3>1. Rank(merged) < Rank(list[d])
      <4>1. d + 1 \in 2 .. n + 1 /\ (d + 1) - 1 = d
        BY <1>1, <1>3, <2>1
      <4> QED
        BY <1>2, <1>3, <2>1, <4>1
    <3>2. d \in 1 .. n /\ j + d - 2 \in 1 .. n /\ (d = j + d - 2 \/ d < j + d - 2)
      BY <1>1, <1>3, <2>1
    <3>3. Rank(list[d]) = Rank(list[j + d - 2]) \/ Rank(list[d]) < Rank(list[j + d - 2])
      BY <1>1, <1>8, <3>2
    <3>4. /\ Rank(merged) \in Nat
          /\ Rank(list[d]) \in Nat
          /\ Rank(list[j + d - 2]) \in Nat
      BY <1>1, <1>6, <3>2, RankType
    <3>5. new[i] = merged /\ new[j] = list[j + d - 2]
      BY <1>4, <1>5, <2>1, <2>3
    <3> QED
      BY <3>1, <3>3, <3>4, <3>5
  <2> QED
    BY <2>1, <2>2, <2>3
<1>9. AppendBlock(list, block) = new
  BY DEF AppendBlock, new, longer
<1> QED
  BY <1>7, <1>8, <1>9

(* No block has a larger rank than one that holds every key. *)
LEMMA RankBound ==
    ASSUME NEW block \in Blocks, KeysOf(block) # {}
    PROVE  Rank(block) \in 0 .. Log2((Cardinality(Keys) + BatchSize - 1) \div BatchSize)
<1> DEFINE n == Cardinality(KeysOf(block))
           all == Cardinality(Keys)
           batches == (n + BatchSize - 1) \div BatchSize
           most == (all + BatchSize - 1) \div BatchSize
<1>1. n \in Nat \ {0} /\ n <= all /\ all \in Nat
  <2>1. KeysOf(block) \in SUBSET Keys
    BY DEF KeysOf
  <2> QED
    BY <2>1, KeysAssumption, FS_Subset, FS_CardinalityType, FS_EmptySet
<1> HIDE DEF n, all
<1>2. batches \in 1 .. n
  BY <1>1, BatchAssumption, Z3
<1>3. most \in 1 .. all
  BY <1>1, BatchAssumption, Z3
<1>4. batches <= most
  BY <1>1, BatchAssumption, Z3
<1> HIDE DEF batches, most
<1>5. batches \in 1 .. all
  BY <1>1, <1>2
<1>6. Log2(batches) \in Nat /\ Log2(most) \in Nat /\ Log2(batches) <= Log2(most)
  BY <1>3, <1>4, <1>5, Log2Assumption DEF all
<1>7. Log2(batches) \in 0 .. Log2(most)
  BY <1>6
<1> QED
  BY <1>7 DEF Rank, n, all, batches, most

(* Strictly increasing ranks are an injection into the ranks there are, so  *)
(* that the list has no more blocks than there are ranks.                   *)
LEMMA RanksBoundLength ==
    ASSUME NEW list \in Seq(Blocks), Keys # {},
           \A i \in DOMAIN list : KeysOf(list[i]) # {},
           \A i, j \in DOMAIN list : i < j => Rank(list[i]) < Rank(list[j])
    PROVE  Len(list) <= 1 + Log2((Cardinality(Keys) + BatchSize - 1) \div BatchSize)
<1> DEFINE S == 1 .. Len(list)
           top == Log2((Cardinality(Keys) + BatchSize - 1) \div BatchSize)
           T == 0 .. top
           f == [i \in S |-> Rank(list[i])]
<1>1. Len(list) \in Nat /\ DOMAIN list = S /\ \A i \in S : list[i] \in Blocks
  BY LenProperties, ElementOfSeq
<1>2. top \in Nat
  <2> DEFINE all == Cardinality(Keys)
             most == (all + BatchSize - 1) \div BatchSize
  <2>1. all \in Nat \ {0}
    BY KeysAssumption, FS_CardinalityType, FS_EmptySet
  <2> HIDE DEF all
  <2>2. most \in 1 .. all
    BY <2>1, BatchAssumption, Z3
  <2> HIDE DEF most
  <2>3. Log2(most) \in Nat
    BY <2>2, Log2Assumption DEF all
  <2> QED
    BY <2>3 DEF most, all
<1>3. \A i \in S : Rank(list[i]) \in T
  <2> HIDE DEF S
  <2> QED
    BY <1>1, RankBound
<1> HIDE DEF top
<1>4. IsFiniteSet(S) /\ Cardinality(S) = Len(list)
  BY <1>1, FS_Interval
<1>5. IsFiniteSet(T) /\ Cardinality(T) = top + 1
  BY <1>2, FS_Interval
<1>6. f \in [S -> T]
  BY <1>3
<1>7. ASSUME NEW i \in S, NEW j \in S, i # j PROVE f[i] # f[j]
  <2>1. f[i] \in Int /\ f[j] \in Int
    BY <1>2, <1>3
  <2>2. CASE i < j
    <3>1. Rank(list[i]) < Rank(list[j])
      BY <1>1, <2>2
    <3> QED
      BY <2>1, <3>1
  <2>3. CASE j < i
    <3>1. Rank(list[j]) < Rank(list[i])
      BY <1>1, <2>3
    <3> QED
      BY <2>1, <3>1
  <2> QED
    BY <1>1, <1>7, <2>2, <2>3
<1> HIDE DEF f, S, T
<1>8. ~ (Cardinality(T) < Cardinality(S))
  BY <1>4, <1>5, <1>6, <1>7, FS_PigeonHole
<1> QED
  BY <1>1, <1>2, <1>4, <1>5, <1>8 DEF top

-----------------------------------------------------------------------------
(* Positions. *)

(* A stored key has a last position. *)
LEMMA LastPositionProperties ==
    ASSUME NEW data \in Seq(Records), NEW k \in StoredKeys(data)
    PROVE  /\ LastPosition(data, k) \in 1 .. Len(data)
           /\ data[LastPosition(data, k)].key = k
           /\ \A j \in 1 .. Len(data) : data[j].key = k => j <= LastPosition(data, k)
<1>1. DOMAIN data = 1 .. Len(data) /\ Len(data) \in Nat
  BY LenProperties
<1> DEFINE P == {i \in 1 .. Len(data) : data[i].key = k}
           S == {Len(data) - i : i \in P}
<1>2. P # {} /\ S \in SUBSET Nat /\ S # {}
  BY <1>1 DEF StoredKeys
<1>3. PICK i \in P : Min(S) = Len(data) - i
  <2> HIDE DEF P
  <2>1. Min(S) \in S
    <3> HIDE DEF S
    <3> QED
      BY <1>2, MinProperties
  <2> QED
    BY <2>1
<1>4. ASSUME NEW j \in P PROVE j <= i
  <2>1. Min(S) <= Len(data) - j
    <3>1. Len(data) - j \in S
      OBVIOUS
    <3> HIDE DEF S
    <3> QED
      BY <1>2, <3>1, MinProperties
  <2>2. i \in Nat /\ j \in Nat
    BY <1>1
  <2> QED
    BY <1>1, <1>3, <2>1, <2>2
<1>5. \E p \in DOMAIN data :
          /\ data[p].key = k
          /\ \A j \in DOMAIN data : data[j].key = k => j <= p
  BY <1>1, <1>3, <1>4
<1> QED
  BY <1>1, <1>5 DEF LastPosition

(* A position that has the key, and after which no other has it, is it. *)
LEMMA LastPositionUnique ==
    ASSUME NEW data \in Seq(Records), NEW i \in 1 .. Len(data),
           \A j \in 1 .. Len(data) : data[j].key = data[i].key => j <= i
    PROVE  /\ data[i].key \in StoredKeys(data)
           /\ LastPosition(data, data[i].key) = i
<1>1. DOMAIN data = 1 .. Len(data) /\ Len(data) \in Nat
  BY LenProperties
<1>2. data[i].key \in StoredKeys(data)
  BY <1>1 DEF StoredKeys
<1>3. /\ LastPosition(data, data[i].key) \in 1 .. Len(data)
      /\ LastPosition(data, data[i].key) <= i
      /\ i <= LastPosition(data, data[i].key)
  BY <1>1, <1>2, LastPositionProperties
<1> QED
  BY <1>1, <1>2, <1>3

LEMMA StoredKeysType ==
    ASSUME NEW data \in Seq(Records)
    PROVE  StoredKeys(data) \in SUBSET Keys
<1>1. \A i \in DOMAIN data : data[i] \in Records
  BY LenProperties, ElementOfSeq
<1>2. \A i \in DOMAIN data : data[i].key \in Keys
  BY <1>1 DEF Records
<1> QED
  BY <1>2 DEF StoredKeys

LEMMA ExportKeysType ==
    ASSUME NEW data \in Seq(Records)
    PROVE  /\ ExportKeys(data) \in Blocks
           /\ KeysOf(ExportKeys(data)) = StoredKeys(data)
<1>1. \A k \in StoredKeys(data) : LastPosition(data, k) - 1 \in Nat
  BY LastPositionProperties, LenProperties
<1> QED
  BY <1>1, StoredKeysType DEF ExportKeys, Blocks, KeysOf, NoIndex

(* A record appended to the data is the last one of its key and changes     *)
(* nothing for the other keys.                                              *)
LEMMA AppendRecord ==
    ASSUME NEW data \in Seq(Records), NEW r \in Records
    PROVE  /\ StoredKeys(Append(data, r)) = StoredKeys(data) \cup {r.key}
           /\ LastPosition(Append(data, r), r.key) = Len(data) + 1
           /\ Append(data, r)[Len(data) + 1] = r
           /\ \A k \in StoredKeys(data) \ {r.key} :
                 /\ LastPosition(Append(data, r), k) = LastPosition(data, k)
                 /\ Append(data, r)[LastPosition(data, k)] =
                        data[LastPosition(data, k)]
<1> DEFINE longer == Append(data, r)
<1>1. /\ longer \in Seq(Records)
      /\ Len(longer) = Len(data) + 1
      /\ Len(data) \in Nat
      /\ \A i \in 1 .. Len(data) : longer[i] = data[i]
      /\ longer[Len(data) + 1] = r
      /\ DOMAIN longer = 1 .. Len(data) + 1
      /\ DOMAIN data = 1 .. Len(data)
  <2>1. /\ longer \in Seq(Records)
        /\ Len(longer) = Len(data) + 1
        /\ \A i \in 1 .. Len(data) : longer[i] = data[i]
        /\ longer[Len(data) + 1] = r
    BY AppendProperties
  <2> HIDE DEF longer
  <2>2. DOMAIN longer = 1 .. Len(longer) /\ DOMAIN data = 1 .. Len(data) /\ Len(data) \in Nat
    BY <2>1, LenProperties
  <2> QED
    BY <2>1, <2>2
<1> HIDE DEF longer
<1>2. StoredKeys(longer) = StoredKeys(data) \cup {r.key}
  <2>1. ASSUME NEW i \in DOMAIN longer PROVE longer[i].key \in StoredKeys(data) \cup {r.key}
    <3>1. i \in DOMAIN data \/ i = Len(data) + 1
      BY <1>1
    <3> QED
      BY <1>1, <3>1 DEF StoredKeys
  <2>2. ASSUME NEW i \in DOMAIN data PROVE data[i].key \in StoredKeys(longer)
    <3>1. i \in DOMAIN longer /\ longer[i] = data[i]
      BY <1>1
    <3> QED
      BY <3>1 DEF StoredKeys
  <2>3. r.key \in StoredKeys(longer)
    <3>1. Len(data) + 1 \in DOMAIN longer
      BY <1>1
    <3> QED
      BY <1>1, <3>1 DEF StoredKeys
  <2> QED
    BY <2>1, <2>2, <2>3 DEF StoredKeys
<1>3. LastPosition(longer, r.key) = Len(data) + 1
  <2>1. Len(data) + 1 \in 1 .. Len(longer) /\ \A j \in 1 .. Len(longer) : j <= Len(data) + 1
    BY <1>1
  <2> QED
    BY <1>1, <2>1, LastPositionUnique
<1>4. ASSUME NEW k \in StoredKeys(data) \ {r.key}
      PROVE  /\ LastPosition(longer, k) = LastPosition(data, k)
             /\ longer[LastPosition(data, k)] = data[LastPosition(data, k)]
  <2> DEFINE p == LastPosition(data, k)
  <2>1. /\ p \in 1 .. Len(data)
        /\ data[p].key = k
        /\ \A j \in 1 .. Len(data) : data[j].key = k => j <= p
    BY LastPositionProperties
  <2> HIDE DEF p
  <2>2. p \in 1 .. Len(longer) /\ longer[p] = data[p]
    BY <1>1, <2>1
  <2>3. ASSUME NEW j \in 1 .. Len(longer), longer[j].key = k PROVE j <= p
    <3>1. j \in 1 .. Len(data)
      BY <1>1, <2>3
    <3> QED
      BY <1>1, <2>1, <2>3, <3>1
  <2>4. LastPosition(longer, longer[p].key) = p
    BY <1>1, <2>1, <2>2, <2>3, LastPositionUnique
  <2> QED
    BY <2>1, <2>2, <2>4 DEF p
<1> QED
  BY <1>1, <1>2, <1>3, <1>4 DEF longer

-----------------------------------------------------------------------------
(* Key order: the keys of a finite set are numbered in increasing order. *)

KeyRank(S, k) == Cardinality({j \in S : j < k})

LEMMA KeyRankMonotonic ==
    ASSUME NEW S \in SUBSET Nat, IsFiniteSet(S), NEW a \in S, NEW b \in S, a < b
    PROVE  KeyRank(S, a) < KeyRank(S, b)
<1> DEFINE A == {j \in S : j < a}
           B == {j \in S : j < b}
<1>1. A \in SUBSET B /\ B \in SUBSET S /\ a \in B /\ a \notin A
  <2>1. a \in Nat /\ b \in Nat /\ \A j \in S : j \in Nat
    OBVIOUS
  <2>2. \A j \in S : j < a => j < b
    BY <2>1
  <2>3. A \in SUBSET B
    BY <2>2
  <2>4. a \in B /\ a \notin A
    BY <2>1
  <2>5. B \in SUBSET S
    OBVIOUS
  <2> QED
    BY <2>3, <2>4, <2>5
<1> HIDE DEF A, B
<1>2. IsFiniteSet(B) /\ IsFiniteSet(A)
  BY <1>1, FS_Subset
<1>3. Cardinality(A) <= Cardinality(B) /\ Cardinality(A) # Cardinality(B)
  BY <1>1, <1>2, FS_Subset
<1>4. Cardinality(A) \in Nat /\ Cardinality(B) \in Nat
  BY <1>2, FS_CardinalityType
<1> QED
  BY <1>3, <1>4 DEF KeyRank, A, B

LEMMA KeyRankType ==
    ASSUME NEW S \in SUBSET Nat, IsFiniteSet(S), NEW a \in S
    PROVE  KeyRank(S, a) \in 0 .. Cardinality(S) - 1
<1> DEFINE A == {j \in S : j < a}
<1>1. A \in SUBSET S /\ a \notin A
  OBVIOUS
<1> HIDE DEF A
<1>2. IsFiniteSet(A) /\ Cardinality(A) <= Cardinality(S) /\ Cardinality(S) # Cardinality(A)
  BY <1>1, FS_Subset
<1>3. Cardinality(A) \in Nat /\ Cardinality(S) \in Nat
  BY <1>2, FS_CardinalityType
<1> QED
  BY <1>2, <1>3 DEF KeyRank, A

(* Every number below the size of the set is the number of one of its keys. *)
LEMMA KeyAtProperties ==
    ASSUME NEW S \in SUBSET Nat, IsFiniteSet(S), NEW n \in 0 .. Cardinality(S) - 1
    PROVE  KeyAt(S, n) \in S /\ KeyRank(S, KeyAt(S, n)) = n
<1> DEFINE T == 0 .. Cardinality(S) - 1
           f == [k \in S |-> KeyRank(S, k)]
<1>1. Cardinality(S) \in Nat
  BY FS_CardinalityType
<1>2. IsFiniteSet(T) /\ Cardinality(T) = Cardinality(S)
  BY <1>1, FS_Interval
<1>3. f \in [S -> T]
  BY KeyRankType
<1>4. \A a, b \in S : f[a] = f[b] => a = b
  <2> SUFFICES ASSUME NEW a \in S, NEW b \in S, a < b
               PROVE  KeyRank(S, a) # KeyRank(S, b)
    OBVIOUS
  <2> QED
    BY KeyRankMonotonic, KeyRankType, <1>1
<1>5. f \in Injection(S, T)
  <2> HIDE DEF T, f
  <2>1. DOMAIN f = S
    BY <1>3
  <2> QED
    BY <1>3, <1>4, <2>1 DEF Injection, IsInjective
<1>6. f \in Surjection(S, T)
  <2> HIDE DEF T, f
  <2> QED
    BY <1>2, <1>5, FS_Injection
<1>7. PICK j \in S : f[j] = n
  <2> HIDE DEF f
  <2> QED
    BY <1>6 DEF Surjection
<1>8. \E k \in S : Cardinality({i \in S : i < k}) = n
  BY <1>7 DEF KeyRank
<1> QED
  BY <1>8 DEF KeyAt, KeyRank

LEMMA KeyAtMonotonic ==
    ASSUME NEW S \in SUBSET Nat, IsFiniteSet(S),
           NEW m \in 0 .. Cardinality(S) - 1, NEW n \in 0 .. Cardinality(S) - 1,
           m < n
    PROVE  KeyAt(S, m) < KeyAt(S, n)
<1>1. /\ KeyAt(S, m) \in S /\ KeyRank(S, KeyAt(S, m)) = m
      /\ KeyAt(S, n) \in S /\ KeyRank(S, KeyAt(S, n)) = n
  BY KeyAtProperties
<1>2. Cardinality(S) \in Nat
  BY FS_CardinalityType
<1> DEFINE a == KeyAt(S, m)
           b == KeyAt(S, n)
<1> HIDE DEF a, b
<1>3. b < a => KeyRank(S, b) < KeyRank(S, a)
  BY <1>1, KeyRankMonotonic DEF a, b
<1>4. a \in Nat /\ b \in Nat /\ KeyRank(S, a) = m /\ KeyRank(S, b) = n
  BY <1>1 DEF a, b
<1>5. m \in Nat /\ n \in Nat
  BY <1>2
<1>6. a # b /\ ~ (b < a)
  BY <1>3, <1>4, <1>5
<1>7. a < b
  BY <1>4, <1>6
<1> QED
  BY <1>7 DEF a, b

(* A key has the number it is chosen for. *)
LEMMA KeyAtOnto ==
    ASSUME NEW S \in SUBSET Nat, IsFiniteSet(S), NEW k \in S
    PROVE  \E n \in 0 .. Cardinality(S) - 1 : KeyAt(S, n) = k
<1> DEFINE n == KeyRank(S, k)
<1>1. n \in 0 .. Cardinality(S) - 1
  BY KeyRankType
<1> HIDE DEF n
<1>2. KeyAt(S, n) \in S /\ KeyRank(S, KeyAt(S, n)) = n
  BY <1>1, KeyAtProperties
<1>3. Cardinality(S) \in Nat
  BY FS_CardinalityType
<1> DEFINE a == KeyAt(S, n)
<1> HIDE DEF a
<1>4. /\ a < k => KeyRank(S, a) < KeyRank(S, k)
      /\ k < a => KeyRank(S, k) < KeyRank(S, a)
  BY <1>2, KeyRankMonotonic DEF a
<1>5. n \in Nat /\ a \in Nat /\ k \in Nat /\ KeyRank(S, a) = n /\ KeyRank(S, k) = n
  <2>1. KeyRank(S, a) = n /\ a \in Nat
    BY <1>2 DEF a
  <2>2. KeyRank(S, k) = n
    BY DEF n
  <2> QED
    BY <1>1, <1>3, <2>1, <2>2
<1>6. a = k
  BY <1>4, <1>5
<1> QED
  BY <1>1, <1>6 DEF a

-----------------------------------------------------------------------------
(* The shrink. *)

(* A shrink keeps the last record of every key and nothing else, and puts   *)
(* the records in strictly increasing key order.                            *)
LEMMA ShrunkProperties ==
    ASSUME NEW data \in Seq(Records)
    PROVE  /\ Shrunk(data) \in Seq(Records)
           /\ Len(Shrunk(data)) = Cardinality(StoredKeys(data))
           /\ StoredKeys(Shrunk(data)) = StoredKeys(data)
           /\ \A i, j \in DOMAIN Shrunk(data) :
                  i < j => Shrunk(data)[i].key < Shrunk(data)[j].key
           /\ \A k \in Keys : ValueIn(Shrunk(data), k) = ValueIn(data, k)
<1> DEFINE S == StoredKeys(data)
           c == Cardinality(S)
           key(i) == KeyAt(S, i - 1)
           new == Shrunk(data)
<1>1. S \in SUBSET Nat /\ S \in SUBSET Keys /\ IsFiniteSet(S) /\ c \in Nat
  <2>1. S \in SUBSET Keys
    BY StoredKeysType
  <2> HIDE DEF S
  <2>2. IsFiniteSet(S)
    BY <2>1, KeysAssumption, FS_Subset
  <2> QED
    BY <2>1, <2>2, KeysAssumption, FS_CardinalityType
<1>2. new = [i \in 1 .. c |-> data[LastPosition(data, key(i))]]
  BY DEF Shrunk
<1>3. ASSUME NEW i \in 1 .. c PROVE i - 1 \in 0 .. Cardinality(S) - 1
  <2> HIDE DEF S
  <2> QED
    BY <1>1
<1>4. ASSUME NEW i \in 1 .. c PROVE key(i) \in S
  <2> HIDE DEF S
  <2> QED
    BY <1>1, <1>3, KeyAtProperties
<1>5. ASSUME NEW i \in 1 .. c
      PROVE  /\ new[i] \in Records
             /\ new[i] = data[LastPosition(data, key(i))]
             /\ new[i].key = key(i)
  <2> DEFINE p == LastPosition(data, key(i))
  <2>1. p \in 1 .. Len(data) /\ data[p].key = key(i)
    BY <1>4, LastPositionProperties
  <2>2. new[i] = data[p]
    BY <1>2
  <2> HIDE DEF new, p
  <2> QED
    BY <2>1, <2>2, ElementOfSeq DEF p
<1> HIDE DEF S, new
<1>6. new \in Seq(Records) /\ Len(new) = c /\ DOMAIN new = 1 .. c
  <2>1. new \in [1 .. c -> Records]
    BY <1>2, <1>5
  <2> QED
    BY <1>1, <2>1
<1>7. \A i, j \in 1 .. c : i < j => key(i) < key(j)
  <2> SUFFICES ASSUME NEW i \in 1 .. c, NEW j \in 1 .. c, i < j
               PROVE  key(i) < key(j)
    OBVIOUS
  <2>1. i - 1 < j - 1
    BY <1>1
  <2> QED
    BY <1>1, <1>3, <2>1, KeyAtMonotonic
<1>8. \A i, j \in DOMAIN new : i < j => new[i].key < new[j].key
  BY <1>5, <1>6, <1>7
<1>9. StoredKeys(new) = S
  <2>1. \A i \in DOMAIN new : new[i].key \in S
    BY <1>4, <1>5, <1>6
  <2>2. ASSUME NEW k \in S PROVE \E i \in DOMAIN new : new[i].key = k
    <3>1. PICK n \in 0 .. Cardinality(S) - 1 : KeyAt(S, n) = k
      BY <1>1, KeyAtOnto
    <3>2. n + 1 \in 1 .. c /\ (n + 1) - 1 = n
      BY <1>1
    <3> QED
      BY <1>5, <1>6, <3>1, <3>2
  <2> QED
    BY <2>1, <2>2 DEF StoredKeys
<1>10. ASSUME NEW k \in Keys PROVE ValueIn(new, k) = ValueIn(data, k)
  <2>1. CASE k \notin S
    BY <1>9, <2>1 DEF ValueIn, S
  <2>2. CASE k \in S
    <3> DEFINE p == LastPosition(new, k)
    <3>1. p \in 1 .. c /\ new[p].key = k
      BY <1>6, <1>9, <2>2, LastPositionProperties
    <3> HIDE DEF p
    <3>2. new[p] = data[LastPosition(data, k)]
      BY <1>5, <3>1
    <3> QED
      BY <1>9, <2>2, <3>2 DEF ValueIn, S, p
  <2> QED
    BY <2>1, <2>2
<1> QED
  BY <1>6, <1>8, <1>9, <1>10 DEF S, new

(* The index of two parts of a data file end to end: a key has its last     *)
(* record in the second part, if it has one there.                          *)
LEMMA ExportConcat ==
    ASSUME NEW s \in Seq(Records), NEW t \in Seq(Records), NEW k \in Keys
    PROVE  ExportKeys(s \o t)[k] =
               IF k \in StoredKeys(t) THEN Len(s) + LastPosition(t, k) - 1
                                      ELSE ExportKeys(s)[k]
<1> DEFINE both == s \o t
<1>1. /\ both \in Seq(Records)
      /\ Len(both) = Len(s) + Len(t)
      /\ Len(s) \in Nat
      /\ Len(t) \in Nat
      /\ \A i \in 1 .. Len(s) : both[i] = s[i]
      /\ \A i \in 1 .. Len(t) : both[Len(s) + i] = t[i]
  BY ConcatProperties, LenProperties
<1>2. DOMAIN s = 1 .. Len(s) /\ DOMAIN t = 1 .. Len(t)
  BY LenProperties
<1> HIDE DEF both
<1>3. DOMAIN both = 1 .. Len(s) + Len(t)
  BY <1>1, LenProperties
<1>4. ASSUME NEW p \in 1 .. Len(both), both[p].key = k,
             \A j \in 1 .. Len(both) : both[j].key = k => j <= p
      PROVE  ExportKeys(both)[k] = p - 1
  <2>1. k \in StoredKeys(both) /\ LastPosition(both, k) = p
    BY <1>1, <1>4, LastPositionUnique
  <2> QED
    BY <2>1 DEF ExportKeys
<1>5. CASE k \in StoredKeys(t)
  <2> DEFINE p == LastPosition(t, k)
  <2>1. /\ p \in 1 .. Len(t)
        /\ t[p].key = k
        /\ \A j \in 1 .. Len(t) : t[j].key = k => j <= p
    BY <1>5, LastPositionProperties
  <2> HIDE DEF p
  <2>2. Len(s) + p \in 1 .. Len(both) /\ both[Len(s) + p].key = k
    BY <1>1, <2>1
  <2>3. ASSUME NEW j \in 1 .. Len(both), both[j].key = k PROVE j <= Len(s) + p
    <3>1. CASE j <= Len(s)
      BY <1>1, <2>1, <3>1
    <3>2. CASE ~ (j <= Len(s))
      <4>1. j - Len(s) \in 1 .. Len(t) /\ j = Len(s) + (j - Len(s))
        BY <1>1, <3>2
      <4>2. t[j - Len(s)].key = k
        BY <1>1, <2>3, <4>1
      <4>3. j - Len(s) <= p
        BY <2>1, <4>1, <4>2
      <4> QED
        BY <1>1, <2>1, <4>3
    <3> QED
      BY <3>1, <3>2
  <2>4. ExportKeys(both)[k] = Len(s) + p - 1
    <3>1. ExportKeys(both)[k] = (Len(s) + p) - 1
      BY <1>4, <2>2, <2>3
    <3> QED
      BY <1>1, <2>1, <3>1
  <2> QED
    BY <1>5, <2>4 DEF both, p
<1>6. CASE k \notin StoredKeys(t) /\ k \in StoredKeys(s)
  <2> DEFINE p == LastPosition(s, k)
  <2>1. /\ p \in 1 .. Len(s)
        /\ s[p].key = k
        /\ \A j \in 1 .. Len(s) : s[j].key = k => j <= p
    BY <1>6, LastPositionProperties
  <2> HIDE DEF p
  <2>2. p \in 1 .. Len(both) /\ both[p].key = k
    BY <1>1, <2>1
  <2>3. ASSUME NEW j \in 1 .. Len(both), both[j].key = k PROVE j <= p
    <3>1. CASE j <= Len(s)
      BY <1>1, <2>1, <2>3, <3>1
    <3>2. CASE ~ (j <= Len(s))
      <4>1. j - Len(s) \in 1 .. Len(t) /\ j = Len(s) + (j - Len(s))
        BY <1>1, <3>2
      <4>2. t[j - Len(s)].key = k
        BY <1>1, <2>3, <4>1
      <4> QED
        BY <1>2, <1>6, <4>1, <4>2 DEF StoredKeys
    <3> QED
      BY <3>1, <3>2
  <2>4. ExportKeys(both)[k] = p - 1
    BY <1>4, <2>2, <2>3
  <2> QED
    BY <1>6, <2>4 DEF both, p, ExportKeys
<1>7. CASE k \notin StoredKeys(t) /\ k \notin StoredKeys(s)
  <2>1. ASSUME NEW j \in DOMAIN both PROVE both[j].key # k
    <3>1. CASE j \in 1 .. Len(s)
      BY <1>1, <1>2, <1>7, <3>1 DEF StoredKeys
    <3>2. CASE j \notin 1 .. Len(s)
      <4>1. j - Len(s) \in 1 .. Len(t) /\ j = Len(s) + (j - Len(s))
        BY <1>1, <1>3, <3>2
      <4>2. both[j] = t[j - Len(s)]
        BY <1>1, <4>1
      <4> QED
        BY <1>2, <1>7, <4>1, <4>2 DEF StoredKeys
    <3> QED
      BY <3>1, <3>2
  <2>2. k \notin StoredKeys(both)
    BY <2>1 DEF StoredKeys
  <2> QED
    BY <1>7, <2>2 DEF ExportKeys, both
<1> QED
  BY <1>5, <1>6, <1>7

-----------------------------------------------------------------------------
(* Layers of index over the data. *)

(* Index i leads to a record of key k. *)
LeadsTo(data, i, k) == i + 1 \in 1 .. Len(data) /\ data[i + 1].key = k

(* Every entry of the blocks of a list leads to a record of its own key,    *)
(* and of two entries of a key that of the newer block to the later one.    *)
AgesInOrder(list, data) ==
    \A k \in Keys : \A n \in 1 .. Len(list) : list[n][k] # NoIndex =>
        /\ LeadsTo(data, list[n][k], k)
        /\ \A m \in 1 .. Len(list) :
               n < m /\ list[m][k] # NoIndex => list[m][k] < list[n][k]

(* A block may be put before the others when its entries are later. *)
LEMMA AgedPush ==
    ASSUME NEW list \in Seq(Blocks), NEW block \in Blocks, NEW data,
           AgesInOrder(list, data),
           \A k \in Keys : block[k] # NoIndex =>
               /\ LeadsTo(data, block[k], k)
               /\ \A m \in 1 .. Len(list) :
                      list[m][k] # NoIndex => list[m][k] < block[k]
    PROVE  AgesInOrder(<<block>> \o list, data)
<1> DEFINE new == <<block>> \o list
<1>1. /\ Len(new) = Len(list) + 1
      /\ new[1] = block
      /\ \A i \in 2 .. Len(list) + 1 : new[i] = list[i - 1]
      /\ Len(list) \in Nat
  BY PushProperties, LenProperties
<1> HIDE DEF new
<1>2. SUFFICES ASSUME NEW k \in Keys, NEW n \in 1 .. Len(new), new[n][k] # NoIndex
               PROVE  /\ LeadsTo(data, new[n][k], k)
                      /\ \A m \in 1 .. Len(new) :
                             n < m /\ new[m][k] # NoIndex => new[m][k] < new[n][k]
  BY DEF AgesInOrder, new
<1>3. ASSUME NEW m \in 2 .. Len(new) PROVE m - 1 \in 1 .. Len(list) /\ new[m] = list[m - 1]
  BY <1>1
<1>4. ASSUME NEW m \in 1 .. Len(new), n < m PROVE m \in 2 .. Len(new)
  BY <1>1, <1>4
<1>5. CASE n = 1
  BY <1>1, <1>2, <1>3, <1>4, <1>5
<1>6. CASE n \in 2 .. Len(new)
  <2>1. /\ n - 1 \in 1 .. Len(list)
        /\ new[n] = list[n - 1]
        /\ list[n - 1][k] # NoIndex
    BY <1>2, <1>3, <1>6
  <2>2. LeadsTo(data, new[n][k], k)
    BY <2>1 DEF AgesInOrder
  <2>3. ASSUME NEW m \in 1 .. Len(new), n < m, new[m][k] # NoIndex
        PROVE  new[m][k] < new[n][k]
    <3>1. m - 1 \in 1 .. Len(list) /\ new[m] = list[m - 1] /\ n - 1 < m - 1
      BY <1>1, <1>3, <1>4, <1>6, <2>3
    <3> QED
      BY <2>1, <2>3, <3>1 DEF AgesInOrder
  <2> QED
    BY <2>2, <2>3
<1> QED
  BY <1>1, <1>5, <1>6

(* The blocks behind the head are in order too, and older than it. *)
LEMMA AgedTail ==
    ASSUME NEW list \in Seq(Blocks), NEW block \in Blocks, NEW data,
           AgesInOrder(<<block>> \o list, data)
    PROVE  /\ AgesInOrder(list, data)
           /\ \A k \in Keys : block[k] # NoIndex =>
                  /\ LeadsTo(data, block[k], k)
                  /\ \A m \in 1 .. Len(list) :
                         list[m][k] # NoIndex => list[m][k] < block[k]
<1> DEFINE new == <<block>> \o list
<1>1. /\ Len(new) = Len(list) + 1
      /\ new[1] = block
      /\ \A i \in 2 .. Len(list) + 1 : new[i] = list[i - 1]
      /\ Len(list) \in Nat
  BY PushProperties, LenProperties
<1>2. AgesInOrder(new, data)
  OBVIOUS
<1> HIDE DEF new
<1>3. ASSUME NEW n \in 1 .. Len(list)
      PROVE  n + 1 \in 1 .. Len(new) /\ 1 < n + 1 /\ new[n + 1] = list[n]
  <2>1. n + 1 \in 2 .. Len(list) + 1 /\ (n + 1) - 1 = n
    BY <1>1
  <2> QED
    BY <1>1, <2>1
<1>4. ASSUME NEW k \in Keys, NEW n \in 1 .. Len(list), list[n][k] # NoIndex
      PROVE  /\ LeadsTo(data, list[n][k], k)
             /\ \A m \in 1 .. Len(list) :
                    n < m /\ list[m][k] # NoIndex => list[m][k] < list[n][k]
  <2>1. n + 1 \in 1 .. Len(new) /\ new[n + 1] = list[n] /\ new[n + 1][k] # NoIndex
    BY <1>3, <1>4
  <2>2. LeadsTo(data, list[n][k], k)
    BY <1>2, <2>1 DEF AgesInOrder
  <2>3. ASSUME NEW m \in 1 .. Len(list), n < m, list[m][k] # NoIndex
        PROVE  list[m][k] < list[n][k]
    <3>1. m + 1 \in 1 .. Len(new) /\ new[m + 1] = list[m] /\ n + 1 < m + 1
      BY <1>1, <1>3, <2>3
    <3> QED
      BY <1>2, <2>1, <2>3, <3>1 DEF AgesInOrder
  <2> QED
    BY <2>2, <2>3
<1>5. ASSUME NEW k \in Keys, block[k] # NoIndex
      PROVE  /\ LeadsTo(data, block[k], k)
             /\ \A m \in 1 .. Len(list) :
                    list[m][k] # NoIndex => list[m][k] < block[k]
  <2>1. 1 \in 1 .. Len(new) /\ new[1][k] # NoIndex
    BY <1>1, <1>5
  <2> QED
    BY <1>1, <1>2, <1>3, <2>1 DEF AgesInOrder
<1>6. AgesInOrder(list, data)
  BY <1>4 DEF AgesInOrder
<1> QED
  BY <1>5, <1>6

(* Records appended to the data come later than every entry. *)
LEMMA AgedAppendRecord ==
    ASSUME NEW list, NEW data \in Seq(Records), NEW r \in Records,
           AgesInOrder(list, data)
    PROVE  AgesInOrder(list, Append(data, r))
<1> DEFINE longer == Append(data, r)
<1>1. /\ Len(longer) = Len(data) + 1
      /\ \A i \in 1 .. Len(data) : longer[i] = data[i]
      /\ Len(data) \in Nat
  BY AppendProperties, LenProperties
<1> HIDE DEF longer
<1>2. ASSUME NEW i, NEW k, LeadsTo(data, i, k) PROVE LeadsTo(longer, i, k)
  BY <1>1, <1>2 DEF LeadsTo
<1>3. AgesInOrder(list, longer)
  BY <1>2 DEF AgesInOrder
<1> QED
  BY <1>3 DEF longer

(* A merge of the newest blocks keeps for each key the entry of the newest  *)
(* of them, which is the latest.                                            *)
LEMMA AgedMergeFirst ==
    ASSUME NEW list \in Seq(Blocks), NEW d \in 1 .. Len(list), NEW data,
           AgesInOrder(list, data)
    PROVE  AgesInOrder(MergeFirst(list, d), data)
<1> DEFINE front == SubSeq(list, 1, d)
           new == MergeFirst(list, d)
<1>1. Len(list) \in Nat /\ d \in Nat
  BY LenProperties
<1>2. /\ Len(new) = Len(list) - d + 1
      /\ new[1] = Merge(front)
      /\ \A i \in 2 .. Len(list) - d + 1 : new[i] = list[i + d - 1]
  BY MergeFirstProperties
<1>3. /\ front \in Seq(Blocks)
      /\ Len(front) = d
      /\ \A i \in 1 .. d : front[i] = list[i]
  BY CutProperties
<1> HIDE DEF front, new
<1>4. SUFFICES ASSUME NEW k \in Keys, NEW n \in 1 .. Len(new), new[n][k] # NoIndex
               PROVE  /\ LeadsTo(data, new[n][k], k)
                      /\ \A m \in 1 .. Len(new) :
                             n < m /\ new[m][k] # NoIndex => new[m][k] < new[n][k]
  BY DEF AgesInOrder, new
(* The place in the old list that the entry comes from.                     *)
<1>5. PICK o \in 1 .. Len(list) : /\ list[o][k] = new[n][k]
                                  /\ o <= n + d - 1
  <2>1. CASE n = 1
    <3>1. Find(front, k) # NoIndex /\ new[n][k] = Find(front, k)
      BY <1>2, <1>3, <1>4, <2>1, MergeProperties
    <3>2. PICK i \in 1 .. Len(front) : /\ front[i][k] # NoIndex
                                       /\ \A j \in 1 .. i - 1 : front[j][k] = NoIndex
      <4>1. ~ \A j \in 1 .. Len(front) : front[j][k] = NoIndex
        BY <1>3, <3>1, FindNone
      <4> QED
        BY <1>3, <4>1, FindCases
    <3>3. new[n][k] = front[i][k]
      BY <1>3, <3>1, <3>2, FindFirst
    <3>4. i \in 1 .. Len(list) /\ front[i] = list[i] /\ i <= n + d - 1
      BY <1>1, <1>3, <2>1
    <3> QED
      BY <3>3, <3>4
  <2>2. CASE n \in 2 .. Len(new)
    <3>1. n + d - 1 \in 1 .. Len(list) /\ new[n] = list[n + d - 1]
      BY <1>1, <1>2, <2>2
    <3> QED
      BY <1>1, <3>1
  <2> QED
    BY <1>1, <1>2, <2>1, <2>2
<1>6. LeadsTo(data, new[n][k], k)
  BY <1>4, <1>5 DEF AgesInOrder
<1>7. ASSUME NEW m \in 1 .. Len(new), n < m, new[m][k] # NoIndex
      PROVE  new[m][k] < new[n][k]
  <2>1. m + d - 1 \in 1 .. Len(list) /\ new[m] = list[m + d - 1] /\ o < m + d - 1
    <3>1. m \in 2 .. Len(list) - d + 1 /\ n \in Nat /\ o \in Nat /\ o <= n + d - 1 /\ n < m
      BY <1>1, <1>2, <1>5, <1>7
    <3>2. m + d - 1 \in 1 .. Len(list) /\ o < m + d - 1
      BY <1>1, <3>1
    <3> QED
      BY <1>2, <3>1, <3>2
  <2> QED
    BY <1>4, <1>5, <1>7, <2>1 DEF AgesInOrder
<1> QED
  BY <1>6, <1>7

(* So does an append to the list, which ends with such a merge. *)
LEMMA AgedAppendBlock ==
    ASSUME NEW list \in Seq(Blocks), NEW block \in Blocks, NEW data,
           AgesInOrder(<<block>> \o list, data)
    PROVE  AgesInOrder(AppendBlock(list, block), data)
<1> DEFINE longer == <<block>> \o list
<1>1. longer \in Seq(Blocks) /\ longer # << >>
  <2>1. longer \in Seq(Blocks) /\ Len(longer) = Len(list) + 1 /\ Len(list) \in Nat
    BY PushProperties, LenProperties
  <2> HIDE DEF longer
  <2> QED
    BY <2>1, EmptySeq
<1> HIDE DEF longer
<1>2. CollapseDepth(longer) \in 1 .. Len(longer)
  BY <1>1, CollapseDepthProperties
<1>3. AppendBlock(list, block) = MergeFirst(longer, CollapseDepth(longer))
  BY <1>1, CollapseProperties DEF AppendBlock, longer
<1>4. AgesInOrder(longer, data)
  BY DEF longer
<1> QED
  BY <1>1, <1>2, <1>3, <1>4, AgedMergeFirst

(* The exported index leads to the last record of each key. *)
LEMMA AgedExport ==
    ASSUME NEW data \in Seq(Records)
    PROVE  AgesInOrder(<<ExportKeys(data)>> \o << >>, data)
<1> DEFINE none == << >>
           block == ExportKeys(data)
<1>1. none \in Seq(Blocks) /\ Len(none) = 0
  OBVIOUS
<1>2. block \in Blocks
  BY ExportKeysType
<1>3. AgesInOrder(none, data)
  BY DEF AgesInOrder
<1>4. ASSUME NEW k \in Keys, block[k] # NoIndex PROVE LeadsTo(data, block[k], k)
  <2>1. k \in StoredKeys(data) /\ block[k] = LastPosition(data, k) - 1
    BY <1>4 DEF ExportKeys
  <2>2. LastPosition(data, k) \in 1 .. Len(data) /\ data[LastPosition(data, k)].key = k
    BY <2>1, LastPositionProperties
  <2> HIDE DEF block
  <2>3. block[k] + 1 = LastPosition(data, k)
    BY <2>1, <2>2, LenProperties
  <2> QED
    BY <2>2, <2>3 DEF LeadsTo
<1> HIDE DEF none, block
<1>5. \A k \in Keys : \A m \in 1 .. Len(none) :
          none[m][k] # NoIndex => none[m][k] < block[k]
  BY <1>1
<1>6. AgesInOrder(<<block>> \o none, data)
  BY <1>1, <1>2, <1>3, <1>4, <1>5, AgedPush
<1> QED
  BY <1>6 DEF none, block

=============================================================================
