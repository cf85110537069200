----------------------- MODULE ShrinkableStorageProofs -----------------------
(***************************************************************************)
(* Theorems about ShrinkableStorage for every finite set of keys, every    *)
(* set of values, every batch size and any number of exceptions: the       *)
(* batches of a shrink amount to the shrink that DataStorage promises.     *)
(***************************************************************************)
EXTENDS ShrinkableStorage, DataFileProofs

-----------------------------------------------------------------------------
(* Where the batches are cut. *)

LEMMA MinOfTwo ==
    ASSUME NEW a \in Nat, NEW b \in Nat
    PROVE  Min({a, b}) = IF a <= b THEN a ELSE b
<1>1. {a, b} \in SUBSET Nat /\ {a, b} # {}
  OBVIOUS
<1>2. Min({a, b}) \in {a, b} /\ \A n \in {a, b} : Min({a, b}) <= n
  BY <1>1, MinProperties
<1> QED
  BY <1>2

(* What is read so far, and what another batch makes of it. *)
LEMMA ConsumedProperties ==
    ASSUME notSorted \in Seq(Records), batches \in Seq(Blocks), batches # << >>
    PROVE  /\ Consumed \in 0 .. Len(notSorted)
           /\ Len(batches) = 1 => Consumed = 0
           /\ Consumed < Len(notSorted) =>
                 /\ BatchEnd(Consumed, Len(notSorted)) \in Consumed + 1 .. Len(notSorted)
                 /\ BatchEnd(Consumed, Len(notSorted)) =
                        Min({Len(notSorted), Len(batches) * BatchSize})
<1> DEFINE n == Len(notSorted)
           c == Len(batches)
           done == (c - 1) * BatchSize
<1>1. n \in Nat /\ c \in Nat \ {0} /\ BatchSize \in Nat \ {0}
  BY LenProperties, EmptySeq, BatchAssumption
<1>2. Consumed = Min({n, done})
  BY DEF Consumed
<1> HIDE DEF n, c
<1>3. /\ done \in Nat
      /\ c = 1 => done = 0
      /\ c * BatchSize = done + BatchSize
      /\ c * BatchSize \in Nat
  BY <1>1, Z3
<1> HIDE DEF done
<1>4. Consumed = IF n <= done THEN n ELSE done
  BY <1>1, <1>2, <1>3, MinOfTwo
<1>5. Consumed \in 0 .. n /\ (c = 1 => Consumed = 0)
  BY <1>1, <1>3, <1>4
<1>6. ASSUME Consumed < n
      PROVE  /\ BatchEnd(Consumed, n) \in Consumed + 1 .. n
             /\ BatchEnd(Consumed, n) = Min({n, c * BatchSize})
  <2>1. Consumed = done /\ Consumed + BatchSize \in Nat
    BY <1>1, <1>3, <1>4, <1>6
  <2>2. BatchEnd(Consumed, n) = Min({n, c * BatchSize})
    BY <1>3, <2>1 DEF BatchEnd
  <2>3. BatchEnd(Consumed, n) = IF n <= Consumed + BatchSize THEN n ELSE Consumed + BatchSize
    BY <1>1, <2>1, MinOfTwo DEF BatchEnd
  <2> QED
    BY <1>1, <1>5, <1>6, <2>2, <2>3
<1> QED
  BY <1>5, <1>6 DEF n, c

(* The parts of the unsorted storage that are read. *)
LEMMA PartProperties ==
    ASSUME NEW s \in Seq(Records), NEW a \in 0 .. Len(s), NEW b \in a .. Len(s)
    PROVE  /\ SubSeq(s, 1, a) \in Seq(Records)
           /\ Len(SubSeq(s, 1, a)) = a
           /\ SubSeq(s, a + 1, b) \in Seq(Records)
           /\ SubSeq(s, 1, a) \o SubSeq(s, a + 1, b) = SubSeq(s, 1, b)
<1>1. Len(s) \in Nat /\ a \in Nat /\ b \in Nat /\ a <= b
  BY LenProperties
<1>2. \A i \in 1 .. Len(s) : s[i] \in Records
  BY ElementOfSeq
<1>3. SubSeq(s, 1, a) \in Seq(Records) /\ Len(SubSeq(s, 1, a)) = a
  <2>1. \A i \in 1 .. a : s[i] \in Records
    BY <1>1, <1>2
  <2>2. /\ SubSeq(s, 1, a) \in Seq(Records)
        /\ Len(SubSeq(s, 1, a)) = IF 1 <= a THEN a - 1 + 1 ELSE 0
    BY <1>1, <2>1, SubSeqProperties
  <2> QED
    BY <1>1, <2>2
<1>4. SubSeq(s, a + 1, b) \in Seq(Records)
  <2> DEFINE e == a + 1
  <2>1. e \in Int /\ b \in Int /\ \A i \in e .. b : s[i] \in Records
    BY <1>1, <1>2
  <2> HIDE DEF e
  <2>2. SubSeq(s, e, b) \in Seq(Records)
    BY <2>1, SubSeqProperties
  <2> QED
    BY <2>2 DEF e
<1>5. SubSeq(s, 1, a) \o SubSeq(s, a + 1, b) = SubSeq(s, 1, b)
  <2>1. 1 \in 1 .. Len(s) + 1 /\ a \in 1 - 1 .. Len(s) /\ b \in a .. Len(s)
    BY <1>1
  <2> QED
    BY <2>1, ConcatAdjacentSubSeq
<1> QED
  BY <1>3, <1>4, <1>5

LEMMA ThreeParts ==
    ASSUME NEW r \in Seq(Records), NEW s \in Seq(Records), NEW t \in Seq(Records)
    PROVE  (r \o s) \o t = r \o (s \o t)
BY ConcatAssociative

-----------------------------------------------------------------------------
(* The inductive invariant: what has been reached at each place of shrink. *)

Whole == sorted \o notSorted

Places == {"idle", "export", "read", "copy", "actual"}

TypeInv ==
    /\ sorted \in Seq(Records)
    /\ notSorted \in Seq(Records)
    /\ copied \in Seq(Records)
    /\ batches \in Seq(Blocks)
    /\ merged \in Blocks
    /\ pc \in Places

(* Before the merge: the batches are the index of what is read. *)
ReadInv == pc = "read" => batches # << >> /\ BatchesIndexPrefix

(* After it: the records copied are the first of those that a shrink keeps. *)
CopyInv ==
    /\ pc \in {"idle", "export", "read"} => copied = << >>
    /\ pc = "copy" =>
          /\ merged = ExportKeys(Whole)
          /\ Len(copied) <= Len(Shrunk(Whole))
          /\ \A i \in 1 .. Len(copied) : copied[i] = Shrunk(Whole)[i]
    /\ pc = "actual" => notSorted = << >>

Inv == TypeInv /\ ReadInv /\ CopyInv

LEMMA InvInit == Init => Inv
<1>1. EmptyBlock \in Blocks
  BY DEF EmptyBlock, Blocks
<1> QED
  BY <1>1 DEF Init, Inv, TypeInv, ReadInv, CopyInv, Places

LEMMA WholeProperties ==
    ASSUME Inv
    PROVE  /\ Whole \in Seq(Records)
           /\ Shrunk(Whole) \in Seq(Records)
           /\ ExportKeys(Whole) \in Blocks
           /\ Len(Shrunk(Whole)) = Cardinality(KeysOf(ExportKeys(Whole)))
<1>1. Whole \in Seq(Records)
  BY ConcatProperties DEF Whole, Inv, TypeInv
<1> QED
  BY <1>1, ShrunkProperties, ExportKeysType

-----------------------------------------------------------------------------
(* The steps. *)

LEMMA ExportSortedStep == ASSUME Inv, ExportSorted PROVE Inv'
<1> DEFINE block == ExportKeys(sorted)
           one == <<block>>
<1>1. /\ pc' = "read" /\ batches' = one
      /\ UNCHANGED <<sorted, notSorted, merged, copied>>
      /\ pc = "export"
  BY DEF ExportSorted, data
<1>2. /\ block \in Blocks /\ copied = << >>
      /\ sorted \in Seq(Records) /\ notSorted \in Seq(Records)
  BY <1>1, ExportKeysType DEF Inv, TypeInv, CopyInv
<1> HIDE DEF block
<1>3. one \in Seq(Blocks) /\ one # << >> /\ Len(one) = 1
  BY <1>2
<1>4. Merge(one) = block
  <2>1. Merge(one) \in Blocks /\ \A k \in Keys : Merge(one)[k] = block[k]
    BY <1>2, <1>3, MergeProperties, FindSingle
  <2> HIDE DEF one
  <2> QED
    BY <1>2, <2>1 DEF Blocks
<1> HIDE DEF one
<1>5. Consumed' = 0
  <2>1. Len(notSorted) \in Nat /\ BatchSize \in Nat
    BY <1>2, LenProperties, BatchAssumption
  <2>2. Consumed' = Min({Len(notSorted), (1 - 1) * BatchSize})
    BY <1>1, <1>3 DEF Consumed
  <2>3. (1 - 1) * BatchSize = 0
    BY <2>1
  <2> QED
    BY <2>1, <2>2, <2>3, MinOfTwo
<1>6. sorted \o SubSeq(notSorted, 1, 0) = sorted
  <2>1. SubSeq(notSorted, 1, 0) = << >>
    BY <1>2, SubSeqEmpty
  <2> QED
    BY <1>2, <2>1, ConcatEmptySeq
<1>7. BatchesIndexPrefix'
  BY <1>1, <1>4, <1>5, <1>6 DEF BatchesIndexPrefix, block
<1> QED
  BY <1>1, <1>2, <1>3, <1>7 DEF Inv, TypeInv, ReadInv, CopyInv, Places

LEMMA ReadBatchStep == ASSUME Inv, ReadBatch PROVE Inv'
<1> DEFINE last == BatchEnd(Consumed, Len(notSorted))
           block == BatchIndex(Consumed + 1, last)
           longer == <<block>> \o batches
           before == sorted \o SubSeq(notSorted, 1, Consumed)
           part == SubSeq(notSorted, Consumed + 1, last)
<1>1. /\ pc = "read" /\ pc' = "read"
      /\ Consumed < Len(notSorted)
      /\ batches' = longer
      /\ UNCHANGED <<sorted, notSorted, merged, copied>>
  BY DEF ReadBatch, data
<1>2. /\ sorted \in Seq(Records) /\ notSorted \in Seq(Records)
      /\ batches \in Seq(Blocks) /\ batches # << >>
      /\ Merge(batches) = ExportKeys(before)
      /\ copied = << >>
  BY <1>1 DEF Inv, TypeInv, ReadInv, CopyInv, BatchesIndexPrefix
<1>3. /\ Consumed \in 0 .. Len(notSorted)
      /\ last \in Consumed + 1 .. Len(notSorted)
      /\ last = Min({Len(notSorted), Len(batches) * BatchSize})
      /\ Len(notSorted) \in Nat
  BY <1>1, <1>2, ConsumedProperties, LenProperties
<1> HIDE DEF last
<1>4. /\ SubSeq(notSorted, 1, Consumed) \in Seq(Records)
      /\ Len(SubSeq(notSorted, 1, Consumed)) = Consumed
      /\ part \in Seq(Records)
      /\ SubSeq(notSorted, 1, Consumed) \o part = SubSeq(notSorted, 1, last)
  <2>1. last \in Consumed .. Len(notSorted)
    BY <1>3
  <2> QED
    BY <1>2, <1>3, <2>1, PartProperties
<1>5. /\ before \in Seq(Records)
      /\ Len(before) = Len(sorted) + Consumed
      /\ before \o part = sorted \o SubSeq(notSorted, 1, last)
      /\ Len(sorted) \in Nat
  <2> DEFINE read == SubSeq(notSorted, 1, Consumed)
  <2>1. read \in Seq(Records) /\ Len(read) = Consumed
    BY <1>4
  <2>2. read \o part = SubSeq(notSorted, 1, last)
    BY <1>4
  <2>3. before = sorted \o read
    OBVIOUS
  <2>6. part \in Seq(Records)
    BY <1>4
  <2> HIDE DEF read, part, before
  <2>4. (sorted \o read) \o part = sorted \o (read \o part)
    <3>1. sorted \in Seq(Records) /\ read \in Seq(Records) /\ part \in Seq(Records)
      BY <1>2, <2>1, <2>6
    <3> QED
      BY <3>1, ThreeParts
  <2>5. sorted \o read \in Seq(Records) /\ Len(sorted \o read) = Len(sorted) + Len(read)
    BY <1>2, <2>1, ConcatProperties
  <2> QED
    BY <1>2, <2>1, <2>2, <2>3, <2>4, <2>5, LenProperties
<1> HIDE DEF before
<1>6. /\ block \in Blocks
      /\ \A k \in Keys : block[k] =
             IF k \in StoredKeys(part) THEN Len(before) + LastPosition(part, k) - 1 ELSE NoIndex
  <2>1. part \in Seq(Records)
    BY <1>4
  <2>2. block = [k \in Keys |->
            IF k \in StoredKeys(part)
            THEN Len(sorted) + (Consumed + 1) + LastPosition(part, k) - 2
            ELSE NoIndex]
    BY DEF BatchIndex
  <2>5. Len(before) = Len(sorted) + Consumed /\ Len(sorted) \in Nat /\ Consumed \in Nat
    BY <1>3, <1>5
  <2> HIDE DEF block, part
  <2>3. ASSUME NEW k \in StoredKeys(part)
        PROVE  /\ Len(sorted) + (Consumed + 1) + LastPosition(part, k) - 2
                      = Len(before) + LastPosition(part, k) - 1
               /\ Len(before) + LastPosition(part, k) - 1 \in Nat
    <3>1. LastPosition(part, k) \in 1 .. Len(part)
      BY <2>1, LastPositionProperties
    <3> QED
      BY <2>5, <3>1
  <2>4. \A k \in Keys : block[k] =
            IF k \in StoredKeys(part) THEN Len(before) + LastPosition(part, k) - 1 ELSE NoIndex
    BY <2>2, <2>3
  <2> QED
    BY <2>2, <2>3, <2>4 DEF Blocks
<1> HIDE DEF block, part
<1>7. longer \in Seq(Blocks) /\ Len(longer) = Len(batches) + 1 /\ longer # << >>
  <2>1. longer \in Seq(Blocks) /\ Len(longer) = Len(batches) + 1 /\ Len(batches) \in Nat
    BY <1>2, <1>6, PushProperties, LenProperties
  <2> HIDE DEF longer
  <2> QED
    BY <2>1, EmptySeq
<1>8. Merge(longer) = ExportKeys(before \o part)
  <2>1. ASSUME NEW k \in Keys PROVE Merge(longer)[k] = ExportKeys(before \o part)[k]
    <3>1. Merge(longer)[k] = IF block[k] # NoIndex THEN block[k] ELSE Find(batches, k)
      <4>1. Merge(longer)[k] = Find(longer, k)
        BY <1>7, MergeProperties
      <4> QED
        BY <1>2, <1>6, <4>1, PushProperties
    <3>2. Find(batches, k) = ExportKeys(before)[k]
      BY <1>2, MergeProperties
    <3>3. ExportKeys(before \o part)[k] =
              IF k \in StoredKeys(part) THEN Len(before) + LastPosition(part, k) - 1
                                        ELSE ExportKeys(before)[k]
      BY <1>4, <1>5, ExportConcat
    <3>4. ASSUME k \in StoredKeys(part) PROVE block[k] # NoIndex
      <4>1. LastPosition(part, k) \in Nat \ {0}
        BY <1>4, <3>4, LastPositionProperties, LenProperties
      <4>2. Len(before) \in Nat
        BY <1>3, <1>5
      <4> QED
        BY <1>6, <3>4, <4>1, <4>2 DEF NoIndex
    <3> QED
      BY <1>6, <3>1, <3>2, <3>3, <3>4
  <2>2. Merge(longer) \in Blocks /\ ExportKeys(before \o part) \in Blocks
    BY <1>4, <1>5, <1>7, MergeProperties, ExportKeysType, ConcatProperties
  <2> QED
    BY <2>1, <2>2 DEF Blocks
<1> HIDE DEF longer
<1>9. Consumed' = last
  <2>1. Len(batches') - 1 = Len(batches)
    BY <1>1, <1>2, <1>7, LenProperties
  <2> QED
    BY <1>1, <1>3, <2>1 DEF Consumed
<1>10. BatchesIndexPrefix'
  <2>1. Merge(batches') = ExportKeys(sorted \o SubSeq(notSorted, 1, last))
    BY <1>1, <1>5, <1>8
  <2> QED
    BY <1>1, <1>9, <2>1 DEF BatchesIndexPrefix
<1> QED
  BY <1>1, <1>2, <1>7, <1>10 DEF Inv, TypeInv, ReadInv, CopyInv, Places

LEMMA MergeBatchesStep == ASSUME Inv, MergeBatches PROVE Inv'
<1>1. /\ pc = "read" /\ pc' = "copy"
      /\ Consumed = Len(notSorted)
      /\ merged' = Merge(batches)
      /\ UNCHANGED <<sorted, notSorted, batches, copied>>
  BY DEF MergeBatches, data
<1>2. SubSeq(notSorted, 1, Len(notSorted)) = notSorted
  BY SubSeqFull DEF Inv, TypeInv
<1>3. Merge(batches) = ExportKeys(Whole) /\ copied = << >>
  BY <1>1, <1>2 DEF Inv, ReadInv, CopyInv, BatchesIndexPrefix, Whole
<1>4. Whole' = Whole
  BY <1>1 DEF Whole
<1>5. merged' = ExportKeys(Whole) /\ ExportKeys(Whole) \in Blocks
  BY <1>1, <1>3, WholeProperties
<1>6. Len(Shrunk(Whole)) \in Nat
  BY WholeProperties, LenProperties
<1>7. TypeInv'
  BY <1>1, <1>5 DEF Inv, TypeInv, Places
<1>8. CopyInv'
  <2>1. UNCHANGED <<ExportKeys(Whole), Shrunk(Whole)>>
    BY <1>4
  <2>2. copied' = << >> /\ Len(copied') = 0
    BY <1>1, <1>3
  <2> QED
    BY <1>1, <1>5, <1>6, <2>1, <2>2 DEF CopyInv
<1> QED
  BY <1>1, <1>7, <1>8 DEF Inv, ReadInv

(* What CopyBatch writes at a place is what a shrink keeps there. *)
LEMMA CopyIsShrunk ==
    ASSUME Inv, pc = "copy", NEW place \in 1 .. Len(Shrunk(Whole))
    PROVE  CopyOf(place) = Shrunk(Whole)[place]
<1> DEFINE S == StoredKeys(Whole)
           k == KeyAt(S, place - 1)
           p == LastPosition(Whole, k)
<1>1. /\ Whole \in Seq(Records)
      /\ Len(Shrunk(Whole)) = Cardinality(S)
      /\ merged = ExportKeys(Whole)
      /\ KeysOf(merged) = S
  BY WholeProperties, ShrunkProperties, ExportKeysType DEF Inv, CopyInv
<1>2. S \in SUBSET Keys
  BY <1>1, StoredKeysType
<1>3. Shrunk(Whole)[place] = Whole[p]
  BY <1>1 DEF Shrunk
<1> HIDE DEF S
<1>4. S \in SUBSET Nat /\ IsFiniteSet(S) /\ Cardinality(S) \in Nat
  BY <1>2, KeysAssumption, FS_Subset, FS_CardinalityType
<1>5. place - 1 \in 0 .. Cardinality(S) - 1
  BY <1>1, <1>4
<1>6. k \in S
  BY <1>4, <1>5, KeyAtProperties
<1> HIDE DEF k
<1>7. p \in 1 .. Len(Whole) /\ Whole[p].key = k /\ Len(Whole) \in Nat
  BY <1>1, <1>6, LastPositionProperties, LenProperties DEF S
<1>8. merged[k] = p - 1
  BY <1>1, <1>2, <1>6 DEF ExportKeys, S
<1>9. Whole[p] \in Records
  BY <1>1, <1>7, ElementOfSeq
<1> HIDE DEF p
<1>10. CopyOf(place) = [key |-> k, value |-> Whole[merged[k] + 1].value]
  BY <1>1 DEF CopyOf, Whole, k
<1>11. merged[k] + 1 = p
  BY <1>7, <1>8
<1>12. Whole[p] = [key |-> k, value |-> Whole[p].value]
  BY <1>7, <1>9 DEF Records
<1> QED
  BY <1>3, <1>10, <1>11, <1>12

LEMMA CopyBatchStep == ASSUME Inv, CopyBatch PROVE Inv'
<1> DEFINE all == Len(Shrunk(Whole))
           done == Len(copied)
           last == BatchEnd(done, all)
           more == [i \in 1 .. last - done |-> CopyOf(done + i)]
<1>1. /\ Whole \in Seq(Records)
      /\ Shrunk(Whole) \in Seq(Records)
      /\ all = Cardinality(KeysOf(ExportKeys(Whole)))
  BY WholeProperties
<1>2. /\ pc = "copy" /\ pc' = "copy"
      /\ merged = ExportKeys(Whole)
      /\ UNCHANGED <<sorted, notSorted, batches, merged>>
      /\ copied \in Seq(Records)
      /\ \A i \in 1 .. done : copied[i] = Shrunk(Whole)[i]
  BY DEF CopyBatch, data, Inv, TypeInv, CopyInv
<1>3. done < all /\ copied' = copied \o more
  BY <1>1, <1>2 DEF CopyBatch
<1>4. all \in Nat /\ done \in Nat
  BY <1>1, <1>2, LenProperties
<1> HIDE DEF all, done
<1>5. last \in done + 1 .. all
  <2>1. last = IF all <= done + BatchSize THEN all ELSE done + BatchSize
    BY <1>4, BatchAssumption, MinOfTwo DEF BatchEnd
  <2> QED
    BY <1>3, <1>4, <2>1, BatchAssumption
<1> HIDE DEF last
<1>6. ASSUME NEW i \in 1 .. last - done
      PROVE  /\ done + i \in 1 .. all
             /\ more[i] = Shrunk(Whole)[done + i]
             /\ more[i] \in Records
  <2>1. done + i \in 1 .. all
    BY <1>4, <1>5
  <2>2. CopyOf(done + i) = Shrunk(Whole)[done + i]
    BY <1>2, <2>1, CopyIsShrunk DEF all
  <2>3. Shrunk(Whole)[done + i] \in Records
    <3> DEFINE new == Shrunk(Whole)
    <3>1. new \in Seq(Records) /\ done + i \in 1 .. Len(new)
      BY <1>1, <2>1 DEF all
    <3> HIDE DEF new
    <3>2. new[done + i] \in Records
      BY <3>1, ElementOfSeq
    <3> QED
      BY <3>2 DEF new
  <2> QED
    BY <2>1, <2>2, <2>3
<1>7. more \in Seq(Records) /\ Len(more) = last - done
  <2>1. last - done \in Nat
    BY <1>4, <1>5
  <2>2. more \in [1 .. last - done -> Records]
    BY <1>6
  <2> QED
    BY <2>1, <2>2
<1> HIDE DEF more
<1>8. /\ copied' \in Seq(Records)
      /\ Len(copied') = last
      /\ \A i \in 1 .. last : copied'[i] = Shrunk(Whole)[i]
  <2> DEFINE both == copied \o more
  <2>1. /\ both \in Seq(Records)
        /\ Len(both) = done + Len(more)
        /\ \A i \in 1 .. done + Len(more) :
               both[i] = IF i <= done THEN copied[i] ELSE more[i - done]
    BY <1>2, <1>7, ConcatProperties DEF done
  <2>2. copied' = both
    BY <1>3
  <2> HIDE DEF both
  <2>3. done + Len(more) = last
    BY <1>4, <1>5, <1>7
  <2>4. ASSUME NEW i \in 1 .. last PROVE both[i] = Shrunk(Whole)[i]
    <3>1. CASE i <= done
      BY <1>2, <1>4, <1>5, <2>1, <2>3, <3>1
    <3>2. CASE ~ (i <= done)
      <4>1. i - done \in 1 .. last - done /\ done + (i - done) = i
        BY <1>4, <1>5, <3>2
      <4> QED
        BY <1>6, <2>1, <2>3, <3>2, <4>1
    <3> QED
      BY <3>1, <3>2
  <2> QED
    BY <2>1, <2>2, <2>3, <2>4
<1>9. Whole' = Whole
  BY <1>2 DEF Whole
<1>10. Shrunk(Whole)' = Shrunk(Whole) /\ ExportKeys(Whole)' = ExportKeys(Whole)
  BY <1>9
<1>11. last <= Len(Shrunk(Whole))
  BY <1>4, <1>5 DEF all
<1>12. CopyInv'
  BY <1>2, <1>8, <1>10, <1>11 DEF CopyInv
<1>13. TypeInv'
  BY <1>2, <1>8 DEF Inv, TypeInv, Places
<1> QED
  BY <1>2, <1>12, <1>13 DEF Inv, ReadInv

(* When all is copied, the new file is the shrunk one. *)
LEMMA AllCopied ==
    ASSUME Inv, pc = "copy", Len(copied) = Cardinality(KeysOf(merged))
    PROVE  copied = Shrunk(Whole)
<1>1. /\ copied \in Seq(Records)
      /\ Shrunk(Whole) \in Seq(Records)
      /\ Len(copied) = Len(Shrunk(Whole))
      /\ \A i \in 1 .. Len(copied) : copied[i] = Shrunk(Whole)[i]
  BY WholeProperties DEF Inv, TypeInv, CopyInv
<1> DEFINE new == Shrunk(Whole)
<1> HIDE DEF new
<1>2. copied = new
  BY <1>1, SeqEqual DEF new
<1> QED
  BY <1>2 DEF new

LEMMA InvStep == Inv /\ [Next]_vars => Inv'
<1> SUFFICES ASSUME Inv, [Next]_vars PROVE Inv'
  OBVIOUS
<1>1. ASSUME NEW r \in Records, AppendItem(r) PROVE Inv'
  <2>1. notSorted' \in Seq(Records)
    BY <1>1, AppendProperties DEF AppendItem, Inv, TypeInv
  <2> QED
    BY <1>1, <2>1 DEF AppendItem, temporaries, Inv, TypeInv, ReadInv, CopyInv, Places
<1>2. CASE BeginShrink
  BY <1>2 DEF BeginShrink, data, temporaries, Inv, TypeInv, ReadInv, CopyInv, Places
<1>3. CASE ExportSorted
  BY <1>3, ExportSortedStep
<1>4. CASE ReadBatch
  BY <1>4, ReadBatchStep
<1>5. CASE MergeBatches
  BY <1>5, MergeBatchesStep
<1>6. CASE CopyBatch
  BY <1>6, CopyBatchStep
<1>7. CASE ResetWith
  BY <1>7 DEF ResetWith, temporaries, Inv, TypeInv, ReadInv, CopyInv, Places
(* What both ways out of shrink leave of the temporary files.               *)
<1>8. ASSUME NoTemporaries, pc' = "idle", UNCHANGED <<sorted, notSorted>> PROVE Inv'
  <2>1. EmptyBlock \in Blocks
    BY DEF EmptyBlock, Blocks
  <2> QED
    BY <1>8, <2>1 DEF NoTemporaries, Inv, TypeInv, ReadInv, CopyInv, Places
<1>9. CASE ReturnActual
  BY <1>8, <1>9 DEF ReturnActual
<1>10. CASE Throw
  BY <1>8, <1>10 DEF Throw, data
<1>11. CASE UNCHANGED vars
  <2>1. TypeInv'
    BY <1>11 DEF vars, Inv, TypeInv
  <2>2. UNCHANGED <<pc, batches, Consumed, sorted, notSorted>>
    BY <1>11 DEF vars, Consumed
  <2>3. BatchesIndexPrefix => BatchesIndexPrefix'
    BY <2>2 DEF BatchesIndexPrefix
  <2>4. UNCHANGED Whole
    BY <2>2 DEF Whole
  <2>5. CopyInv'
    BY <1>11, <2>4 DEF vars, Inv, CopyInv
  <2> QED
    BY <2>1, <2>2, <2>3, <2>5 DEF Inv, ReadInv
<1> QED
  BY <1>1, <1>2, <1>3, <1>4, <1>5, <1>6, <1>7, <1>9, <1>10, <1>11 DEF Next, ShrinkStep

LEMMA InvAlways == Spec => []Inv
BY InvInit, InvStep, PTL DEF Spec

(* Wherever the batches are cut, the files written so far are the exact     *)
(* index of the records read so far.                                        *)
THEOREM BatchesAlwaysIndexPrefix == Spec => []BatchesIndexPrefix
<1>1. Inv => BatchesIndexPrefix
  BY DEF Inv, ReadInv, BatchesIndexPrefix
<1> QED
  BY <1>1, InvAlways, PTL

-----------------------------------------------------------------------------
(* What the steps do to the data. *)

(* No step of a shrink, and no exception, changes the value of a key. *)
THEOREM ShrinkAlwaysKeepsValues == Spec => ShrinkKeepsValues
<1>1. ASSUME Inv, pc # "idle", [Next]_vars, NEW k \in Keys
      PROVE  ValueIn(sorted' \o notSorted', k) = ValueIn(sorted \o notSorted, k)
  <2>1. CASE ResetWith
    <3>1. pc = "copy" /\ sorted' = copied /\ notSorted' = << >>
      BY <2>1 DEF ResetWith
    <3>2. copied = Shrunk(Whole)
      BY <1>1, <2>1, AllCopied DEF ResetWith
    <3>3. copied \o << >> = copied
      BY <1>1, ConcatEmptySeq DEF Inv, TypeInv
    <3>4. ValueIn(Shrunk(Whole), k) = ValueIn(Whole, k)
      BY <1>1, WholeProperties, ShrunkProperties
    <3> QED
      BY <3>1, <3>2, <3>3, <3>4 DEF Whole
  <2>2. CASE UNCHANGED <<sorted, notSorted>>
    BY <2>2
  <2> QED
    BY <1>1, <2>1, <2>2
       DEF Next, ShrinkStep, AppendItem, BeginShrink, ExportSorted, ReadBatch,
           MergeBatches, CopyBatch, ReturnActual, Throw, data, vars
<1>2. Inv /\ [Next]_vars =>
          [pc # "idle" =>
              \A k \in Keys :
                  ValueIn(sorted' \o notSorted', k) = ValueIn(sorted \o notSorted, k)]_vars
  BY <1>1
<1> QED
  BY <1>2, InvAlways, PTL DEF Spec, ShrinkKeepsValues

(* The operators of the promise are those of the data file. *)
LEMMA PromiseOperators ==
    /\ \A d : Promise!Shrunk(d) = Shrunk(d)
    /\ \A d : Promise!ExportKeys(d) = ExportKeys(d)
    /\ Promise!Records = Records
    /\ Promise!EmptyBlock = EmptyBlock
<1>1. /\ Promise!Records = Records
      /\ \A d, k : Promise!LastPosition(d, k) = LastPosition(d, k)
      /\ \A d : Promise!StoredKeys(d) = StoredKeys(d)
      /\ \A S, n : Promise!KeyAt(S, n) = KeyAt(S, n)
  BY DEF Promise!Records, Records, Promise!LastPosition, LastPosition,
         Promise!StoredKeys, StoredKeys, Promise!KeyAt, KeyAt,
         Promise!Cardinality, Cardinality
<1>2. Promise!NoIndex = NoIndex
  BY DEF Promise!NoIndex, NoIndex
<1>3. Promise!EmptyBlock = EmptyBlock
  BY <1>2 DEF Promise!EmptyBlock, EmptyBlock
<1>4. \A d : Promise!ExportKeys(d) = ExportKeys(d)
  BY <1>1, <1>2 DEF Promise!ExportKeys, ExportKeys
<1>5. \A d : Promise!Shrunk(d) = Shrunk(d)
  BY <1>1 DEF Promise!Shrunk, Shrunk, Promise!Cardinality, Cardinality
<1> QED
  BY <1>1, <1>3, <1>4, <1>5

(* Batch by batch, and thrown out of at any point, a shrink is the shrink   *)
(* that is promised: one replacement of the data, and one index of it.      *)
THEOREM Implementation == Spec => ImplementsDataStorage
<1>1. Init => Promise!Init
  BY PromiseOperators DEF Init, Promise!Init
<1>2. Inv /\ [Next]_vars => [Promise!Next]_(Promise!vars)
  <2> SUFFICES ASSUME Inv, [Next]_vars PROVE [Promise!Next]_(Promise!vars)
    OBVIOUS
  <2>1. ASSUME NEW r \in Records, AppendItem(r) PROVE Promise!Next
    <3>1. Promise!AppendRecord(r)
      BY <2>1 DEF AppendItem, Promise!AppendRecord
    <3> QED
      BY <3>1, PromiseOperators DEF Promise!Next
  <2>2. CASE ResetWith
    <3>1. sorted' = Shrunk(sorted \o notSorted)
      BY <2>2, AllCopied DEF ResetWith, Whole
    <3>2. Promise!Rearrange
      BY <2>2, <3>1, PromiseOperators DEF ResetWith, Promise!Rearrange
    <3> QED
      BY <3>2 DEF Promise!Next
  <2>3. CASE ReturnActual
    <3>1. notSorted = << >>
      BY <2>3 DEF ReturnActual, Inv, CopyInv
    <3>2. Promise!HandOut
      BY <2>3, <3>1, PromiseOperators DEF ReturnActual, Promise!HandOut
    <3> QED
      BY <3>2 DEF Promise!Next
  <2>4. CASE UNCHANGED data
    BY <2>4 DEF data, Promise!vars
  <2> QED
    BY <2>1, <2>2, <2>3, <2>4
       DEF Next, ShrinkStep, BeginShrink, ExportSorted, ReadBatch, MergeBatches,
           CopyBatch, Throw, data, vars
<1> QED
  BY <1>1, <1>2, InvAlways, PTL DEF Spec, ImplementsDataStorage, Promise!Spec

=============================================================================
