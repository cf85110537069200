-------------------------- MODULE SortedMergeProofs ------------------------
(***************************************************************************)
(* The merge is right for any number of files of any lengths, any overlap  *)
(* of their keys and any size of the buffer: the new file is strictly      *)
(* sorted, has every key of the files, and each of them from the newest.   *)
(* Its bytes give back what was merged, up to the first item that a write  *)
(* has lost, by an index as well as in batches.                            *)
(***************************************************************************)
EXTENDS MergedFile, SequenceTheorems, NaturalsInduction,
        WellFoundedInduction, TLAPS

FilesAreSorted == \A f \in DOMAIN newer : Increasing(newer[f])

(* The smallest front of the files scanned so far is that of min, and no    *)
(* other file scanned has the same.                                         *)
ScanInv ==
    /\ min # 0 => i < min
    /\ \A f \in i + 1 .. storagesCount :
          HasFront(f) => /\ min # 0
                         /\ Front(min) <= Front(f)
                         /\ Front(min) = Front(f) => f = min

(* The keys still to come are larger than those written.                    *)
WrittenBelow ==
    \A w \in DOMAIN Written : \A f \in DOMAIN newer : \A n \in DOMAIN newer[f] :
        n > pointers[f] => Written[w].key < newer[f][n]

IsWritten(k) == \E w \in DOMAIN Written : Written[w].key = k

(* A newer file than f still has key k before it.                           *)
ComesFromNewer(f, k) ==
    \E g \in DOMAIN newer : \E n \in DOMAIN newer[g] :
        g > f /\ n > pointers[g] /\ newer[g][n] = k

(* A key that a file has passed is written, or will be from a newer file.   *)
PassedIsWritten ==
    \A f \in DOMAIN newer : \A n \in DOMAIN newer[f] :
        n <= pointers[f] =>
            IsWritten(newer[f][n]) \/ ComesFromNewer(f, newer[f][n])

DoneInv == done => i = 0 /\ min = 0 /\ writeBuffer = << >>

MergeInv ==
    /\ TypeOK
    /\ FilesAreSorted
    /\ ScanInv
    /\ WrittenBelow
    /\ PassedIsWritten
    /\ DoneInv
    /\ MergedIsSorted
    /\ NewestWins

-----------------------------------------------------------------------------
(* The files and their fronts. *)

LEMMA FilesAreFinite ==
    ASSUME TypeOK
    PROVE  /\ storagesCount \in Nat
           /\ DOMAIN newer = 1 .. storagesCount
           /\ \A f \in DOMAIN newer :
                 /\ Len(newer[f]) \in Nat
                 /\ DOMAIN newer[f] = 1 .. Len(newer[f])
                 /\ \A n \in DOMAIN newer[f] : newer[f][n] \in Keys /\ newer[f][n] \in Nat
                 /\ pointers[f] \in 0 .. Len(newer[f])
<1>1. newer \in Seq(Seq(Keys))
  BY DEF TypeOK
<1>2. storagesCount \in Nat /\ DOMAIN newer = 1 .. storagesCount
  BY <1>1 DEF storagesCount
<1>3. ASSUME NEW f \in DOMAIN newer
      PROVE  /\ Len(newer[f]) \in Nat
             /\ DOMAIN newer[f] = 1 .. Len(newer[f])
             /\ \A n \in DOMAIN newer[f] : newer[f][n] \in Keys
  <2>1. newer[f] \in Seq(Keys)
    BY <1>1
  <2> QED BY <2>1
<1>4. \A f \in DOMAIN newer : pointers[f] \in 0 .. Len(newer[f])
  BY <1>3 DEF TypeOK
<1> QED BY <1>2, <1>3, <1>4, KeysAreNumbers

(* The front of a file is the smallest of its keys that are to come.        *)
LEMMA FrontIsNext ==
    ASSUME TypeOK, FilesAreSorted, NEW f \in DOMAIN newer
    PROVE  /\ HasFront(f) => /\ pointers[f] + 1 \in DOMAIN newer[f]
                             /\ Front(f) \in Keys
                             /\ Front(f) \in Nat
           /\ \A n \in DOMAIN newer[f] : n > pointers[f] =>
                 /\ HasFront(f)
                 /\ Front(f) <= newer[f][n]
                 /\ n # pointers[f] + 1 => Front(f) < newer[f][n]
<1>1. /\ Len(newer[f]) \in Nat
      /\ DOMAIN newer[f] = 1 .. Len(newer[f])
      /\ \A n \in DOMAIN newer[f] : newer[f][n] \in Keys /\ newer[f][n] \in Nat
      /\ pointers[f] \in 0 .. Len(newer[f])
  BY FilesAreFinite
<1>2. HasFront(f) => pointers[f] + 1 \in DOMAIN newer[f]
  BY <1>1 DEF HasFront
<1>3. \A m, n \in DOMAIN newer[f] : m < n => newer[f][m] < newer[f][n]
  BY DEF FilesAreSorted, Increasing
<1>4. ASSUME NEW n \in DOMAIN newer[f], n > pointers[f]
      PROVE  /\ HasFront(f)
             /\ Front(f) <= newer[f][n]
             /\ n # pointers[f] + 1 => Front(f) < newer[f][n]
  <2>1. HasFront(f)
    BY <1>1, <1>4 DEF HasFront
  <2>2. n # pointers[f] + 1 => pointers[f] + 1 < n
    BY <1>1, <1>4
  <2> QED BY <1>1, <1>2, <1>3, <2>1, <2>2 DEF Front
<1> QED BY <1>1, <1>2, <1>4 DEF Front

(* The items written, wherever they are. *)
Items == [key : Keys, from : DOMAIN newer]

LEMMA ElementsOf ==
    ASSUME NEW S, NEW s \in Seq(S)
    PROVE  /\ Len(s) \in Nat
           /\ DOMAIN s = 1 .. Len(s)
           /\ \A n \in DOMAIN s : s[n] \in S
OBVIOUS

LEMMA AppendedElements ==
    ASSUME NEW S, NEW s \in Seq(S), NEW e \in S
    PROVE  /\ Append(s, e) \in Seq(S)
           /\ Len(Append(s, e)) = Len(s) + 1
           /\ DOMAIN Append(s, e) = 1 .. Len(s) + 1
           /\ \A n \in DOMAIN s : Append(s, e)[n] = s[n]
           /\ Append(s, e)[Len(s) + 1] = e
OBVIOUS

LEMMA AppendToConcatenation ==
    ASSUME NEW S, NEW s \in Seq(S), NEW t \in Seq(S), NEW e \in S
    PROVE  s \o Append(t, e) = Append(s \o t, e)
OBVIOUS

LEMMA WrittenType ==
    ASSUME TypeOK
    PROVE  /\ writeBuffer \in Seq(Items) /\ merged \in Seq(Items)
           /\ Written \in Seq(Items)
           /\ Len(Written) \in Nat
           /\ DOMAIN Written = 1 .. Len(Written)
           /\ \A w \in DOMAIN Written : Written[w] \in Items /\ Written[w].key \in Nat
<1>1. writeBuffer \in Seq(Items) /\ merged \in Seq(Items)
  BY DEF TypeOK, Items
<1>2. Written \in Seq(Items)
  BY <1>1 DEF Written
<1>3. \A e \in Items : e.key \in Nat
  BY KeysAreNumbers DEF Items
<1> QED BY <1>1, <1>2, <1>3, ElementsOf

(* What emitting the smallest item, in either way, does to what is written. *)
LEMMA EmitWrites ==
    ASSUME MergeInv, EmitToBuffer \/ EmitAndDrop
    PROVE  /\ i = 0 /\ min # 0
           /\ min \in DOMAIN newer /\ HasFront(min)
           /\ MinItem \in Items
           /\ Written' = Append(Written, MinItem)
           /\ writeBuffer' \in Seq(Items) /\ merged' \in Seq(Items)
           /\ Len(writeBuffer') < BatchSize
<1>1. i = 0 /\ min # 0
  BY DEF EmitToBuffer, EmitAndDrop, Emit
<1>2. min \in DOMAIN newer /\ HasFront(min)
  BY <1>1, FilesAreFinite DEF MergeInv, TypeOK
<1>3. MinItem \in Items
  BY <1>2, FrontIsNext DEF MergeInv, MinItem, Items
<1>4. writeBuffer \in Seq(Items) /\ merged \in Seq(Items)
  BY WrittenType DEF MergeInv
<1>5. << >> \in Seq(Items) /\ Len(<< >>) = 0
  OBVIOUS
<1>6. CASE EmitToBuffer
  <2>1. writeBuffer' = Append(writeBuffer, MinItem) /\ merged' = merged
    BY <1>6 DEF EmitToBuffer
  <2>2. Written' = Append(Written, MinItem)
    BY <2>1, <1>3, <1>4, AppendToConcatenation DEF Written
  <2>3. writeBuffer' \in Seq(Items) /\ Len(writeBuffer') = Len(writeBuffer) + 1
    BY <2>1, <1>3, <1>4, AppendedElements
  <2>4. Len(writeBuffer') < BatchSize
    BY <2>3, <1>6 DEF EmitToBuffer
  <2> QED BY <1>1, <1>2, <1>3, <1>4, <2>1, <2>2, <2>3, <2>4
<1>7. CASE EmitAndDrop
  <2>1. writeBuffer' = << >> /\ merged' = merged \o Append(writeBuffer, MinItem)
    BY <1>7 DEF EmitAndDrop
  <2>2. Append(writeBuffer, MinItem) \in Seq(Items)
    BY <1>3, <1>4, AppendedElements
  <2>3. merged' \in Seq(Items)
    BY <2>1, <2>2, <1>4
  <2>4. Written' = merged' \o << >>
    BY <2>1 DEF Written
  <2>5. Written' = merged'
    BY <2>3, <2>4
  <2>6. Written' = Append(Written, MinItem)
    BY <2>1, <2>5, <1>3, <1>4, AppendToConcatenation DEF Written
  <2>7. Len(writeBuffer') < BatchSize
    BY <2>1, <1>5, BatchAssumption
  <2> QED BY <1>1, <1>2, <1>3, <1>5, <2>1, <2>3, <2>6, <2>7
<1> QED BY <1>6, <1>7

-----------------------------------------------------------------------------
(* The invariant at the start. *)

LEMMA MergeInitially == Init => MergeInv
<1> SUFFICES ASSUME Init PROVE MergeInv
  OBVIOUS
<1>1. newer \in Seq(Seq(Keys)) /\ FilesAreSorted
  BY NewerAssumption DEF Init, FilesAreSorted
<1>2. Written = << >> /\ DOMAIN Written = {}
  BY DEF Init, Written
<1>3. TypeOK
  <2>1. storagesCount \in Nat /\ i \in 0 .. storagesCount /\ min \in 0 .. storagesCount
    BY <1>1 DEF Init, storagesCount
  <2>2. \A f \in DOMAIN newer : Len(newer[f]) \in Nat
    BY <1>1
  <2>3. pointers \in [DOMAIN newer -> Nat] /\ \A f \in DOMAIN newer : pointers[f] <= Len(newer[f])
    BY <2>2 DEF Init
  <2>4. writeBuffer \in Seq(Items) /\ merged \in Seq(Items)
    BY DEF Init
  <2>5. Len(writeBuffer) < BatchSize
    BY BatchAssumption DEF Init
  <2>6. min = 0 /\ done \in BOOLEAN
    BY DEF Init
  <2> QED BY <1>1, <2>1, <2>3, <2>4, <2>5, <2>6 DEF TypeOK, Items
<1>4. ScanInv
  BY <1>3, FilesAreFinite DEF Init, ScanInv
<1>5. PassedIsWritten
  BY <1>3, FilesAreFinite DEF Init, PassedIsWritten
<1>6. WrittenBelow /\ MergedIsSorted /\ NewestWins
  BY <1>2 DEF WrittenBelow, MergedIsSorted, NewestWins
<1>7. DoneInv
  BY DEF Init, DoneInv
<1> QED BY <1>1, <1>3, <1>4, <1>5, <1>6, <1>7 DEF MergeInv

-----------------------------------------------------------------------------
(* The steps of a scan. *)

(* What is written does not change, and the constructor has not returned.   *)
LEMMA ScanKeeps ==
    ASSUME MergeInv, Scan
    PROVE  /\ i \in DOMAIN newer /\ i' = i - 1 /\ i' \in 0 .. storagesCount
           /\ newer' = newer /\ Written' = Written
           /\ storagesCount' = storagesCount
           /\ FilesAreSorted' /\ MergedIsSorted' /\ NewestWins' /\ DoneInv'
<1>1. i \in 0 .. storagesCount /\ i > 0
  BY DEF MergeInv, TypeOK, Scan
<1>2. /\ i' = i - 1
      /\ newer' = newer /\ writeBuffer' = writeBuffer /\ merged' = merged /\ done' = done
  BY DEF Scan
<1>3. i \in DOMAIN newer /\ i' \in 0 .. storagesCount
  BY <1>1, <1>2, FilesAreFinite DEF MergeInv
<1>4. Written' = Written /\ storagesCount' = storagesCount
  BY <1>2 DEF Written, storagesCount
<1>5. FilesAreSorted'
  BY <1>2 DEF MergeInv, FilesAreSorted
<1>6. MergedIsSorted' /\ NewestWins'
  BY <1>2, <1>4 DEF MergeInv, MergedIsSorted, NewestWins, Holding
<1>7. ~ done
  BY <1>1 DEF MergeInv, DoneInv
<1>8. DoneInv'
  BY <1>2, <1>7 DEF DoneInv
<1> QED BY <1>2, <1>3, <1>4, <1>5, <1>6, <1>8

(* A step of the scan that passes no item. *)
LEMMA ScanWithoutUpdate ==
    ASSUME MergeInv, Scan, pointers' = pointers,
           min' \in 0 .. storagesCount, min' # 0 => HasFront(min'), ScanInv'
    PROVE  MergeInv'
<1>1. /\ i' \in 0 .. storagesCount /\ newer' = newer /\ Written' = Written
      /\ storagesCount' = storagesCount
      /\ FilesAreSorted' /\ MergedIsSorted' /\ NewestWins' /\ DoneInv'
  BY ScanKeeps
<1>2. TypeOK'
  BY <1>1 DEF Scan, MergeInv, TypeOK, HasFront
<1>3. WrittenBelow'
  BY <1>1 DEF MergeInv, WrittenBelow
<1>4. PassedIsWritten'
  BY <1>1 DEF MergeInv, PassedIsWritten, IsWritten, ComesFromNewer
<1> QED BY <1>1, <1>2, <1>3, <1>4 DEF MergeInv

LEMMA ScanExhaustedStep == ASSUME MergeInv, ScanExhausted PROVE MergeInv'
<1>1. Scan /\ pointers' = pointers /\ min' = min /\ ~ HasFront(i)
  BY DEF ScanExhausted
<1>2. i \in DOMAIN newer /\ i' = i - 1 /\ newer' = newer /\ storagesCount' = storagesCount
  BY <1>1, ScanKeeps
<1>3. storagesCount \in Nat /\ DOMAIN newer = 1 .. storagesCount
  BY FilesAreFinite DEF MergeInv
<1>4. min \in 0 .. storagesCount /\ (min # 0 => HasFront(min))
  BY DEF MergeInv, TypeOK
<1>5. ScanInv'
  <2>1. min' # 0 => i' < min'
    BY <1>1, <1>2, <1>3, <1>4 DEF MergeInv, ScanInv
  <2>2. ASSUME NEW f \in i' + 1 .. storagesCount, HasFront(f)
        PROVE  min # 0 /\ Front(min) <= Front(f) /\ (Front(min) = Front(f) => f = min)
    <3>1. f \in i + 1 .. storagesCount
      BY <1>1, <1>2, <1>3, <2>2
    <3> QED BY <3>1, <2>2 DEF MergeInv, ScanInv
  <2> QED BY <2>1, <2>2, <1>1, <1>2 DEF ScanInv, HasFront, Front
<1> QED BY <1>1, <1>4, <1>5, ScanWithoutUpdate

LEMMA ScanFirstStep == ASSUME MergeInv, ScanFirst PROVE MergeInv'
<1>1. Scan /\ pointers' = pointers /\ min = 0 /\ min' = i /\ HasFront(i)
  BY DEF ScanFirst
<1>2. i \in DOMAIN newer /\ i' = i - 1 /\ newer' = newer /\ storagesCount' = storagesCount
  BY <1>1, ScanKeeps
<1>3. storagesCount \in Nat /\ DOMAIN newer = 1 .. storagesCount
  BY FilesAreFinite DEF MergeInv
<1>4. Front(i) \in Nat
  BY <1>1, <1>2, FrontIsNext DEF MergeInv
<1>5. ScanInv'
  <2>1. i' < min'
    BY <1>1, <1>2, <1>3
  <2>2. ASSUME NEW f \in i' + 1 .. storagesCount, HasFront(f)
        PROVE  f = i
    <3>1. f \notin i + 1 .. storagesCount
      BY <1>1, <2>2 DEF MergeInv, ScanInv
    <3> QED BY <3>1, <1>2, <1>3
  <2>3. ASSUME NEW f \in i' + 1 .. storagesCount, HasFront(f)
        PROVE  i # 0 /\ Front(i) <= Front(f) /\ (Front(i) = Front(f) => f = i)
    BY <2>2, <2>3, <1>2, <1>3, <1>4
  <2> QED BY <2>1, <2>3, <1>1, <1>2 DEF ScanInv, HasFront, Front
<1> QED BY <1>1, <1>2, <1>3, <1>5, ScanWithoutUpdate

(* The files scanned before, whose fronts are compared with a new minimum.  *)
LEMMA ScannedBefore ==
    ASSUME MergeInv, Scan, HasFront(i), min # 0
    PROVE  /\ i < min /\ min \in DOMAIN newer /\ HasFront(min)
           /\ Front(i) \in Nat /\ Front(min) \in Nat
           /\ \A f \in i' + 1 .. storagesCount : f # i =>
                 /\ f \in i + 1 .. storagesCount
                 /\ f \in DOMAIN newer
                 /\ HasFront(f) => /\ Front(f) \in Nat
                                   /\ Front(min) <= Front(f)
                                   /\ Front(min) = Front(f) => f = min
<1>1. i \in DOMAIN newer /\ i' = i - 1
  BY ScanKeeps
<1>2. storagesCount \in Nat /\ DOMAIN newer = 1 .. storagesCount
  BY FilesAreFinite DEF MergeInv
<1>3. i < min /\ min \in DOMAIN newer /\ HasFront(min)
  BY <1>1, <1>2 DEF MergeInv, ScanInv, TypeOK
<1>4. Front(i) \in Nat /\ Front(min) \in Nat
  BY <1>1, <1>3, FrontIsNext DEF MergeInv
<1>5. ASSUME NEW f \in i' + 1 .. storagesCount, f # i
      PROVE  f \in i + 1 .. storagesCount /\ f \in DOMAIN newer
  BY <1>1, <1>2, <1>5
<1>6. ASSUME NEW f \in i + 1 .. storagesCount, f \in DOMAIN newer, HasFront(f)
      PROVE  Front(f) \in Nat /\ Front(min) <= Front(f) /\ (Front(min) = Front(f) => f = min)
  BY <1>6, FrontIsNext DEF MergeInv, ScanInv
<1> QED BY <1>3, <1>4, <1>5, <1>6

LEMMA ScanSmallerStep == ASSUME MergeInv, ScanSmaller PROVE MergeInv'
<1>1. /\ Scan /\ HasFront(i) /\ min # 0
      /\ pointers' = pointers /\ min' = i /\ Front(i) < Front(min)
  BY DEF ScanSmaller
<1>2. i \in DOMAIN newer /\ i' = i - 1 /\ newer' = newer /\ storagesCount' = storagesCount
  BY <1>1, ScanKeeps
<1>3. storagesCount \in Nat /\ DOMAIN newer = 1 .. storagesCount
  BY FilesAreFinite DEF MergeInv
<1>4. ScanInv'
  <2>1. i' < min' /\ i # 0
    BY <1>1, <1>2, <1>3
  <2>2. ASSUME NEW f \in i' + 1 .. storagesCount, HasFront(f)
        PROVE  Front(i) <= Front(f) /\ (Front(i) = Front(f) => f = i)
    BY <1>1, <2>2, ScannedBefore
  <2> QED BY <2>1, <2>2, <1>1, <1>2 DEF ScanInv, HasFront, Front
<1> QED BY <1>1, <1>2, <1>3, <1>4, ScanWithoutUpdate

LEMMA ScanLargerStep == ASSUME MergeInv, ScanLarger PROVE MergeInv'
<1>1. /\ Scan /\ HasFront(i) /\ min # 0
      /\ pointers' = pointers /\ min' = min /\ Front(i) > Front(min)
  BY DEF ScanLarger
<1>2. i \in DOMAIN newer /\ i' = i - 1 /\ newer' = newer /\ storagesCount' = storagesCount
  BY <1>1, ScanKeeps
<1>3. storagesCount \in Nat /\ DOMAIN newer = 1 .. storagesCount
  BY FilesAreFinite DEF MergeInv
<1>4. ScanInv'
  <2>1. i' < min' /\ min' # 0
    BY <1>1, <1>2, <1>3, ScannedBefore
  <2>2. ASSUME NEW f \in i' + 1 .. storagesCount, HasFront(f)
        PROVE  Front(min) <= Front(f) /\ (Front(min) = Front(f) => f = min)
    BY <1>1, <2>2, ScannedBefore
  <2> QED BY <2>1, <2>2, <1>1, <1>2 DEF ScanInv, HasFront, Front
<1>5. min \in 0 .. storagesCount /\ HasFront(min)
  BY <1>1 DEF MergeInv, TypeOK
<1> QED BY <1>1, <1>4, <1>5, ScanWithoutUpdate

(* A file passes an item: what is behind its pointer only becomes less.     *)
LEMMA UpdateProperties ==
    ASSUME TypeOK, NEW f \in DOMAIN newer, HasFront(f), Update(f)
    PROVE  /\ pointers' \in [DOMAIN newer -> Nat]
           /\ pointers'[f] = pointers[f] + 1
           /\ pointers'[f] <= Len(newer[f])
           /\ \A g \in DOMAIN newer : g # f => pointers'[g] = pointers[g]
           /\ \A g \in DOMAIN newer : \A n \in DOMAIN newer[g] :
                 n > pointers'[g] => n > pointers[g]
<1>1. pointers \in [DOMAIN newer -> Nat] /\ pointers' = [pointers EXCEPT ![f] = pointers[f] + 1]
  BY DEF TypeOK, Update
<1>2. /\ pointers' \in [DOMAIN newer -> Nat]
      /\ pointers'[f] = pointers[f] + 1
      /\ \A g \in DOMAIN newer : g # f => pointers'[g] = pointers[g]
  BY <1>1
<1>3. \A g \in DOMAIN newer : Len(newer[g]) \in Nat /\ DOMAIN newer[g] = 1 .. Len(newer[g])
  BY FilesAreFinite
<1>4. pointers'[f] <= Len(newer[f])
  BY <1>1, <1>2, <1>3 DEF HasFront
<1>5. ASSUME NEW g \in DOMAIN newer, NEW n \in DOMAIN newer[g], n > pointers'[g]
      PROVE  n > pointers[g]
  <2>1. pointers[g] \in Nat /\ n \in Nat
    BY <1>1, <1>3
  <2>2. pointers'[g] = pointers[g] + 1 \/ pointers'[g] = pointers[g]
    BY <1>2
  <2> QED BY <2>1, <2>2, <1>5
<1> QED BY <1>2, <1>4, <1>5

LEMMA ScanDuplicateStep == ASSUME MergeInv, ScanDuplicate PROVE MergeInv'
<1>1. /\ Scan /\ HasFront(i) /\ min # 0 /\ min' = min
      /\ Update(i) /\ Front(i) = Front(min)
  BY DEF ScanDuplicate
<1>2. /\ i \in DOMAIN newer /\ i' = i - 1 /\ i' \in 0 .. storagesCount
      /\ newer' = newer /\ Written' = Written
      /\ storagesCount' = storagesCount
      /\ FilesAreSorted' /\ MergedIsSorted' /\ NewestWins' /\ DoneInv'
  BY <1>1, ScanKeeps
<1>3. storagesCount \in Nat /\ DOMAIN newer = 1 .. storagesCount
  BY FilesAreFinite DEF MergeInv
<1>4. /\ pointers' \in [DOMAIN newer -> Nat]
      /\ pointers'[i] = pointers[i] + 1
      /\ pointers'[i] <= Len(newer[i])
      /\ \A g \in DOMAIN newer : g # i => pointers'[g] = pointers[g]
      /\ \A g \in DOMAIN newer : \A n \in DOMAIN newer[g] :
            n > pointers'[g] => n > pointers[g]
  BY <1>1, <1>2, UpdateProperties DEF MergeInv
<1>5. i < min /\ min \in DOMAIN newer /\ HasFront(min) /\ Front(min) \in Nat
  BY <1>1, ScannedBefore
<1>6. \A g \in DOMAIN newer : g # i =>
         (HasFront(g)' <=> HasFront(g)) /\ Front(g)' = Front(g)
  BY <1>2, <1>4 DEF HasFront, Front
<1>7. i \in Nat /\ min # i
  BY <1>2, <1>3, <1>5
<1>8. TypeOK'
  <2>1. \A f \in DOMAIN newer : pointers'[f] <= Len(newer[f])
    BY <1>4 DEF MergeInv, TypeOK
  <2>2. HasFront(min)'
    BY <1>1, <1>5, <1>6, <1>7
  <2> QED BY <1>1, <1>2, <1>4, <2>1, <2>2 DEF Scan, MergeInv, TypeOK
<1>9. Front(min)' = Front(min)
  BY <1>1, <1>5, <1>6, <1>7 DEF Front
<1>10. ScanInv'
  <2>1. i' < min'
    BY <1>1, <1>2, <1>3, <1>5
  <2>2. ASSUME NEW f \in i' + 1 .. storagesCount, HasFront(f)'
        PROVE  Front(min) <= Front(f)' /\ (Front(min) = Front(f)' => f = min)
    <3>1. CASE f = i
      <4>1. pointers'[i] + 1 \in DOMAIN newer[i]
        BY <2>2, <3>1, <1>2, <1>4, FilesAreFinite DEF HasFront, MergeInv
      <4>2. Front(i) < newer[i][pointers'[i] + 1]
        <5>1. pointers[i] \in Nat
          BY <1>2 DEF MergeInv, TypeOK
        <5>2. /\ pointers'[i] + 1 > pointers[i]
              /\ pointers'[i] + 1 # pointers[i] + 1
          BY <5>1, <1>4
        <5> QED BY <4>1, <5>2, <1>2, FrontIsNext DEF MergeInv
      <4>3. newer[i][pointers'[i] + 1] \in Nat
        BY <4>1, <1>2, FilesAreFinite DEF MergeInv
      <4>4. Front(f)' = newer[i][pointers'[i] + 1]
        BY <3>1, <1>2 DEF Front
      <4> QED BY <4>2, <4>3, <4>4, <1>1, <1>5
    <3>2. CASE f # i
      BY <2>2, <3>2, <1>1, <1>6, ScannedBefore
    <3> QED BY <3>1, <3>2
  <2> QED BY <2>1, <2>2, <1>1, <1>2, <1>9 DEF ScanInv
<1>11. WrittenBelow'
  BY <1>2, <1>4 DEF MergeInv, WrittenBelow
<1>12. PassedIsWritten'
  <2> SUFFICES ASSUME NEW f \in DOMAIN newer, NEW n \in DOMAIN newer[f], n <= pointers'[f],
                      ~ IsWritten(newer[f][n])
               PROVE  \E g \in DOMAIN newer : \E m \in DOMAIN newer[g] :
                         g > f /\ m > pointers'[g] /\ newer[g][m] = newer[f][n]
    BY <1>2 DEF PassedIsWritten, IsWritten, ComesFromNewer
  <2> DEFINE next == pointers[min] + 1
  <2>1. next \in DOMAIN newer[min] /\ newer[min][next] = Front(min) /\ next > pointers'[min]
    BY <1>4, <1>5, <1>7, FrontIsNext, FilesAreFinite DEF MergeInv, Front
  <2>2. CASE n <= pointers[f]
    <3>1. PICK g \in DOMAIN newer : \E m \in DOMAIN newer[g] :
             g > f /\ m > pointers[g] /\ newer[g][m] = newer[f][n]
      BY <2>2 DEF MergeInv, PassedIsWritten, ComesFromNewer
    <3>2. PICK m \in DOMAIN newer[g] :
             g > f /\ m > pointers[g] /\ newer[g][m] = newer[f][n]
      BY <3>1
    <3>3. CASE g = i /\ m = pointers[i] + 1
      <4>1. newer[f][n] = Front(min)
        BY <3>2, <3>3, <1>1 DEF Front
      <4>2. min > f
        BY <3>2, <3>3, <1>3, <1>5
      <4> QED BY <4>1, <4>2, <2>1, <1>5
    <3>4. CASE g = i /\ m # pointers[i] + 1
      <4>1. m > pointers'[g]
        BY <3>2, <3>4, <1>2, <1>4, FilesAreFinite DEF MergeInv
      <4> QED BY <4>1, <3>2
    <3>5. CASE g # i
      BY <3>2, <3>5, <1>4
    <3> QED BY <3>3, <3>4, <3>5
  <2>3. CASE ~ (n <= pointers[f])
    <3>1. f = i
      BY <2>3, <1>4
    <3>2. n = pointers[i] + 1
      BY <2>3, <3>1, <1>2, <1>4, FilesAreFinite DEF MergeInv
    <3>3. newer[f][n] = Front(min)
      BY <3>1, <3>2, <1>1 DEF Front
    <3> QED BY <3>1, <3>3, <2>1, <1>3, <1>5
  <2> QED BY <2>2, <2>3
<1> QED BY <1>2, <1>8, <1>10, <1>11, <1>12 DEF MergeInv

-----------------------------------------------------------------------------
(* The item that is emitted, and the end. *)

LEMMA EmitStep == ASSUME MergeInv, EmitToBuffer \/ EmitAndDrop PROVE MergeInv'
<1> DEFINE key == Front(min)
<1> DEFINE last == Len(Written) + 1
<1>1. /\ i = 0 /\ min # 0
      /\ min \in DOMAIN newer /\ HasFront(min)
      /\ MinItem \in Items
      /\ Written' = Append(Written, MinItem)
      /\ writeBuffer' \in Seq(Items) /\ merged' \in Seq(Items)
      /\ Len(writeBuffer') < BatchSize
  BY EmitWrites
<1>2. /\ Update(min) /\ i' = storagesCount /\ min' = 0
      /\ newer' = newer /\ done' = done
  BY DEF EmitToBuffer, EmitAndDrop, Emit
<1>3. storagesCount \in Nat /\ DOMAIN newer = 1 .. storagesCount
  BY FilesAreFinite DEF MergeInv
<1>4. /\ pointers' \in [DOMAIN newer -> Nat]
      /\ pointers'[min] = pointers[min] + 1
      /\ pointers'[min] <= Len(newer[min])
      /\ \A g \in DOMAIN newer : g # min => pointers'[g] = pointers[g]
      /\ \A g \in DOMAIN newer : \A n \in DOMAIN newer[g] :
            n > pointers'[g] => n > pointers[g]
  BY <1>1, <1>2, UpdateProperties DEF MergeInv
<1>5. key \in Nat /\ MinItem.key = key /\ MinItem.from = min
  BY <1>1, FrontIsNext DEF MergeInv, MinItem
<1>6. /\ Len(Written) \in Nat /\ DOMAIN Written = 1 .. Len(Written)
      /\ \A w \in DOMAIN Written : Written[w].key \in Nat
  BY WrittenType DEF MergeInv
<1>7. /\ DOMAIN Written' = 1 .. last
      /\ \A w \in DOMAIN Written : Written'[w] = Written[w]
      /\ Written'[last] = MinItem
  <2>1. Written \in Seq(Items)
    BY WrittenType DEF MergeInv
  <2> QED BY <2>1, <1>1, AppendedElements
<1> HIDE DEF last
<1>8. \A w \in DOMAIN Written' : w \in DOMAIN Written \/ w = last
  BY <1>6, <1>7 DEF last
<1>9. last \in DOMAIN Written' /\ \A w \in DOMAIN Written : w \in DOMAIN Written' /\ w < last
  BY <1>6, <1>7 DEF last
<1>10. TypeOK'
  <2>1. \A f \in DOMAIN newer : pointers'[f] <= Len(newer[f])
    BY <1>4 DEF MergeInv, TypeOK
  <2>2. storagesCount' = storagesCount
    BY <1>2 DEF storagesCount
  <2>3. i' \in 0 .. storagesCount' /\ min' \in 0 .. storagesCount'
    BY <1>2, <1>3, <2>2
  <2>4. \A items \in {writeBuffer', merged'} :
           items \in Seq([key : Keys, from : DOMAIN newer'])
    BY <1>1, <1>2 DEF Items
  <2> QED BY <1>1, <1>2, <1>4, <2>1, <2>3, <2>4 DEF MergeInv, TypeOK
<1>11. FilesAreSorted'
  BY <1>2 DEF MergeInv, FilesAreSorted
<1>12. ScanInv'
  <2>1. i' + 1 .. storagesCount' = {}
    BY <1>2, <1>3 DEF storagesCount
  <2> QED BY <1>2, <2>1 DEF ScanInv
<1>13. DoneInv'
  <2>1. ~ done
    BY <1>1 DEF MergeInv, DoneInv
  <2> QED BY <1>2, <2>1 DEF DoneInv

(* What is still to come is larger than the item emitted. *)
<1>14. ASSUME NEW f \in DOMAIN newer, NEW n \in DOMAIN newer[f], n > pointers'[f]
       PROVE  key < newer[f][n]
  <2>1. n > pointers[f]
    BY <1>4, <1>14
  <2>2. newer[f][n] \in Nat
    BY FilesAreFinite DEF MergeInv
  <2>3. CASE f = min
    <3>1. n # pointers[min] + 1
      BY <1>4, <1>14, <2>3, FilesAreFinite DEF MergeInv
    <3> QED BY <2>1, <2>3, <3>1, FrontIsNext DEF MergeInv
  <2>4. CASE f # min
    <3>1. HasFront(f) /\ Front(f) <= newer[f][n]
      BY <2>1, FrontIsNext DEF MergeInv
    <3>2. f \in i + 1 .. storagesCount
      BY <1>1, <1>3
    <3>3. key <= Front(f) /\ key # Front(f)
      BY <2>4, <3>1, <3>2 DEF MergeInv, ScanInv
    <3>4. Front(f) \in Nat
      BY <3>1, FrontIsNext DEF MergeInv
    <3> QED BY <1>5, <2>2, <3>1, <3>3, <3>4
  <2> QED BY <2>3, <2>4
<1>15. WrittenBelow'
  <2>1. ASSUME NEW w \in DOMAIN Written', NEW f \in DOMAIN newer,
               NEW n \in DOMAIN newer[f], n > pointers'[f]
        PROVE  Written'[w].key < newer[f][n]
    <3>1. CASE w \in DOMAIN Written
      BY <3>1, <1>4, <1>7, <2>1 DEF MergeInv, WrittenBelow
    <3>2. CASE w = last
      BY <3>2, <1>5, <1>7, <1>14, <2>1
    <3> QED BY <1>8, <3>1, <3>2
  <2> QED BY <2>1, <1>2 DEF WrittenBelow

(* The item emitted is larger than those written, so that it is a new key.  *)
<1>16. \A w \in DOMAIN Written : Written[w].key < key
  <2>1. pointers[min] + 1 \in DOMAIN newer[min] /\ newer[min][pointers[min] + 1] = key
    BY <1>1, FrontIsNext DEF MergeInv, Front
  <2>2. pointers[min] + 1 > pointers[min]
    BY <1>1, FilesAreFinite DEF MergeInv
  <2> QED BY <2>1, <2>2, <1>1 DEF MergeInv, WrittenBelow
<1>17. MergedIsSorted'
  <2> SUFFICES ASSUME NEW m \in DOMAIN Written', NEW n \in DOMAIN Written', m < n
               PROVE  Written'[m].key < Written'[n].key
    BY DEF MergedIsSorted
  <2>1. m \in DOMAIN Written
    BY <1>6, <1>7 DEF last
  <2>2. CASE n \in DOMAIN Written
    BY <2>1, <2>2, <1>7 DEF MergeInv, MergedIsSorted
  <2>3. CASE n = last
    BY <2>1, <2>3, <1>5, <1>7, <1>16
  <2> QED BY <1>8, <2>2, <2>3

(* A newer file that has the key would have its front there, or would have  *)
(* passed it: then the key is written, or a still newer file has it.        *)
<1>18. ASSUME NEW f \in DOMAIN newer, NEW n \in DOMAIN newer[f],
              n > pointers[f], newer[f][n] = key
       PROVE  f = min
  <2>1. HasFront(f) /\ Front(f) <= key /\ Front(f) \in Nat
    BY <1>18, FrontIsNext DEF MergeInv
  <2>2. f \in i + 1 .. storagesCount
    BY <1>1, <1>3
  <2> QED BY <1>5, <2>1, <2>2 DEF MergeInv, ScanInv
<1>19. \A f \in Holding(key) : f <= min
  <2> SUFFICES ASSUME NEW f \in DOMAIN newer, NEW n \in DOMAIN newer[f],
                      newer[f][n] = key, ~ (f <= min)
               PROVE  FALSE
    BY DEF Holding
  <2>1. f > min /\ f # min
    BY <1>1, <1>3
  <2>2. n <= pointers[f]
    <3>1. n \in Nat /\ pointers[f] \in Nat
      BY FilesAreFinite DEF MergeInv
    <3> QED BY <3>1, <2>1, <1>18
  <2>3. ~ IsWritten(key)
    BY <1>5, <1>6, <1>16 DEF IsWritten
  <2>4. ComesFromNewer(f, key)
    BY <2>2, <2>3 DEF MergeInv, PassedIsWritten
  <2>5. PICK g \in DOMAIN newer : \E m \in DOMAIN newer[g] :
           g > f /\ m > pointers[g] /\ newer[g][m] = key
    BY <2>4 DEF ComesFromNewer
  <2>6. g = min
    BY <2>5, <1>18
  <2> QED BY <2>1, <2>5, <2>6, <1>3
<1>20. NewestWins'
  <2>1. min \in Holding(key)
    BY <1>1, FrontIsNext DEF MergeInv, Holding, Front
  <2>2. ASSUME NEW w \in DOMAIN Written'
        PROVE  /\ Written'[w].from \in Holding(Written'[w].key)
               /\ \A f \in Holding(Written'[w].key) : f <= Written'[w].from
    <3>1. CASE w \in DOMAIN Written
      BY <3>1, <1>7 DEF MergeInv, NewestWins
    <3>2. CASE w = last
      BY <3>2, <1>5, <1>7, <1>19, <2>1
    <3> QED BY <1>8, <3>1, <3>2
  <2> QED BY <2>2, <1>2 DEF NewestWins, Holding
<1>21. PassedIsWritten'
  <2>1. \E w \in DOMAIN Written' : Written'[w].key = key
    BY <1>5, <1>7, <1>9
  <2>2. ASSUME NEW k, IsWritten(k) PROVE IsWritten(k)'
    BY <2>2, <1>7, <1>9 DEF IsWritten
  <2> SUFFICES ASSUME NEW f \in DOMAIN newer, NEW n \in DOMAIN newer[f], n <= pointers'[f],
                      newer[f][n] # key, ~ IsWritten(newer[f][n])
               PROVE  \E g \in DOMAIN newer : \E m \in DOMAIN newer[g] :
                         g > f /\ m > pointers'[g] /\ newer[g][m] = newer[f][n]
    BY <2>1, <2>2, <1>2, <1>7, <1>9, <1>5 DEF PassedIsWritten, IsWritten, ComesFromNewer
  <2>3. n <= pointers[f]
    <3>1. n \in Nat /\ pointers[f] \in Nat
      BY FilesAreFinite DEF MergeInv
    <3>2. f = min /\ n = pointers[min] + 1 => newer[f][n] = key
      BY DEF Front
    <3> QED BY <3>1, <3>2, <1>4
  <2>4. PICK g \in DOMAIN newer : \E m \in DOMAIN newer[g] :
           g > f /\ m > pointers[g] /\ newer[g][m] = newer[f][n]
    BY <2>3 DEF MergeInv, PassedIsWritten, ComesFromNewer
  <2>5. PICK m \in DOMAIN newer[g] :
           g > f /\ m > pointers[g] /\ newer[g][m] = newer[f][n]
    BY <2>4
  <2>6. m > pointers'[g]
    <3>1. m \in Nat /\ pointers[g] \in Nat
      BY FilesAreFinite DEF MergeInv
    <3>2. g = min => m # pointers[min] + 1
      BY <2>5 DEF Front
    <3> QED BY <2>5, <3>1, <3>2, <1>4
  <2> QED BY <2>5, <2>6
<1> QED BY <1>10, <1>11, <1>12, <1>13, <1>15, <1>17, <1>20, <1>21 DEF MergeInv

LEMMA FinishStep == ASSUME MergeInv, Finish PROVE MergeInv'
<1>1. /\ i' = i /\ min' = min /\ i = 0 /\ min = 0
      /\ newer' = newer /\ pointers' = pointers
      /\ merged' = merged \o writeBuffer /\ writeBuffer' = << >> /\ done' = TRUE
  BY DEF Finish
<1>2. writeBuffer \in Seq(Items) /\ merged \in Seq(Items)
  BY WrittenType DEF MergeInv
<1>3. merged' \in Seq(Items) /\ writeBuffer' \in Seq(Items) /\ Len(writeBuffer') = 0
  BY <1>1, <1>2
<1>4. Written' = Written
  <2>1. Written' = merged' \o << >>
    BY <1>1 DEF Written
  <2>2. Written' = merged'
    BY <1>3, <2>1
  <2> QED BY <1>1, <2>2 DEF Written
<1>5. TypeOK'
  <2>1. \A items \in {writeBuffer', merged'} :
           items \in Seq([key : Keys, from : DOMAIN newer'])
    BY <1>1, <1>3 DEF Items
  <2>2. Len(writeBuffer') < BatchSize
    BY <1>3, BatchAssumption
  <2> QED BY <1>1, <2>1, <2>2 DEF MergeInv, TypeOK, storagesCount, HasFront
<1>6. FilesAreSorted' /\ ScanInv'
  BY <1>1 DEF MergeInv, FilesAreSorted, ScanInv, HasFront, Front, storagesCount
<1>7. WrittenBelow' /\ MergedIsSorted' /\ NewestWins'
  BY <1>1, <1>4 DEF MergeInv, WrittenBelow, MergedIsSorted, NewestWins, Holding
<1>8. PassedIsWritten'
  BY <1>1, <1>4 DEF MergeInv, PassedIsWritten, IsWritten, ComesFromNewer
<1>9. DoneInv'
  BY <1>1 DEF DoneInv
<1> QED BY <1>5, <1>6, <1>7, <1>8, <1>9 DEF MergeInv

-----------------------------------------------------------------------------
(* The theorems. *)

LEMMA MergeStep == MergeInv /\ [Next]_vars => MergeInv'
<1> SUFFICES ASSUME MergeInv, [Next]_vars PROVE MergeInv'
  OBVIOUS
<1>1. CASE UNCHANGED vars
  <2>1. TypeOK'
    BY <1>1 DEF vars, MergeInv, TypeOK, storagesCount, HasFront
  <2>2. FilesAreSorted' /\ DoneInv'
    BY <1>1 DEF vars, MergeInv, FilesAreSorted, DoneInv
  <2>3. ScanInv'
    BY <1>1 DEF vars, MergeInv, ScanInv, storagesCount, HasFront, Front
  <2>4. WrittenBelow' /\ MergedIsSorted' /\ NewestWins'
    BY <1>1 DEF vars, MergeInv, WrittenBelow, MergedIsSorted, NewestWins, Holding, Written
  <2>5. PassedIsWritten'
    BY <1>1 DEF vars, MergeInv, PassedIsWritten, IsWritten, ComesFromNewer, Written
  <2> QED BY <2>1, <2>2, <2>3, <2>4, <2>5 DEF MergeInv
<1>2. CASE Next
  BY <1>2, ScanExhaustedStep, ScanFirstStep, ScanSmallerStep, ScanDuplicateStep,
     ScanLargerStep, EmitStep, FinishStep DEF Next
<1> QED BY <1>1, <1>2

LEMMA MergeAlways == FileSpec => []MergeInv
<1>1. FileInit => MergeInv
  BY MergeInitially DEF FileInit
<1>2. MergeInv /\ [FileNext]_<<vars, fileVars>> => MergeInv'
  <2> SUFFICES ASSUME [FileNext]_<<vars, fileVars>> PROVE [Next]_vars
    BY MergeStep
  <2> QED BY DEF FileNext
<1> QED BY <1>1, <1>2, PTL DEF FileSpec

(* No file is read past its end, and the buffer stays below a batch.        *)
THEOREM TypeCorrect == FileSpec => []TypeOK
<1>1. MergeInv => TypeOK
  BY DEF MergeInv
<1> QED BY <1>1, MergeAlways, PTL

(* The new file is strictly sorted at every moment. *)
THEOREM MergeIsSorted == FileSpec => []MergedIsSorted
<1>1. MergeInv => MergedIsSorted
  BY DEF MergeInv
<1> QED BY <1>1, MergeAlways, PTL

(* Every item written comes from the newest of the files that hold its key. *)
THEOREM NewestAlwaysWins == FileSpec => []NewestWins
<1>1. MergeInv => NewestWins
  BY DEF MergeInv
<1> QED BY <1>1, MergeAlways, PTL

(* When the constructor returns, every key of every file is in the new one: *)
(* the files are exhausted, so that no key can still be to come.            *)
THEOREM NothingIsEverLost == FileSpec => []NothingIsLost
<1>1. MergeInv => NothingIsLost
  <2> SUFFICES ASSUME MergeInv, done, NEW k \in Keys, NEW f \in DOMAIN newer,
                      NEW n \in DOMAIN newer[f], newer[f][n] = k
               PROVE  \E w \in DOMAIN merged : merged[w].key = k
    BY DEF NothingIsLost, Holding
  <2>1. i = 0 /\ min = 0 /\ writeBuffer = << >>
    BY DEF MergeInv, DoneInv
  <2>2. \A g \in DOMAIN newer : ~ HasFront(g)
    BY <2>1, FilesAreFinite DEF MergeInv, ScanInv
  <2>3. \A g \in DOMAIN newer : \A m \in DOMAIN newer[g] : ~ (m > pointers[g])
    BY <2>2, FrontIsNext DEF MergeInv
  <2>4. n <= pointers[f]
    BY <2>3, FilesAreFinite DEF MergeInv
  <2>5. IsWritten(k)
    BY <2>3, <2>4 DEF MergeInv, PassedIsWritten, ComesFromNewer
  <2>6. Written = merged
    <3>1. merged \in Seq(Items)
      BY WrittenType DEF MergeInv
    <3> QED BY <2>1, <3>1 DEF Written
  <2> QED BY <2>5, <2>6 DEF IsWritten
<1> QED BY <1>1, MergeAlways, PTL

-----------------------------------------------------------------------------
(* The file: what is written to it in units is read from it in items. *)

(* A set of numbers has a smallest one: what is missing for some number is  *)
(* missing for a first one.                                                 *)
LEMMA LeastNumber ==
    ASSUME NEW S \in SUBSET Nat, S # {}
    PROVE  \E n \in S : \A m \in S : n <= m
<1> DEFINE Less == OpToRel(<, Nat)
<1>1. ASSUME NEW x \in Nat, NEW y \in Nat, <<x, y>> \notin Less
      PROVE  y <= x
  BY <1>1 DEF OpToRel
<1>2. IsWellFoundedOn(Less, Nat)
  BY NatLessThanWellFounded
<1> HIDE DEF Less
<1>3. PICK n \in S : \A m \in S : <<m, n>> \notin Less
  BY <1>2, WFMin
<1>4. \A m \in S : n <= m
  BY <1>1, <1>3
<1> QED
  BY <1>4

(* F has the concatenations of the first sequences, as FlattenSeq has them. *)
Flattens(F, seqs) ==
    F = [n \in 1 .. Len(seqs) |->
            IF n = 1 THEN seqs[n] ELSE F[n - 1] \o seqs[n]]

(* There is such a function: it is put together from those that are right   *)
(* up to some number.                                                       *)
LEMMA FlatteningExists ==
    ASSUME NEW seqs, Len(seqs) \in Nat
    PROVE  \E F : Flattens(F, seqs)
<1> DEFINE N == Len(seqs)
           Next1(F, n) == IF n = 1 THEN seqs[n] ELSE F[n - 1] \o seqs[n]
           RightUpTo(k, F) == \A n \in 1 .. N : n <= k => F[n] = Next1(F, n)
           Missing == {k \in Nat : \A F : ~ RightUpTo(k, F)}
<1>1. ASSUME Missing # {} PROVE FALSE
  <2>1. PICK k \in Missing : k \in Nat /\ \A m \in Missing : k <= m
    <3>1. Missing \in SUBSET Nat
      OBVIOUS
    <3> HIDE DEF Missing
    <3> QED
      BY <1>1, <3>1, LeastNumber
  <2>2. k # 0
    <3>1. \A F : RightUpTo(0, F)
      <4> HIDE DEF Next1
      <4> QED
        OBVIOUS
    <3> HIDE DEF RightUpTo
    <3> QED
      BY <3>1
  <2>3. k - 1 \in Nat /\ k - 1 \notin Missing
    <3> HIDE DEF Missing
    <3> QED
      BY <2>1, <2>2
  <2>4. PICK F : RightUpTo(k - 1, F)
    <3> HIDE DEF RightUpTo
    <3> QED
      BY <2>3
  <2> DEFINE G == [n \in 1 .. N |-> Next1(F, n)]
  <2>5. \A n \in 1 .. N : G[n] = Next1(F, n)
    OBVIOUS
  <2> HIDE DEF G
  <2>6. ASSUME NEW n \in 1 .. N, n <= k PROVE G[n] = Next1(G, n)
    <3>1. CASE n = 1
      BY <3>1, <2>5
    <3>2. CASE n # 1
      <4>1. n - 1 \in 1 .. N /\ n - 1 <= k - 1
        BY <2>1, <2>6, <3>2
      <4> HIDE DEF Next1
      <4>2. F[n - 1] = Next1(F, n - 1)
        BY <2>4, <4>1
      <4>3. G[n - 1] = F[n - 1]
        BY <2>5, <4>1, <4>2
      <4>4. Next1(F, n) = F[n - 1] \o seqs[n] /\ Next1(G, n) = G[n - 1] \o seqs[n]
        BY <3>2 DEF Next1
      <4> QED
        BY <2>5, <4>3, <4>4
    <3> QED
      BY <3>1, <3>2
  <2> HIDE DEF Next1
  <2>7. RightUpTo(k, G)
    BY <2>6
  <2> QED
    BY <2>1, <2>7
<1>2. PICK F : RightUpTo(N, F)
  BY <1>1
<1> DEFINE H == [n \in 1 .. N |-> F[n]]
<1>3. ASSUME NEW n \in 1 .. N PROVE H[n] = Next1(H, n)
  <2>1. F[n] = Next1(F, n)
    BY <1>2
  <2>2. n # 1 => n - 1 \in 1 .. N
    OBVIOUS
  <2> QED
    BY <2>1, <2>2
<1>4. H = [n \in 1 .. N |-> Next1(H, n)]
  <2>1. DOMAIN H = 1 .. N /\ H = [n \in DOMAIN H |-> H[n]]
    OBVIOUS
  <2> HIDE DEF H, Next1
  <2> QED
    BY <1>3, <2>1
<1>5. Flattens(H, seqs)
  <2> HIDE DEF H
  <2> QED
    BY <1>4 DEF Flattens
<1> QED
  BY <1>5

(* What FlattenSeq returns is the last of such a function. *)
LEMMA FlattenSeqFlattens ==
    ASSUME NEW seqs, Len(seqs) \in Nat \ {0}
    PROVE  \E F : Flattens(F, seqs) /\ Seqs!FlattenSeq(seqs) = F[Len(seqs)]
<1>1. \E F : Flattens(F, seqs)
  BY FlatteningExists
<1>2. Seqs!FlattenSeq(seqs) = (CHOOSE F : Flattens(F, seqs))[Len(seqs)]
  BY DEF Seqs!FlattenSeq, Flattens
<1> QED
  BY <1>1, <1>2

FileItems == [key : Nat, from : Nat]

(* units are the keys and the values of n items, one after the other. *)
UnitsOf(units, items, n) ==
    /\ units \in Seq(Nat)
    /\ Len(units) = 2 * n
    /\ \A m \in 1 .. n : /\ units[2 * m - 1] = items[m].key
                         /\ units[2 * m] = items[m].from

(* One more item is two more units. *)
LEMMA SerializeOneMore ==
    ASSUME NEW units, NEW items, NEW n \in Nat, UnitsOf(units, items, n),
           items[n + 1] \in FileItems
    PROVE  UnitsOf(units \o Serialize(items[n + 1]), items, n + 1)
<1> DEFINE two == Serialize(items[n + 1])
           all == units \o two
<1>1. /\ two \in Seq(Nat) /\ Len(two) = 2
      /\ two[1] = items[n + 1].key /\ two[2] = items[n + 1].from
  BY DEF Serialize, FileItems
<1>2. units \in Seq(Nat) /\ Len(units) = 2 * n
  BY DEF UnitsOf
<1> HIDE DEF two
<1>3. /\ all \in Seq(Nat)
      /\ Len(all) = 2 * n + 2
      /\ \A j \in 1 .. 2 * n + 2 :
            all[j] = IF j <= 2 * n THEN units[j] ELSE two[j - 2 * n]
  <2>1. /\ all \in Seq(Nat)
        /\ Len(all) = Len(units) + Len(two)
        /\ \A j \in 1 .. Len(units) + Len(two) :
              all[j] = IF j <= Len(units) THEN units[j] ELSE two[j - Len(units)]
    BY <1>1, <1>2, ConcatProperties
  <2> HIDE DEF all
  <2> QED
    BY <2>1, <1>1, <1>2
<1> HIDE DEF all
<1>4. ASSUME NEW m \in 1 .. n + 1
      PROVE  all[2 * m - 1] = items[m].key /\ all[2 * m] = items[m].from
  <2>1. 2 * m - 1 \in 1 .. 2 * n + 2 /\ 2 * m \in 1 .. 2 * n + 2
    OBVIOUS
  <2>2. CASE m = n + 1
    <3>1. all[2 * m - 1] = two[2 * m - 1 - 2 * n] /\ all[2 * m] = two[2 * m - 2 * n]
      BY <2>1, <2>2, <1>3
    <3>2. 2 * m - 1 - 2 * n = 1 /\ 2 * m - 2 * n = 2
      BY <2>2
    <3> QED
      BY <3>1, <3>2, <2>2, <1>1
  <2>3. CASE m # n + 1
    <3>1. m \in 1 .. n /\ 2 * m - 1 <= 2 * n /\ 2 * m <= 2 * n
      BY <2>3
    <3>2. all[2 * m - 1] = units[2 * m - 1] /\ all[2 * m] = units[2 * m]
      BY <2>1, <3>1, <1>3
    <3> QED
      BY <3>1, <3>2 DEF UnitsOf
  <2> QED
    BY <2>2, <2>3
<1>5. 2 * (n + 1) = 2 * n + 2
  OBVIOUS
<1> QED
  BY <1>3, <1>4, <1>5 DEF UnitsOf, all, two

LEMMA SerializedProperties ==
    ASSUME NEW items \in Seq(FileItems)
    PROVE  UnitsOf(Serialized(items), items, Len(items))
<1> DEFINE L == Len(items)
           seqs == [n \in DOMAIN items |-> Serialize(items[n])]
<1>1. L \in Nat /\ DOMAIN items = 1 .. L /\ \A n \in 1 .. L : items[n] \in FileItems
  BY ElementsOf
<1>2. /\ seqs \in Seq(Seq(Nat)) /\ Len(seqs) = L
      /\ \A n \in 1 .. L : seqs[n] = Serialize(items[n])
  <2>1. \A n \in 1 .. L : Serialize(items[n]) \in Seq(Nat)
    BY <1>1 DEF Serialize, FileItems
  <2> QED
    BY <1>1, <2>1
<1>3. Serialized(items) = Seqs!FlattenSeq(seqs)
  BY DEF Serialized
<1> HIDE DEF L, seqs
<1>4. CASE L = 0
  <2>1. Serialized(items) = seqs
    BY <1>2, <1>3, <1>4 DEF Seqs!FlattenSeq
  <2>2. seqs = << >>
    BY <1>2, <1>4, EmptySeq
  <2> QED
    BY <1>4, <2>1, <2>2, EmptySeq DEF UnitsOf, L
<1>5. CASE L # 0
  <2>1. PICK F : Flattens(F, seqs) /\ Serialized(items) = F[L]
    BY <1>1, <1>2, <1>3, <1>5, FlattenSeqFlattens
  <2>2. \A n \in 1 .. L : F[n] = IF n = 1 THEN seqs[n] ELSE F[n - 1] \o seqs[n]
    BY <2>1, <1>2 DEF Flattens
  <2> DEFINE Bad == {n \in Nat : n \in 1 .. L /\ ~ UnitsOf(F[n], items, n)}
  <2>3. ASSUME Bad # {} PROVE FALSE
    <3>1. PICK n \in Bad : n \in Nat /\ \A m \in Bad : n <= m
      <4>1. Bad \in SUBSET Nat
        OBVIOUS
      <4> HIDE DEF Bad
      <4> QED
        BY <2>3, <4>1, LeastNumber
    <3>2. n \in 1 .. L /\ ~ UnitsOf(F[n], items, n) /\ n - 1 \in Nat
      BY <3>1
    <3>3. n - 1 \notin Bad
      <4> HIDE DEF Bad
      <4> QED
        BY <3>1, <3>2
    <3>4. items[n] \in FileItems /\ seqs[n] = Serialize(items[n]) /\ (n - 1) + 1 = n
      BY <3>2, <1>1, <1>2
    <3>5. CASE n = 1
      <4>1. /\ << >> \in Seq(Nat) /\ Len(<< >>) = 0
            /\ << >> \o Serialize(items[1]) = Serialize(items[1])
        BY <3>4, <3>5 DEF Serialize, FileItems
      <4>2. UnitsOf(<< >>, items, 0)
        BY <4>1 DEF UnitsOf
      <4>3. 0 + 1 = 1 /\ 0 \in Nat /\ items[0 + 1] \in FileItems
        BY <3>4, <3>5
      <4>4. UnitsOf(<< >> \o Serialize(items[0 + 1]), items, 0 + 1)
        BY <4>2, <4>3, SerializeOneMore
      <4>5. UnitsOf(Serialize(items[1]), items, 1)
        BY <4>1, <4>3, <4>4
      <4> QED
        BY <4>5, <2>2, <3>2, <3>4, <3>5
    <3>6. CASE n # 1
      <4>1. n - 1 \in 1 .. L
        BY <3>2, <3>6, <1>1
      <4>2. UnitsOf(F[n - 1], items, n - 1)
        BY <3>2, <3>3, <4>1
      <4>3. UnitsOf(F[n - 1] \o Serialize(items[(n - 1) + 1]), items, (n - 1) + 1)
        BY <4>2, <3>2, <3>4, SerializeOneMore
      <4>4. UnitsOf(F[n - 1] \o Serialize(items[n]), items, n)
        BY <4>3, <3>4
      <4> QED
        BY <4>4, <2>2, <3>2, <3>4, <3>6
    <3> QED
      BY <3>5, <3>6
  <2>4. L \in 1 .. L
    BY <1>1, <1>5
  <2>5. UnitsOf(F[L], items, L)
    BY <1>1, <2>3, <2>4
  <2> QED
    BY <2>1, <2>5 DEF L
<1> QED
  BY <1>4, <1>5

-----------------------------------------------------------------------------
(* The file holds the intact items, and nothing else when nothing is lost.  *)
BytesInv ==
    /\ bytes \in Seq(Nat)
    /\ intact \in Nat
    /\ intact <= Len(merged)
    /\ 2 * intact <= Len(bytes)
    /\ intact = Len(merged) => Len(bytes) = 2 * intact
    /\ \A n \in 1 .. intact : /\ bytes[2 * n - 1] = merged[n].key
                              /\ bytes[2 * n] = merged[n].from

Readings == [item : FileItems, index : Nat]

(* What has been collected is what the file holds up to the position.       *)
ReaderInv ==
    /\ reading \in {"closed", "open", "ended", "aborted"}
    /\ reading # "closed" => done
    /\ reading = "closed" => collected = << >>
    /\ collected \in Seq(Readings)
    /\ index = Len(collected)
    /\ pos = 2 * index
    /\ pos <= Len(bytes)
    /\ \A n \in 1 .. Len(collected) :
          /\ collected[n].index = n - 1
          /\ collected[n].item.key = bytes[2 * n - 1]
          /\ collected[n].item.from = bytes[2 * n]
    /\ reading = "ended" => Len(bytes) < pos + 2
    /\ reading = "aborted" => (Len(bytes) - pos) % 2 # 0

FileInv == MergeInv /\ BytesInv /\ ReaderInv

(* The items have numbers for their keys and their files.                   *)
LEMMA ItemsAreNumbers ==
    ASSUME TypeOK PROVE Items \subseteq FileItems
<1>1. DOMAIN newer \subseteq Nat
  BY FilesAreFinite
<1> QED
  BY <1>1, KeysAreNumbers DEF Items, FileItems

LEMMA MergedType ==
    ASSUME TypeOK
    PROVE  /\ merged \in Seq(FileItems)
           /\ Len(merged) \in Nat
           /\ \A n \in 1 .. Len(merged) : merged[n] \in FileItems
<1>1. merged \in Seq(Items)
  BY WrittenType
<1>2. merged \in Seq(FileItems)
  BY <1>1, ItemsAreNumbers, SeqMonotonic
<1> QED
  BY <1>2, ElementsOf

LEMMA FileInitially == FileInit => FileInv
<1> SUFFICES ASSUME FileInit PROVE FileInv
  OBVIOUS
<1>1. MergeInv
  BY MergeInitially DEF FileInit
<1>2. merged = << >> /\ Len(<< >>) = 0 /\ \A S : << >> \in Seq(S)
  BY DEF FileInit, Init
<1>3. BytesInv
  BY <1>2 DEF FileInit, BytesInv
<1>4. ReaderInv
  BY <1>2 DEF FileInit, ReaderInv
<1> QED
  BY <1>1, <1>3, <1>4 DEF FileInv

LEMMA DroppedIsRest ==
    ASSUME NEW S, NEW s \in Seq(S), NEW t \in Seq(S)
    PROVE  SubSeq(s \o t, Len(s) + 1, Len(s \o t)) = t
<1> DEFINE u == s \o t
           rest == SubSeq(u, Len(s) + 1, Len(u))
<1>1. /\ u \in Seq(S) /\ Len(u) = Len(s) + Len(t) /\ Len(s) \in Nat /\ Len(t) \in Nat
      /\ \A j \in 1 .. Len(s) + Len(t) : u[j] = IF j <= Len(s) THEN s[j] ELSE t[j - Len(s)]
  BY ConcatProperties
<1> HIDE DEF u
<1>2. \A j \in Len(s) + 1 .. Len(u) : u[j] \in S
  BY <1>1
<1>3. Len(s) + 1 \in Int /\ Len(u) \in Int
  BY <1>1
<1>4. /\ rest \in Seq(S)
      /\ Len(rest) = IF Len(s) + 1 <= Len(u) THEN Len(u) - (Len(s) + 1) + 1 ELSE 0
      /\ \A j \in 1 .. Len(u) - (Len(s) + 1) + 1 : rest[j] = u[Len(s) + 1 + j - 1]
  BY <1>2, <1>3, SubSeqProperties
<1> HIDE DEF rest
<1>5. Len(rest) = Len(t)
  BY <1>1, <1>4
<1>6. ASSUME NEW j \in 1 .. Len(rest) PROVE rest[j] = t[j]
  <2>1. /\ rest[j] = u[Len(s) + j]
        /\ Len(s) + j \in 1 .. Len(s) + Len(t)
        /\ ~ (Len(s) + j <= Len(s))
    BY <1>1, <1>4, <1>5
  <2>2. Len(s) + j - Len(s) = j
    BY <1>1
  <2> QED
    BY <2>1, <2>2, <1>1
<1>7. rest = t
  BY <1>4, <1>5, <1>6, SeqEqual
<1> QED
  BY <1>7 DEF rest, u

(* A step of the merge writes behind what it has written, and only before   *)
(* the constructor has returned.                                            *)
LEMMA NextAppends ==
    ASSUME MergeInv, Next
    PROVE  /\ ~ done
           /\ Dropped \in Seq(FileItems)
           /\ merged' = merged \o Dropped
<1>1. merged \in Seq(FileItems) /\ writeBuffer \in Seq(FileItems)
  BY WrittenType, ItemsAreNumbers, SeqMonotonic DEF MergeInv
<1>2. << >> \in Seq(FileItems) /\ merged \o << >> = merged
  BY <1>1
<1>3. done => ~ (i > 0) /\ min = 0
  BY DEF MergeInv, DoneInv
<1>4. ~ done /\ \E s \in Seq(FileItems) : merged' = merged \o s
  <2>1. CASE ScanExhausted \/ ScanFirst \/ ScanSmaller \/ ScanDuplicate \/ ScanLarger
    BY <2>1, <1>2, <1>3
       DEF ScanExhausted, ScanFirst, ScanSmaller, ScanDuplicate, ScanLarger, Scan
  <2>2. CASE EmitToBuffer
    BY <2>2, <1>2, <1>3 DEF EmitToBuffer, Emit
  <2>3. CASE EmitAndDrop
    <3>1. MinItem \in Items
      BY <2>3, EmitWrites
    <3>2. MinItem \in FileItems
      BY <3>1, ItemsAreNumbers DEF MergeInv
    <3>3. Append(writeBuffer, MinItem) \in Seq(FileItems)
      BY <3>2, <1>1, AppendedElements
    <3>4. min # 0 /\ merged' = merged \o Append(writeBuffer, MinItem)
      BY <2>3 DEF EmitAndDrop, Emit
    <3> QED
      BY <3>3, <3>4, <1>3
  <2>4. CASE Finish
    BY <2>4, <1>1 DEF Finish
  <2> QED
    BY <2>1, <2>2, <2>3, <2>4 DEF Next
<1>5. PICK s \in Seq(FileItems) : merged' = merged \o s
  BY <1>4
<1>6. Dropped = s
  <2>1. Dropped = SubSeq(merged \o s, Len(merged) + 1, Len(merged \o s))
    BY <1>5 DEF Dropped
  <2> QED
    BY <2>1, <1>1, DroppedIsRest
<1> QED
  BY <1>4, <1>5, <1>6

(* What appendAll does to the file: of the units of the items some arrive.  *)
LEMMA AppendAllKeepsBytes ==
    ASSUME BytesInv, merged \in Seq(FileItems), NEW items \in Seq(FileItems),
           merged' = merged \o items, AppendAll(items)
    PROVE  /\ BytesInv'
           /\ Len(bytes) <= Len(bytes')
<1> DEFINE units == Serialized(items)
           M == Len(merged)
           L == Len(items)
           B == Len(bytes)
<1>1. PICK n \in 0 .. 2 * L :
         /\ bytes' = bytes \o SubSeq(units, 1, n)
         /\ intact' = IF intact < M THEN intact ELSE intact + n \div 2
  BY DEF AppendAll, EachSize, Flushed
<1> DEFINE part == SubSeq(units, 1, n)
<1>2. /\ L \in Nat /\ M \in Nat /\ B \in Nat /\ intact \in Nat
      /\ intact <= M /\ 2 * intact <= B /\ (intact = M => B = 2 * intact)
      /\ bytes \in Seq(Nat)
  BY DEF BytesInv
<1>3. n \in Nat /\ n <= 2 * L
  BY <1>1, <1>2
<1>4. /\ Len(merged') = M + L
      /\ \A m \in 1 .. M : merged'[m] = merged[m]
      /\ \A m \in 1 .. L : merged'[M + m] = items[m]
  BY ConcatProperties
<1>5. /\ units \in Seq(Nat) /\ Len(units) = 2 * L
      /\ \A m \in 1 .. L : /\ units[2 * m - 1] = items[m].key
                           /\ units[2 * m] = items[m].from
  BY SerializedProperties DEF UnitsOf
<1> HIDE DEF units, M, L
<1>6. /\ part \in Seq(Nat) /\ Len(part) = n
      /\ \A j \in 1 .. n : part[j] = units[j]
  <2>1. ASSUME NEW j \in 1 .. n PROVE units[j] \in Nat
    <3>1. j \in 1 .. Len(units)
      BY <1>2, <1>3, <1>5
    <3> QED
      BY <3>1, <1>5, ElementOfSeq
  <2>2. 1 \in Int /\ n \in Int
    BY <1>3
  <2>3. /\ part \in Seq(Nat)
        /\ Len(part) = IF 1 <= n THEN n - 1 + 1 ELSE 0
        /\ \A j \in 1 .. n - 1 + 1 : part[j] = units[1 + j - 1]
    BY <2>1, <2>2, SubSeqProperties
  <2> HIDE DEF part
  <2> QED
    BY <2>3, <1>3
<1> HIDE DEF part, B
<1>7. /\ bytes' \in Seq(Nat) /\ Len(bytes') = B + n
      /\ \A j \in 1 .. B + n : bytes'[j] = IF j <= B THEN bytes[j] ELSE part[j - B]
  <2>1. bytes' = bytes \o part
    BY <1>1 DEF part
  <2> QED
    BY <2>1, <1>2, <1>6, ConcatProperties DEF B
<1>8. \A m \in 1 .. intact : /\ bytes'[2 * m - 1] = merged'[m].key
                             /\ bytes'[2 * m] = merged'[m].from
  <2> SUFFICES ASSUME NEW m \in 1 .. intact
               PROVE  /\ bytes'[2 * m - 1] = merged'[m].key
                      /\ bytes'[2 * m] = merged'[m].from
    OBVIOUS
  <2>1. /\ 2 * m - 1 \in 1 .. B + n /\ 2 * m - 1 <= B
        /\ 2 * m \in 1 .. B + n /\ 2 * m <= B
        /\ m \in 1 .. M
    BY <1>2, <1>3
  <2>2. bytes'[2 * m - 1] = bytes[2 * m - 1] /\ bytes'[2 * m] = bytes[2 * m]
    BY <2>1, <1>7
  <2> QED
    BY <2>1, <2>2, <1>4 DEF BytesInv
<1>9. ASSUME intact < M PROVE BytesInv'
  <2>1. intact' = intact
    BY <1>1, <1>9
  <2>2. intact' <= Len(merged') /\ intact' # Len(merged') /\ 2 * intact' <= Len(bytes')
    BY <2>1, <1>2, <1>3, <1>4, <1>7, <1>9
  <2>3. \A m \in 1 .. intact' : /\ bytes'[2 * m - 1] = merged'[m].key
                                /\ bytes'[2 * m] = merged'[m].from
    BY <2>1, <1>8
  <2> QED
    BY <2>1, <2>2, <2>3, <1>2, <1>7 DEF BytesInv
<1>10. ASSUME ~ (intact < M) PROVE BytesInv'
  <2> DEFINE h == n \div 2
  <2>1. intact' = intact + h /\ intact = M /\ B = 2 * M
    BY <1>1, <1>2, <1>10
  <2>2. h \in Nat /\ 2 * h <= n /\ n <= 2 * h + 1
    BY <1>3
  <2> HIDE DEF h
  <2>3. h <= L /\ (h = L => n = 2 * L)
    BY <2>2, <1>2, <1>3
  <2>4. /\ intact' \in Nat /\ intact' <= Len(merged') /\ 2 * intact' <= Len(bytes')
        /\ intact' = Len(merged') => Len(bytes') = 2 * intact'
    <3>1. intact' = M + h /\ Len(merged') = M + L /\ Len(bytes') = 2 * M + n
      BY <2>1, <1>4, <1>7
    <3> QED
      BY <3>1, <2>2, <2>3, <1>2, <1>3
  <2>5. ASSUME NEW m \in 1 .. intact', ~ (m <= intact)
        PROVE  bytes'[2 * m - 1] = merged'[m].key /\ bytes'[2 * m] = merged'[m].from
    <3> DEFINE d == m - M
    <3>1. d \in 1 .. h /\ m = M + d
      BY <2>1, <2>2, <2>5, <1>2
    <3> HIDE DEF d
    <3>2. d \in 1 .. L /\ 2 * d <= n /\ d \in Nat /\ d >= 1
      BY <3>1, <2>2, <2>3, <1>2
    <3>3. merged'[m].key = units[2 * d - 1] /\ merged'[m].from = units[2 * d]
      BY <3>1, <3>2, <1>4, <1>5
    <3>4. /\ 2 * m - 1 \in 1 .. B + n /\ ~ (2 * m - 1 <= B) /\ 2 * m - 1 - B = 2 * d - 1
          /\ 2 * m \in 1 .. B + n /\ ~ (2 * m <= B) /\ 2 * m - B = 2 * d
      BY <3>1, <3>2, <2>1, <1>2, <1>3
    <3>5. bytes'[2 * m - 1] = part[2 * d - 1] /\ bytes'[2 * m] = part[2 * d]
      BY <3>4, <1>7
    <3>6. 2 * d - 1 \in 1 .. n /\ 2 * d \in 1 .. n
      BY <3>2, <1>3
    <3> QED
      BY <3>3, <3>5, <3>6, <1>6
  <2>6. \A m \in 1 .. intact' : /\ bytes'[2 * m - 1] = merged'[m].key
                                /\ bytes'[2 * m] = merged'[m].from
    <3> SUFFICES ASSUME NEW m \in 1 .. intact'
                 PROVE  /\ bytes'[2 * m - 1] = merged'[m].key
                        /\ bytes'[2 * m] = merged'[m].from
      OBVIOUS
    <3>1. m <= intact => m \in 1 .. intact
      BY <1>2
    <3> QED
      BY <3>1, <2>5, <1>8
  <2> QED
    BY <2>4, <2>6, <1>7 DEF BytesInv
<1>11. B <= Len(bytes')
  BY <1>2, <1>3, <1>7
<1> QED
  BY <1>9, <1>10, <1>11 DEF B

(* A step of the merge and what it appends: nobody reads the file yet.      *)
LEMMA MergeFileStep ==
    ASSUME FileInv, Next, AppendAll(Dropped) PROVE FileInv'
<1>1. MergeInv'
  BY MergeStep DEF FileInv
<1>2. ~ done /\ Dropped \in Seq(FileItems) /\ merged' = merged \o Dropped
  BY NextAppends DEF FileInv
<1>3. BytesInv' /\ Len(bytes) <= Len(bytes')
  BY <1>2, MergedType, AppendAllKeepsBytes DEF FileInv, MergeInv
<1>4. UNCHANGED <<pos, index, reading, collected>>
  BY DEF AppendAll
<1>5. reading = "closed" /\ collected = << >> /\ index = 0 /\ pos = 0
  <2>1. reading = "closed" /\ collected = << >> /\ index = Len(collected) /\ pos = 2 * index
    BY <1>2 DEF FileInv, ReaderInv
  <2> QED
    BY <2>1
<1>6. Len(bytes') \in Nat
  BY <1>3 DEF BytesInv
<1>7. ReaderInv'
  BY <1>4, <1>5, <1>6 DEF ReaderInv
<1> QED
  BY <1>1, <1>3, <1>7 DEF FileInv

LEMMA OpenInputStep ==
    ASSUME FileInv, OpenInput, UNCHANGED vars PROVE FileInv'
<1>1. MergeInv'
  BY MergeStep DEF FileInv
<1>2. BytesInv'
  BY DEF FileInv, BytesInv, OpenInput, vars
<1>3. ReaderInv'
  BY DEF FileInv, ReaderInv, OpenInput, vars
<1> QED
  BY <1>1, <1>2, <1>3 DEF FileInv

LEMMA AssertionFailsStep ==
    ASSUME FileInv, AssertionFails, UNCHANGED vars PROVE FileInv'
<1>1. MergeInv'
  BY MergeStep DEF FileInv
<1>2. BytesInv'
  BY DEF FileInv, BytesInv, AssertionFails, vars
<1>3. ReaderInv'
  BY DEF FileInv, ReaderInv, AssertionFails, availableBytes, EachSize, vars
<1> QED
  BY <1>1, <1>2, <1>3 DEF FileInv

LEMMA MinOfTwo ==
    ASSUME NEW a \in Nat, NEW b \in Nat
    PROVE  /\ Min({a, b}) \in {a, b}
           /\ Min({a, b}) <= a
           /\ Min({a, b}) <= b
<1>1. \E x \in {a, b} : \A y \in {a, b} : x <= y
  OBVIOUS
<1> QED
  BY <1>1 DEF Min

(* collect: what it adds are items of the file, and it adds none only when  *)
(* there is no whole item left.                                             *)
LEMMA CollectStep ==
    ASSUME FileInv, NEW limit \in Limits, Collect(limit), UNCHANGED vars
    PROVE  FileInv'
<1>1. MergeInv'
  BY MergeStep DEF FileInv
<1>2. BytesInv'
  BY DEF FileInv, BytesInv, Collect, vars
<1> DEFINE whole == availableBytes \div EachSize
           k == IF limit = 0 THEN whole ELSE Min({whole, limit})
           batch == [n \in 1 .. k |-> [item |-> ItemAt(pos + (n - 1) * EachSize),
                                       index |-> index + n - 1]]
           C == Len(collected)
           B == Len(bytes)
<1>3. /\ reading = "open" /\ collected' = collected \o batch
      /\ pos' = pos + k * EachSize /\ index' = index + k
      /\ reading' = IF k = 0 THEN "ended" ELSE "open"
      /\ bytes' = bytes /\ intact' = intact
  BY DEF Collect
<1>4. /\ bytes \in Seq(Nat) /\ B \in Nat
      /\ \A j \in 1 .. B : bytes[j] \in Nat
  BY ElementsOf DEF FileInv, BytesInv
<1>5. /\ collected \in Seq(Readings) /\ C \in Nat /\ index = C /\ pos = 2 * C /\ pos <= B
      /\ reading # "closed" => done
      /\ \A n \in 1 .. C :
            /\ collected[n].index = n - 1
            /\ collected[n].item.key = bytes[2 * n - 1]
            /\ collected[n].item.from = bytes[2 * n]
  BY DEF FileInv, ReaderInv
<1>6. limit \in Nat
  BY LimitsAssumption
<1> HIDE DEF C, B
<1>7. whole \in Nat /\ 2 * whole <= B - pos /\ B - pos <= 2 * whole + 1
  <2>1. whole = (B - pos) \div 2 /\ B - pos \in Nat
    BY <1>4, <1>5 DEF availableBytes, EachSize, B
  <2> HIDE DEF whole
  <2> QED
    BY <2>1
<1> HIDE DEF whole
<1>8. k \in Nat /\ k <= whole /\ (k = 0 => whole = 0)
  BY <1>6, <1>7, MinOfTwo
<1> HIDE DEF k
<1>9. 2 * C + 2 * k <= B
  BY <1>4, <1>5, <1>7, <1>8
<1>10. ASSUME NEW n \in 1 .. k
       PROVE  /\ batch[n].index = C + n - 1
              /\ batch[n].item.key = bytes[2 * (C + n) - 1]
              /\ batch[n].item.from = bytes[2 * (C + n)]
              /\ batch[n] \in Readings
  <2> DEFINE offset == pos + (n - 1) * EachSize
  <2>1. /\ offset + EachSize <= Len(bytes)
        /\ offset + 1 = 2 * (C + n) - 1 /\ offset + 2 = 2 * (C + n)
    BY <1>4, <1>5, <1>8, <1>9 DEF EachSize, B
  <2>2. batch[n] = [item |-> ItemAt(offset), index |-> index + n - 1]
    OBVIOUS
  <2> HIDE DEF offset, batch
  <2>3. ItemAt(offset) = [key |-> bytes[2 * (C + n) - 1], from |-> bytes[2 * (C + n)]]
    BY <2>1 DEF ItemAt
  <2>4. /\ 2 * (C + n) - 1 \in 1 .. B /\ 2 * (C + n) \in 1 .. B
        /\ C + n - 1 \in Nat
    BY <1>4, <1>5, <1>8, <1>9
  <2>5. bytes[2 * (C + n) - 1] \in Nat /\ bytes[2 * (C + n)] \in Nat
    BY <2>4, <1>4
  <2>6. batch[n].item = ItemAt(offset) /\ batch[n].index = C + n - 1
    BY <2>2, <1>5
  <2>7. batch[n] \in Readings
    BY <2>2, <2>3, <2>4, <2>5, <1>5 DEF Readings, FileItems
  <2> QED
    BY <2>3, <2>6, <2>7
<1>11. batch \in Seq(Readings) /\ Len(batch) = k
  BY <1>8, <1>10
<1> HIDE DEF batch
<1>12. /\ collected' \in Seq(Readings) /\ Len(collected') = C + k
       /\ \A n \in 1 .. C + k :
             collected'[n] = IF n <= C THEN collected[n] ELSE batch[n - C]
  <2>1. /\ collected' \in Seq(Readings) /\ Len(collected') = Len(collected) + Len(batch)
        /\ \A n \in 1 .. Len(collected) + Len(batch) :
              collected'[n] = IF n <= Len(collected) THEN collected[n]
                              ELSE batch[n - Len(collected)]
    BY <1>3, <1>5, <1>11, ConcatProperties
  <2> QED
    BY <2>1, <1>11 DEF C
<1>13. ASSUME NEW n \in 1 .. C + k
       PROVE  /\ collected'[n].index = n - 1
              /\ collected'[n].item.key = bytes[2 * n - 1]
              /\ collected'[n].item.from = bytes[2 * n]
  <2>1. CASE n <= C
    <3>1. n \in 1 .. C /\ collected'[n] = collected[n]
      BY <2>1, <1>12
    <3> QED
      BY <3>1, <1>5
  <2>2. CASE ~ (n <= C)
    <3> DEFINE d == n - C
    <3>1. d \in 1 .. k /\ C + d = n
      BY <2>2, <1>5, <1>8
    <3>2. collected'[n] = batch[d]
      BY <2>2, <1>12
    <3> HIDE DEF d
    <3>3. /\ batch[d].index = C + d - 1
          /\ batch[d].item.key = bytes[2 * (C + d) - 1]
          /\ batch[d].item.from = bytes[2 * (C + d)]
      BY <3>1, <1>10
    <3>4. /\ C + d - 1 = n - 1
          /\ 2 * (C + d) - 1 = 2 * n - 1
          /\ 2 * (C + d) = 2 * n
      BY <3>1, <1>5, <1>8
    <3> QED
      BY <3>2, <3>3, <3>4
  <2> QED
    BY <2>1, <2>2
<1>14. pos' = 2 * index' /\ index' = C + k /\ pos' <= B
  BY <1>3, <1>5, <1>8, <1>9 DEF EachSize
<1>15. reading' = "ended" => B < pos' + 2
  BY <1>3, <1>4, <1>5, <1>7, <1>8, <1>14
<1>16. done' = done
  BY DEF vars
<1>17. ReaderInv'
  BY <1>3, <1>5, <1>12, <1>13, <1>14, <1>15, <1>16 DEF ReaderInv, B
<1> QED
  BY <1>1, <1>2, <1>17 DEF FileInv

LEMMA FileStep == FileInv /\ [FileNext]_<<vars, fileVars>> => FileInv'
<1> SUFFICES ASSUME FileInv, [FileNext]_<<vars, fileVars>> PROVE FileInv'
  OBVIOUS
<1>1. CASE UNCHANGED <<vars, fileVars>>
  <2>1. MergeInv'
    BY <1>1, MergeStep DEF FileInv
  <2>2. BytesInv' /\ ReaderInv'
    BY <1>1 DEF FileInv, BytesInv, ReaderInv, vars, fileVars
  <2> QED
    BY <2>1, <2>2 DEF FileInv
<1>2. CASE FileNext
  BY <1>2, MergeFileStep, OpenInputStep, CollectStep, AssertionFailsStep DEF FileNext
<1> QED
  BY <1>1, <1>2

LEMMA FileInvReads == FileInv => ReadsWhatWasMerged
<1> SUFFICES ASSUME FileInv PROVE ReadsWhatWasMerged
  OBVIOUS
<1>1. /\ merged \in Seq(FileItems)
      /\ Len(merged) \in Nat
      /\ \A n \in 1 .. Len(merged) : merged[n] \in FileItems
  BY MergedType DEF FileInv, MergeInv
<1>2. /\ Len(bytes) \in Nat /\ intact \in Nat /\ intact <= Len(merged)
      /\ 2 * intact <= Len(bytes)
      /\ intact = Len(merged) => Len(bytes) = 2 * intact
      /\ \A n \in 1 .. intact : /\ bytes[2 * n - 1] = merged[n].key
                                /\ bytes[2 * n] = merged[n].from
  BY DEF FileInv, BytesInv
<1>3. /\ Len(collected) \in Nat /\ pos = 2 * Len(collected) /\ pos <= Len(bytes)
      /\ \A n \in 1 .. Len(collected) :
            /\ collected[n] \in Readings
            /\ collected[n].index = n - 1
            /\ collected[n].item.key = bytes[2 * n - 1]
            /\ collected[n].item.from = bytes[2 * n]
      /\ reading = "ended" => Len(bytes) < pos + 2
      /\ reading = "aborted" => (Len(bytes) - pos) % 2 # 0
  BY ElementsOf DEF FileInv, ReaderInv
<1>4. \A r, s \in FileItems : r.key = s.key /\ r.from = s.from => r = s
  BY DEF FileItems
<1>5. ASSUME NEW n \in 1 .. intact PROVE Get(n - 1) = merged[n]
  <2>1. /\ (n - 1) * EachSize + EachSize <= Len(bytes)
        /\ (n - 1) * EachSize + 1 = 2 * n - 1 /\ (n - 1) * EachSize + 2 = 2 * n
        /\ n \in 1 .. Len(merged)
    BY <1>1, <1>2 DEF EachSize
  <2>2. Get(n - 1) = [key |-> bytes[2 * n - 1], from |-> bytes[2 * n]]
    BY <2>1 DEF Get, ItemAt
  <2>3. Get(n - 1) = [key |-> merged[n].key, from |-> merged[n].from]
    BY <2>2, <1>2
  <2> QED
    BY <2>1, <2>3, <1>1 DEF FileItems
<1>6. ASSUME NEW n \in 1 .. Len(collected), n <= intact
      PROVE  collected[n].item = merged[n]
  <2>1. n \in 1 .. intact /\ n \in 1 .. Len(merged)
    BY <1>1, <1>2, <1>3, <1>6
  <2>2. collected[n].item \in FileItems /\ merged[n] \in FileItems
    BY <2>1, <1>1, <1>3 DEF Readings
  <2>3. /\ collected[n].item.key = merged[n].key
        /\ collected[n].item.from = merged[n].from
    BY <2>1, <1>2, <1>3
  <2> QED
    BY <2>2, <2>3, <1>4
<1>7. reading = "ended" => Len(collected) >= intact
  BY <1>2, <1>3
<1>8. intact = Len(merged) => reading # "aborted" /\ Len(collected) <= Len(merged)
  <2> SUFFICES ASSUME intact = Len(merged)
               PROVE  reading # "aborted" /\ Len(collected) <= Len(merged)
    OBVIOUS
  <2>1. Len(collected) <= Len(merged)
    BY <1>2, <1>3
  <2> DEFINE d == intact - Len(collected)
  <2>2. d \in Nat /\ Len(bytes) - pos = 2 * d
    BY <2>1, <1>2, <1>3
  <2> HIDE DEF d
  <2>3. (2 * d) % 2 = 0
    BY <2>2
  <2> QED
    BY <2>1, <2>2, <2>3, <1>3
<1> QED
  BY <1>3, <1>5, <1>6, <1>7, <1>8 DEF ReadsWhatWasMerged

(* Whatever the writes lose, what was merged before is read as it was, by   *)
(* its index and in batches of any sizes; and when they lose nothing, the   *)
(* reader gets every item once and meets no part of one.                    *)
THEOREM WhatWasMergedIsRead == FileSpec => []ReadsWhatWasMerged
<1> QED
  BY FileInitially, FileStep, FileInvReads, PTL DEF FileSpec

=============================================================================
