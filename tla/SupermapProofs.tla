--------------------------- MODULE SupermapProofs ---------------------------
(***************************************************************************)
(* Theorems about Supermap for every finite set of keys, every set of      *)
(* values, every batch size, threshold and bound on the data file, and     *)
(* about SupermapFaults whichever steps may throw and however often.       *)
(***************************************************************************)
EXTENDS SupermapFaults, DataFileProofs

-----------------------------------------------------------------------------
(* The data file as one sequence: what an index counts through. *)

Data == sorted \o notSorted

-----------------------------------------------------------------------------
(* What one call of add does to the parts of the state. *)

LEMMA EmptyBlockProperties ==
    /\ EmptyBlock \in Blocks
    /\ KeysOf(EmptyBlock) = {}
    /\ \A k \in Keys : EmptyBlock[k] = NoIndex
BY DEF EmptyBlock, Blocks, KeysOf

(* The data as one sequence, and what add appends to it. *)
LEMMA AddData ==
    ASSUME TypeOK, NEW k \in Keys, NEW v \in Values
    PROVE  LET r == [key |-> k, value |-> v]
           IN  /\ r \in Records
               /\ Data \in Seq(Records)
               /\ Len(Data) = ItemsCount
               /\ ItemsCount \in Nat
               /\ Appended(k, v) \in Seq(Records)
               /\ sorted \o Appended(k, v) = Append(Data, r)
<1> DEFINE r == [key |-> k, value |-> v]
<1>1. r \in Records
  BY DEF Records
<1> HIDE DEF r
<1>2. sorted \in Seq(Records) /\ notSorted \in Seq(Records)
  BY DEF TypeOK
<1>3. /\ Data \in Seq(Records)
      /\ Len(Data) = ItemsCount
      /\ ItemsCount \in Nat
  BY <1>2, ConcatProperties, LenProperties DEF Data, ItemsCount
<1>4. Append(notSorted, r) \in Seq(Records)
  BY <1>1, <1>2, AppendProperties
<1>5. sorted \o Append(notSorted, r) = Append(Data, r)
  <2> DEFINE one == <<r>>
  <2>1. one \in Seq(Records)
    BY <1>1
  <2> HIDE DEF one
  <2>2. sorted \o (notSorted \o one) = (sorted \o notSorted) \o one
    BY <1>2, <2>1, ConcatAssociative
  <2>3. Append(notSorted, r) = notSorted \o one /\ Append(Data, r) = Data \o one
    BY <1>1, <1>2, <1>3, AppendIsConcat DEF one
  <2> QED
    BY <2>2, <2>3 DEF Data
<1> QED
  BY <1>1, <1>3, <1>4, <1>5 DEF Appended, r

(* The index in RAM after the append. *)
LEMMA IndexedProperties ==
    ASSUME TypeOK, NEW k \in Keys
    PROVE  /\ Indexed(k) \in Blocks
           /\ KeysOf(Indexed(k)) # {}
           /\ Cardinality(KeysOf(Indexed(k))) \in Nat
           /\ Indexed(k)[k] = ItemsCount
           /\ ItemsCount # NoIndex
           /\ \A j \in Keys \ {k} : Indexed(k)[j] = ram[j]
<1>1. ram \in Blocks /\ ItemsCount \in Nat
  BY LenProperties DEF TypeOK, ItemsCount
<1>2. /\ Indexed(k) \in Blocks
      /\ Indexed(k)[k] = ItemsCount
      /\ \A j \in Keys \ {k} : Indexed(k)[j] = ram[j]
  BY <1>1 DEF Indexed, Blocks
<1>3. k \in KeysOf(Indexed(k)) /\ KeysOf(Indexed(k)) \in SUBSET Keys
  BY <1>1, <1>2 DEF KeysOf, NoIndex
<1>4. Cardinality(KeysOf(Indexed(k))) \in Nat
  BY <1>3, KeysAssumption, FS_Subset, FS_CardinalityType
<1> QED
  BY <1>1, <1>2, <1>3, <1>4 DEF NoIndex

(* The data and the index a shrink leaves. *)
LEMMA ShrinkState ==
    ASSUME TypeOK, NEW k \in Keys, NEW v \in Values, AddAndShrink(k, v)
    PROVE  /\ sorted' = Shrunk(Append(Data, [key |-> k, value |-> v]))
           /\ sorted' \in Seq(Records)
           /\ k \in StoredKeys(sorted')
           /\ Data' = sorted'
           /\ ExportKeys(sorted') \in Blocks
           /\ KeysOf(ExportKeys(sorted')) # {}
<1> DEFINE r == [key |-> k, value |-> v]
           longer == Append(Data, r)
           new == Shrunk(longer)
<1>1. r \in Records /\ Data \in Seq(Records) /\ sorted \o Appended(k, v) = longer
  BY AddData
<1>2. sorted' = new /\ notSorted' = << >>
  BY <1>1 DEF AddAndShrink
<1>3. longer \in Seq(Records) /\ k \in StoredKeys(longer)
  <2>1. r.key = k
    OBVIOUS
  <2> HIDE DEF r
  <2>2. StoredKeys(longer) = StoredKeys(Data) \cup {r.key}
    BY <1>1, AppendRecord
  <2> QED
    BY <1>1, <2>1, <2>2, AppendProperties
<1> HIDE DEF longer
<1>4. new \in Seq(Records) /\ k \in StoredKeys(new)
  BY <1>3, ShrunkProperties
<1> HIDE DEF new
<1>5. Data' = new
  BY <1>2, <1>4, ConcatEmptySeq DEF Data
<1>6. ExportKeys(new) \in Blocks /\ KeysOf(ExportKeys(new)) # {}
  BY <1>4, ExportKeysType
<1> QED
  BY <1>2, <1>4, <1>5, <1>6 DEF new, longer

-----------------------------------------------------------------------------
(* Type correctness. *)

LEMMA TypeOKInit == Init => TypeOK
<1> SUFFICES ASSUME Init PROVE TypeOK
  OBVIOUS
<1>1. Cardinality(KeysOf(EmptyBlock)) < BatchSize
  BY EmptyBlockProperties, FS_EmptySet, BatchAssumption
<1> QED
  BY <1>1, EmptyBlockProperties DEF Init, TypeOK

LEMMA TypeOKStep == TypeOK /\ [Next]_vars => TypeOK'
<1> SUFFICES ASSUME TypeOK, [Next]_vars PROVE TypeOK'
  OBVIOUS
<1>1. ASSUME NEW k \in Keys, NEW v \in Values, AddToRam(k, v) PROVE TypeOK'
  <2>1. Appended(k, v) \in Seq(Records)
    BY AddData
  <2>2. Cardinality(KeysOf(Indexed(k))) < BatchSize
    BY <1>1, IndexedProperties, BatchAssumption DEF AddToRam, RamFull
  <2> QED
    BY <1>1, <2>1, <2>2, IndexedProperties DEF AddToRam, TypeOK
<1>2. ASSUME NEW k \in Keys, NEW v \in Values, AddAndDrop(k, v) PROVE TypeOK'
  <2>1. Appended(k, v) \in Seq(Records)
    BY AddData
  <2>2. /\ AppendBlock(disk, Indexed(k)) \in Seq(Blocks)
        /\ \A n \in DOMAIN AppendBlock(disk, Indexed(k)) :
               KeysOf(AppendBlock(disk, Indexed(k))[n]) # {}
    BY IndexedProperties, AppendBlockProperties, AppendBlockRanks DEF TypeOK
  <2>3. Cardinality(KeysOf(EmptyBlock)) < BatchSize
    BY EmptyBlockProperties, FS_EmptySet, BatchAssumption
  <2> QED
    BY <1>2, <2>1, <2>2, <2>3, EmptyBlockProperties DEF AddAndDrop, TypeOK
<1>3. ASSUME NEW k \in Keys, NEW v \in Values, AddAndShrink(k, v) PROVE TypeOK'
  <2> DEFINE block == ExportKeys(sorted')
             none == << >>
  <2>1. sorted' \in Seq(Records) /\ block \in Blocks /\ KeysOf(block) # {}
    BY <1>3, ShrinkState
  <2>2. /\ ram' = EmptyBlock
        /\ notSorted' = << >>
        /\ disk' = AppendBlock(none, block)
    BY <1>3 DEF AddAndShrink
  <2>3. none \in Seq(Blocks) /\ \A n \in DOMAIN none : KeysOf(none[n]) # {}
    OBVIOUS
  <2> HIDE DEF none, block
  <2>4. /\ AppendBlock(none, block) \in Seq(Blocks)
        /\ \A n \in DOMAIN AppendBlock(none, block) :
               KeysOf(AppendBlock(none, block)[n]) # {}
    BY <2>1, <2>3, AppendBlockProperties, AppendBlockRanks
  <2>5. Cardinality(KeysOf(EmptyBlock)) < BatchSize
    BY EmptyBlockProperties, FS_EmptySet, BatchAssumption
  <2> QED
    BY <2>1, <2>2, <2>4, <2>5, EmptyBlockProperties DEF TypeOK
<1>4. CASE UNCHANGED vars
  BY <1>4 DEF vars, TypeOK
<1> QED
  BY <1>1, <1>2, <1>3, <1>4 DEF Next, Add

(* The state of the map is always well formed: no block of the index is     *)
(* empty, which the rank of a block needs, and RAM stays below a batch.     *)
THEOREM TypeCorrect == Spec => []TypeOK
<1> QED
  BY TypeOKInit, TypeOKStep, PTL DEF Spec

-----------------------------------------------------------------------------
(* The index is exact.                                                     *)
(*                                                                         *)
(* LookupIsLatest follows from, and is proved as, a statement that is      *)
(* simpler to carry through a shrink: the index that add maintains step by *)
(* step is the one exportKeys would compute from the data as it is now.    *)

IndexIsExact == \A k \in Keys : IndexOf(k) = ExportKeys(Data)[k]

LEMMA GetFromData ==
    ASSUME TypeOK, NEW i \in 0 .. ItemsCount - 1
    PROVE  /\ i + 1 \in 1 .. Len(Data)
           /\ Get(i) = Data[i + 1]
<1>1. sorted \in Seq(Records) /\ notSorted \in Seq(Records)
  BY DEF TypeOK
<1>2. /\ Len(sorted) \in Nat
      /\ Len(notSorted) \in Nat
      /\ Len(Data) = Len(sorted) + Len(notSorted)
      /\ ItemsCount = Len(Data)
      /\ \A n \in 1 .. Len(sorted) + Len(notSorted) :
             Data[n] = IF n <= Len(sorted) THEN sorted[n] ELSE notSorted[n - Len(sorted)]
  BY <1>1, ConcatProperties, LenProperties DEF Data, ItemsCount
<1>3. i + 1 \in 1 .. Len(sorted) + Len(notSorted)
  BY <1>2
<1>4. (i + 1 <= Len(sorted) <=> ~ (i >= Len(sorted)))
      /\ i - Len(sorted) + 1 = (i + 1) - Len(sorted)
  BY <1>2, <1>3
<1> QED
  BY <1>2, <1>3, <1>4 DEF Get

LEMMA IndexIsExactInit == Init => IndexIsExact
<1> SUFFICES ASSUME Init, NEW k \in Keys PROVE IndexOf(k) = ExportKeys(Data)[k]
  BY DEF IndexIsExact
<1>1. sorted = << >> /\ notSorted = << >> /\ disk = << >> /\ ram = EmptyBlock
  BY DEF Init
<1>2. << >> \in Seq(Records) /\ << >> \in Seq(Blocks)
  OBVIOUS
<1>3. Data = << >>
  BY <1>1, <1>2, ConcatEmptySeq DEF Data
<1>4. StoredKeys(Data) = {}
  BY <1>3 DEF StoredKeys
<1>5. ExportKeys(Data)[k] = NoIndex
  BY <1>4 DEF ExportKeys
<1>6. \A j \in 1 .. Len(disk) : disk[j][k] = NoIndex
  BY <1>1
<1>7. IndexOf(k) = NoIndex
  BY <1>1, <1>2, <1>6, FindNone, EmptyBlockProperties DEF IndexOf
<1> QED
  BY <1>5, <1>7

(* The exported index after one more record. *)
LEMMA ExportAppended ==
    ASSUME NEW data \in Seq(Records), NEW r \in Records, NEW j \in Keys
    PROVE  ExportKeys(Append(data, r))[j] =
               IF j = r.key THEN Len(data) ELSE ExportKeys(data)[j]
<1> DEFINE longer == Append(data, r)
<1>1. /\ StoredKeys(longer) = StoredKeys(data) \cup {r.key}
      /\ LastPosition(longer, r.key) = Len(data) + 1
      /\ \A k \in StoredKeys(data) \ {r.key} :
             LastPosition(longer, k) = LastPosition(data, k)
  BY AppendRecord
<1> HIDE DEF longer
<1>2. (Len(data) + 1) - 1 = Len(data)
  BY LenProperties
<1>3. ExportKeys(longer)[j] = IF j = r.key THEN Len(data) ELSE ExportKeys(data)[j]
  BY <1>1, <1>2 DEF ExportKeys
<1> QED
  BY <1>3 DEF longer

(* The export of the data after a record that was appended. *)
LEMMA ExportStep ==
    ASSUME TypeOK, IndexIsExact, NEW k \in Keys, NEW v \in Values,
           sorted' = sorted, notSorted' = Appended(k, v), NEW j \in Keys
    PROVE  ExportKeys(Data)'[j] = IF j = k THEN ItemsCount ELSE IndexOf(j)
<1> DEFINE r == [key |-> k, value |-> v]
<1>1. r \in Records /\ r.key = k /\ Data \in Seq(Records) /\ Len(Data) = ItemsCount
  BY AddData
<1>2. Data' = Append(Data, r)
  BY AddData DEF Data
<1> HIDE DEF r
<1>3. ExportKeys(Append(Data, r))[j] =
          IF j = r.key THEN Len(Data) ELSE ExportKeys(Data)[j]
  BY <1>1, ExportAppended
<1>4. ExportKeys(Data)' = ExportKeys(Append(Data, r))
  BY <1>2 DEF ExportKeys, StoredKeys, LastPosition
<1> QED
  BY <1>1, <1>3, <1>4 DEF IndexIsExact

(* A drop may leave any list in which every key is found as if the block    *)
(* dropped were laid over the list before.                                  *)
LEMMA ExactAfterDrop ==
    ASSUME TypeOK, IndexIsExact, NEW k \in Keys, NEW v \in Values,
           sorted' = sorted, notSorted' = Appended(k, v), ram' = EmptyBlock,
           \A j \in Keys : Find(disk', j) =
               IF Indexed(k)[j] # NoIndex THEN Indexed(k)[j] ELSE Find(disk, j)
    PROVE  IndexIsExact'
<1> SUFFICES ASSUME NEW j \in Keys PROVE IndexOf(j)' = ExportKeys(Data)'[j]
  BY DEF IndexIsExact
<1>1. IndexOf(j)' = Find(disk', j)
  BY EmptyBlockProperties DEF IndexOf
<1>2. IndexOf(j)' = IF j = k THEN ItemsCount ELSE IndexOf(j)
  BY <1>1, IndexedProperties DEF IndexOf
<1> QED
  BY <1>2, ExportStep

(* A shrink makes the index exact whatever it was before. *)
LEMMA ExactAfterShrink ==
    ASSUME TypeOK, NEW k \in Keys, NEW v \in Values, AddAndShrink(k, v)
    PROVE  IndexIsExact'
<1> SUFFICES ASSUME NEW j \in Keys PROVE IndexOf(j)' = ExportKeys(Data)'[j]
  BY DEF IndexIsExact
<1> DEFINE block == ExportKeys(sorted')
           none == << >>
<1>1. Data' = sorted' /\ block \in Blocks
  BY ShrinkState
<1>2. ram' = EmptyBlock /\ disk' = AppendBlock(none, block)
  BY DEF AddAndShrink
<1>3. none \in Seq(Blocks) /\ \A n \in 1 .. Len(none) : none[n][j] = NoIndex
  OBVIOUS
<1>4. ExportKeys(Data)' = block
  BY <1>1 DEF ExportKeys, StoredKeys, LastPosition
<1> HIDE DEF none, block
<1>5. Find(AppendBlock(none, block), j) = block[j]
  BY <1>1, <1>3, AppendBlockProperties, FindNone
<1>6. IndexOf(j)' = Find(AppendBlock(none, block), j)
  BY <1>2, EmptyBlockProperties DEF IndexOf
<1> QED
  BY <1>4, <1>5, <1>6

LEMMA ExactAfterAdd ==
    ASSUME TypeOK, IndexIsExact, NEW k \in Keys, NEW v \in Values, Add(k, v)
    PROVE  IndexIsExact'
<1>1. CASE AddToRam(k, v)
  <2> SUFFICES ASSUME NEW j \in Keys PROVE IndexOf(j)' = ExportKeys(Data)'[j]
    BY DEF IndexIsExact
  <2>1. /\ sorted' = sorted /\ notSorted' = Appended(k, v)
        /\ ram' = Indexed(k) /\ disk' = disk
    BY <1>1 DEF AddToRam
  <2>2. IndexOf(j)' = IF j = k THEN ItemsCount ELSE IndexOf(j)
    BY <2>1, IndexedProperties DEF IndexOf
  <2> QED
    BY <2>1, <2>2, ExportStep
<1>2. CASE AddAndDrop(k, v)
  <2>1. /\ sorted' = sorted /\ notSorted' = Appended(k, v)
        /\ ram' = EmptyBlock /\ disk' = AppendBlock(disk, Indexed(k))
    BY <1>2 DEF AddAndDrop
  <2>2. \A j \in Keys : Find(AppendBlock(disk, Indexed(k)), j) =
            IF Indexed(k)[j] # NoIndex THEN Indexed(k)[j] ELSE Find(disk, j)
    BY IndexedProperties, AppendBlockProperties DEF TypeOK
  <2> QED
    BY <2>1, <2>2, ExactAfterDrop
<1>3. CASE AddAndShrink(k, v)
  BY <1>3, ExactAfterShrink
<1> QED
  BY <1>1, <1>2, <1>3 DEF Add

LEMMA ExactUnchanged == IndexIsExact /\ UNCHANGED vars => IndexIsExact'
<1> SUFFICES ASSUME IndexIsExact, UNCHANGED vars PROVE IndexIsExact'
  OBVIOUS
<1>1. Data' = Data /\ ram' = ram /\ disk' = disk
  BY DEF vars, Data
<1>2. \A k \in Keys : IndexOf(k)' = IndexOf(k)
  BY <1>1 DEF IndexOf
<1>3. ExportKeys(Data)' = ExportKeys(Data)
  BY <1>1
<1> QED
  BY <1>2, <1>3 DEF IndexIsExact

LEMMA IndexIsExactStep == TypeOK /\ IndexIsExact /\ [Next]_vars => IndexIsExact'
BY ExactAfterAdd, ExactUnchanged DEF Next

LEMMA ExactIsLatest == TypeOK /\ IndexIsExact => LookupIsLatest
<1> SUFFICES ASSUME TypeOK, IndexIsExact, NEW k \in Keys
             PROVE  IF Positions(k) = {}
                    THEN IndexOf(k) = NoIndex
                    ELSE /\ IndexOf(k) \in Positions(k)
                         /\ \A i \in Positions(k) : i <= IndexOf(k)
  BY DEF LookupIsLatest
<1>1. Data \in Seq(Records) /\ Len(Data) = ItemsCount /\ ItemsCount \in Nat
  BY ConcatProperties, LenProperties DEF TypeOK, Data, ItemsCount
<1>2. \A i \in 0 .. ItemsCount - 1 :
          i \in Positions(k) <=> (i + 1 \in 1 .. Len(Data) /\ Data[i + 1].key = k)
  BY GetFromData DEF Positions
<1>3. Positions(k) \in SUBSET (0 .. ItemsCount - 1)
  BY DEF Positions
<1>4. CASE k \notin StoredKeys(Data)
  <2>1. \A i \in 1 .. Len(Data) : Data[i].key # k
    BY <1>1, <1>4, LenProperties DEF StoredKeys
  <2>2. Positions(k) = {}
    BY <1>2, <1>3, <2>1
  <2> QED
    BY <1>4, <2>2 DEF IndexIsExact, ExportKeys
<1>5. CASE k \in StoredKeys(Data)
  <2> DEFINE p == LastPosition(Data, k)
  <2>1. /\ p \in 1 .. Len(Data)
        /\ Data[p].key = k
        /\ \A j \in 1 .. Len(Data) : Data[j].key = k => j <= p
    BY <1>1, <1>5, LastPositionProperties
  <2>2. IndexOf(k) = p - 1
    BY <1>5 DEF IndexIsExact, ExportKeys
  <2> HIDE DEF p
  <2>3. p - 1 \in 0 .. ItemsCount - 1 /\ (p - 1) + 1 = p
    BY <1>1, <2>1
  <2>4. p - 1 \in Positions(k)
    BY <1>2, <2>1, <2>3
  <2>5. ASSUME NEW i \in Positions(k) PROVE i <= p - 1
    <3>1. i \in 0 .. ItemsCount - 1 /\ i + 1 \in 1 .. Len(Data) /\ Data[i + 1].key = k
      BY <1>2, <1>3
    <3>2. i + 1 <= p
      BY <2>1, <3>1
    <3> QED
      BY <1>1, <2>1, <3>1, <3>2
  <2> QED
    BY <2>2, <2>4, <2>5
<1> QED
  BY <1>4, <1>5

LEMMA ExactInvariant == Spec => [](TypeOK /\ IndexIsExact)
<1>1. Init => TypeOK /\ IndexIsExact
  BY TypeOKInit, IndexIsExactInit
<1>2. (TypeOK /\ IndexIsExact) /\ [Next]_vars => (TypeOK /\ IndexIsExact)'
  BY TypeOKStep, IndexIsExactStep
<1> QED
  BY <1>1, <1>2, PTL DEF Spec

(* After every add, whatever it dropped, collapsed or shrunk, the index     *)
(* leads from every key to its last record, and from an absent key to none. *)
THEOREM LookupCorrect == Spec => []LookupIsLatest
<1> QED
  BY ExactInvariant, ExactIsLatest, PTL

-----------------------------------------------------------------------------
(* The map implements the abstract key-value store. *)

(* With an exact index, what getValue reads is the last value in the data. *)
LEMMA GetValueFromData ==
    ASSUME TypeOK, IndexIsExact, NEW k \in Keys
    PROVE  GetValue(k) = ValueIn(Data, k)
<1>1. Data \in Seq(Records) /\ Len(Data) = ItemsCount /\ ItemsCount \in Nat
  BY ConcatProperties, LenProperties DEF TypeOK, Data, ItemsCount
<1>2. CASE k \notin StoredKeys(Data)
  BY <1>2 DEF GetValue, ValueIn, IndexIsExact, ExportKeys
<1>3. CASE k \in StoredKeys(Data)
  <2> DEFINE p == LastPosition(Data, k)
  <2>1. p \in 1 .. Len(Data) /\ IndexOf(k) = p - 1
    BY <1>1, <1>3, LastPositionProperties DEF IndexIsExact, ExportKeys
  <2> HIDE DEF p
  <2>2. p - 1 \in 0 .. ItemsCount - 1 /\ (p - 1) + 1 = p /\ p - 1 # NoIndex
    BY <1>1, <2>1 DEF NoIndex
  <2>3. Get(p - 1) = Data[p]
    BY <2>2, GetFromData
  <2> QED
    BY <1>3, <2>1, <2>2, <2>3 DEF GetValue, ValueIn, p
<1> QED
  BY <1>2, <1>3

LEMMA ValueAppended ==
    ASSUME NEW data \in Seq(Records), NEW r \in Records, NEW j \in Keys
    PROVE  ValueIn(Append(data, r), j) =
               IF j = r.key THEN r.value ELSE ValueIn(data, j)
<1> DEFINE longer == Append(data, r)
<1>1. /\ StoredKeys(longer) = StoredKeys(data) \cup {r.key}
      /\ LastPosition(longer, r.key) = Len(data) + 1
      /\ longer[Len(data) + 1] = r
      /\ \A k \in StoredKeys(data) \ {r.key} :
             /\ LastPosition(longer, k) = LastPosition(data, k)
             /\ longer[LastPosition(data, k)] = data[LastPosition(data, k)]
  BY AppendRecord
<1> HIDE DEF longer
<1>2. ValueIn(longer, j) = IF j = r.key THEN r.value ELSE ValueIn(data, j)
  BY <1>1 DEF ValueIn
<1> QED
  BY <1>2 DEF longer

(* Every path of add changes the last values as the abstract add does. *)
LEMMA AddValues ==
    ASSUME TypeOK, NEW k \in Keys, NEW v \in Values, Add(k, v), NEW j \in Keys
    PROVE  ValueIn(Data, j)' = IF j = k THEN v ELSE ValueIn(Data, j)
<1> DEFINE r == [key |-> k, value |-> v]
           longer == Append(Data, r)
<1>1. /\ r \in Records /\ r.key = k /\ r.value = v
      /\ Data \in Seq(Records)
      /\ sorted \o Appended(k, v) = longer
  BY AddData
<1> HIDE DEF r
<1>2. longer \in Seq(Records)
  BY <1>1, AppendProperties
<1>3. ValueIn(longer, j) = IF j = k THEN v ELSE ValueIn(Data, j)
  BY <1>1, ValueAppended
<1> HIDE DEF longer
<1>4. CASE AddToRam(k, v) \/ AddAndDrop(k, v)
  <2>1. Data' = longer
    BY <1>1, <1>4 DEF AddToRam, AddAndDrop, Data
  <2> QED
    BY <1>3, <2>1 DEF ValueIn, StoredKeys, LastPosition
<1>5. CASE AddAndShrink(k, v)
  <2>1. Data' = Shrunk(longer)
    BY <1>5, ShrinkState DEF longer, r
  <2>2. ValueIn(Shrunk(longer), j) = ValueIn(longer, j)
    BY <1>2, ShrunkProperties
  <2>3. ValueIn(Data, j)' = ValueIn(Shrunk(longer), j)
    BY <2>1 DEF ValueIn, StoredKeys, LastPosition
  <2> QED
    BY <1>3, <2>2, <2>3
<1> QED
  BY <1>4, <1>5 DEF Add

(* Supermap implements the key-value store: it starts empty, and every add, *)
(* with the drop, the collapses and the shrink it causes, is one abstract   *)
(* add or changes nothing that getValue returns.                            *)
THEOREM Implementation == Spec => ImplementsKVStore
<1> DEFINE S == [k \in Keys |-> GetValue(k)]
           Reads == \A k \in Keys : GetValue(k) = ValueIn(Data, k)
<1>1. TypeOK /\ IndexIsExact => Reads
  BY GetValueFromData
<1>2. TypeOK /\ IndexIsExact => S = [k \in Keys |-> ValueIn(Data, k)]
  BY <1>1
<1>3. TypeOK' /\ IndexIsExact' => Reads'
  BY <1>1, PTL
<1>4. Init => Promise!Init
  <2> SUFFICES ASSUME Init PROVE S = [k \in Keys |-> NoValue]
    BY DEF Promise!Init
  <2>1. TypeOK /\ IndexIsExact
    BY TypeOKInit, IndexIsExactInit
  <2>2. Data = << >>
    BY ConcatEmptySeq DEF Init, Data
  <2>3. \A k \in Keys : ValueIn(Data, k) = NoValue
    BY <2>2 DEF ValueIn, StoredKeys
  <2> QED
    BY <1>2, <2>1, <2>3
<1>5. /\ TypeOK /\ IndexIsExact
      /\ TypeOK' /\ IndexIsExact'
      /\ [Next]_vars
      => [Promise!Next]_S
  <2> SUFFICES ASSUME TypeOK, IndexIsExact, TypeOK', IndexIsExact', [Next]_vars
               PROVE  [Promise!Next]_S
    OBVIOUS
  <2>1. S = [k \in Keys |-> ValueIn(Data, k)]
    BY <1>2
  <2>2. S' = [k \in Keys |-> ValueIn(Data, k)']
    BY <1>3
  <2>3. ASSUME NEW k \in Keys, NEW v \in Values, Add(k, v) PROVE Promise!Next
    <3>1. \A j \in Keys :
              ValueIn(Data, j)' = IF j = k THEN v ELSE ValueIn(Data, j)
      BY <2>3, AddValues
    <3>2. S' = [S EXCEPT ![k] = v]
      <4> HIDE DEF S
      <4> QED
        BY <2>1, <2>2, <3>1
    <3> QED
      BY <3>2 DEF Promise!Next, Promise!Add
  <2>4. CASE UNCHANGED vars
    <3>1. UNCHANGED Data
      BY <2>4 DEF vars, Data
    <3>2. \A j \in Keys : ValueIn(Data, j)' = ValueIn(Data, j)
      BY <3>1 DEF ValueIn, StoredKeys, LastPosition
    <3>3. S' = S
      <4> HIDE DEF S
      <4> QED
        BY <2>1, <2>2, <3>2
    <3> QED
      BY <3>3
  <2> QED
    BY <2>3, <2>4 DEF Next
<1> QED
  BY <1>4, <1>5, ExactInvariant, PTL DEF Spec, ImplementsKVStore, Promise!Spec

-----------------------------------------------------------------------------
(* The list of blocks and the order of the data. *)

(* After every add the ranks of the blocks strictly increase towards the    *)
(* oldest block: this is what the assertion of append finds at its start.   *)
THEOREM RanksAlwaysIncrease == Spec => []RanksIncrease
<1>1. Init => RanksIncrease
  BY DEF Init, RanksIncrease
<1>2. TypeOK /\ RanksIncrease /\ [Next]_vars => RanksIncrease'
  <2> SUFFICES ASSUME TypeOK, RanksIncrease, [Next]_vars PROVE RanksIncrease'
    OBVIOUS
  <2>1. ASSUME NEW k \in Keys, NEW v \in Values, AddToRam(k, v) PROVE RanksIncrease'
    BY <2>1 DEF AddToRam, RanksIncrease
  <2>2. ASSUME NEW k \in Keys, NEW v \in Values, AddAndDrop(k, v) PROVE RanksIncrease'
    <3>1. disk' = AppendBlock(disk, Indexed(k))
      BY <2>2 DEF AddAndDrop
    <3> QED
      BY <3>1, IndexedProperties, AppendBlockRanks DEF TypeOK, RanksIncrease
  <2>3. ASSUME NEW k \in Keys, NEW v \in Values, AddAndShrink(k, v) PROVE RanksIncrease'
    <3> DEFINE block == ExportKeys(sorted')
               none == << >>
    <3>1. disk' = AppendBlock(none, block)
      BY <2>3 DEF AddAndShrink
    <3>2. block \in Blocks /\ KeysOf(block) # {}
      BY <2>3, ShrinkState
    <3>3. none \in Seq(Blocks) /\ \A n \in DOMAIN none : FALSE
      OBVIOUS
    <3> HIDE DEF block, none
    <3> QED
      BY <3>1, <3>2, <3>3, AppendBlockRanks DEF RanksIncrease
  <2>4. CASE UNCHANGED vars
    BY <2>4 DEF vars, RanksIncrease
  <2> QED
    BY <2>1, <2>2, <2>3, <2>4 DEF Next, Add
<1> QED
  BY <1>1, <1>2, TypeCorrect, PTL DEF Spec

(* A lookup reads at most as many blocks as there are ranks: one more than  *)
(* the logarithm of the number of batches that all keys make.               *)
THEOREM ListIsShort ==
    ASSUME Keys # {}
    PROVE  Spec => []FewBlocks
<1>1. TypeOK /\ RanksIncrease => FewBlocks
  BY RanksBoundLength DEF TypeOK, RanksIncrease, FewBlocks
<1> QED
  BY <1>1, TypeCorrect, RanksAlwaysIncrease, PTL

-----------------------------------------------------------------------------
(* The age of the layers. *)

LayersInOrder == AgesInOrder(<<ram>> \o disk, Data)

LEMMA LayersAgree == TypeOK /\ LayersInOrder => LayersAgeInOrder
<1> SUFFICES ASSUME TypeOK, LayersInOrder PROVE LayersAgeInOrder
  OBVIOUS
<1> DEFINE layers == <<ram>> \o disk
<1>1. layers \in Seq(Blocks) /\ DOMAIN layers = 1 .. Len(layers)
  <2>1. layers \in Seq(Blocks)
    BY PushProperties DEF TypeOK
  <2> HIDE DEF layers
  <2> QED
    BY <2>1, LenProperties
<1>2. AgesInOrder(layers, Data)
  BY DEF LayersInOrder
<1> HIDE DEF layers
<1>3. ASSUME NEW k \in Keys, NEW i \in Nat, LeadsTo(Data, i, k)
      PROVE  i \in Positions(k)
  <2>1. Data \in Seq(Records) /\ Len(Data) = ItemsCount /\ ItemsCount \in Nat
    BY ConcatProperties, LenProperties DEF TypeOK, Data, ItemsCount
  <2>2. i \in 0 .. ItemsCount - 1
    BY <1>3, <2>1 DEF LeadsTo
  <2> QED
    BY <1>3, <2>2, GetFromData DEF LeadsTo, Positions
<1>4. ASSUME NEW k \in Keys, NEW n \in Holders(layers, k)
      PROVE  /\ layers[n][k] \in Positions(k)
             /\ \A m \in Holders(layers, k) :
                    n < m => layers[m][k] < layers[n][k]
  <2>1. n \in 1 .. Len(layers) /\ layers[n][k] # NoIndex
    BY <1>1 DEF Holders
  <2>2. layers[n] \in Blocks
    BY <1>1, <2>1, ElementOfSeq
  <2>3. layers[n][k] \in Nat
    BY <2>1, <2>2 DEF Blocks
  <2>4. layers[n][k] \in Positions(k)
    BY <1>2, <1>3, <2>1, <2>3 DEF AgesInOrder
  <2>5. \A m \in Holders(layers, k) : n < m => layers[m][k] < layers[n][k]
    BY <1>1, <1>2, <2>1 DEF AgesInOrder, Holders
  <2> QED
    BY <2>4, <2>5
<1> QED
  BY <1>4 DEF LayersAgeInOrder, layers

LEMMA EmptyAged ==
    ASSUME NEW list \in Seq(Blocks), NEW data, AgesInOrder(list, data)
    PROVE  AgesInOrder(<<EmptyBlock>> \o list, data)
BY EmptyBlockProperties, AgedPush

(* The layers after the record and its index have been added. *)
LEMMA IndexedAged ==
    ASSUME TypeOK, LayersInOrder, NEW k \in Keys, NEW v \in Values
    PROVE  LET longer == Append(Data, [key |-> k, value |-> v])
           IN  /\ AgesInOrder(disk, longer)
               /\ AgesInOrder(<<Indexed(k)>> \o disk, longer)
<1> DEFINE r == [key |-> k, value |-> v]
           longer == Append(Data, r)
<1>1. r \in Records /\ r.key = k /\ Data \in Seq(Records) /\ Len(Data) = ItemsCount
  BY AddData
<1> HIDE DEF r
<1>2. /\ Len(longer) = ItemsCount + 1
      /\ \A i \in 1 .. Len(Data) : longer[i] = Data[i]
      /\ longer[ItemsCount + 1] = r
      /\ ItemsCount \in Nat
  BY <1>1, AppendProperties, LenProperties
<1>3. ram \in Blocks /\ disk \in Seq(Blocks)
  BY DEF TypeOK
<1>4. /\ AgesInOrder(disk, Data)
      /\ \A j \in Keys : ram[j] # NoIndex =>
             /\ LeadsTo(Data, ram[j], j)
             /\ \A m \in 1 .. Len(disk) :
                    disk[m][j] # NoIndex => disk[m][j] < ram[j]
  BY <1>3, AgedTail DEF LayersInOrder
<1>5. AgesInOrder(disk, longer)
  BY <1>1, <1>4, AgedAppendRecord
<1> HIDE DEF longer
<1>6. ASSUME NEW j \in Keys, Indexed(k)[j] # NoIndex
      PROVE  /\ LeadsTo(longer, Indexed(k)[j], j)
             /\ \A m \in 1 .. Len(disk) :
                    disk[m][j] # NoIndex => disk[m][j] < Indexed(k)[j]
  <2>1. CASE j = k
    <3>1. Indexed(k)[j] = ItemsCount
      BY <2>1, IndexedProperties
    <3>2. LeadsTo(longer, ItemsCount, j)
      BY <1>1, <1>2, <2>1 DEF LeadsTo
    <3>3. ASSUME NEW m \in 1 .. Len(disk), disk[m][j] # NoIndex
          PROVE  disk[m][j] < ItemsCount
      <4>1. LeadsTo(Data, disk[m][j], j)
        BY <1>4, <3>3 DEF AgesInOrder
      <4>2. disk[m] \in Blocks
        BY <1>3, ElementOfSeq
      <4>3. disk[m][j] \in Nat
        BY <3>3, <4>2 DEF Blocks
      <4> QED
        BY <1>1, <1>2, <4>1, <4>3 DEF LeadsTo
    <3> QED
      BY <3>1, <3>2, <3>3
  <2>2. CASE j # k
    <3>1. Indexed(k)[j] = ram[j] /\ ram[j] # NoIndex
      BY <1>6, <2>2, IndexedProperties
    <3>2. LeadsTo(longer, ram[j], j)
      BY <1>1, <1>2, <1>4, <3>1 DEF LeadsTo
    <3> QED
      BY <1>4, <3>1, <3>2
  <2> QED
    BY <2>1, <2>2
<1>7. AgesInOrder(<<Indexed(k)>> \o disk, longer)
  BY <1>3, <1>5, <1>6, IndexedProperties, AgedPush
<1> QED
  BY <1>5, <1>7 DEF longer, r

(* A drop may leave any list that is in order. *)
LEMMA AgedAfterDrop ==
    ASSUME TypeOK, NEW k \in Keys, NEW v \in Values,
           sorted' = sorted, notSorted' = Appended(k, v), ram' = EmptyBlock,
           disk' \in Seq(Blocks),
           AgesInOrder(disk', Append(Data, [key |-> k, value |-> v]))
    PROVE  LayersInOrder'
<1> DEFINE longer == Append(Data, [key |-> k, value |-> v])
<1>1. Data' = longer
  BY AddData DEF Data
<1> HIDE DEF longer
<1>2. AgesInOrder(<<EmptyBlock>> \o disk', longer)
  BY EmptyAged DEF longer
<1> QED
  BY <1>1, <1>2 DEF LayersInOrder, AgesInOrder, LeadsTo

LEMMA AgedAfterShrink ==
    ASSUME TypeOK, NEW k \in Keys, NEW v \in Values, AddAndShrink(k, v)
    PROVE  LayersInOrder'
<1> DEFINE none == << >>
           block == ExportKeys(sorted')
           new == AppendBlock(none, block)
<1>1. sorted' \in Seq(Records) /\ Data' = sorted' /\ block \in Blocks
  BY ShrinkState
<1>2. ram' = EmptyBlock /\ disk' = new
  BY DEF AddAndShrink
<1>3. AgesInOrder(<<block>> \o none, sorted')
  BY <1>1, AgedExport
<1>4. none \in Seq(Blocks)
  OBVIOUS
<1> HIDE DEF none, block
<1>5. new \in Seq(Blocks) /\ AgesInOrder(new, sorted')
  BY <1>1, <1>3, <1>4, AppendBlockProperties, AgedAppendBlock
<1>6. AgesInOrder(<<EmptyBlock>> \o new, sorted')
  BY <1>5, EmptyAged
<1> QED
  BY <1>1, <1>2, <1>6 DEF LayersInOrder, AgesInOrder, LeadsTo

LEMMA AgedAfterAdd ==
    ASSUME TypeOK, LayersInOrder, NEW k \in Keys, NEW v \in Values, Add(k, v)
    PROVE  LayersInOrder'
<1> DEFINE longer == Append(Data, [key |-> k, value |-> v])
<1>1. AgesInOrder(<<Indexed(k)>> \o disk, longer)
  BY IndexedAged
<1>2. CASE AddToRam(k, v)
  <2>1. Data' = longer /\ ram' = Indexed(k) /\ disk' = disk
    BY <1>2, AddData DEF AddToRam, Data
  <2> HIDE DEF longer
  <2> QED
    BY <1>1, <2>1 DEF LayersInOrder, AgesInOrder, LeadsTo
<1>3. CASE AddAndDrop(k, v)
  <2>1. /\ sorted' = sorted /\ notSorted' = Appended(k, v)
        /\ ram' = EmptyBlock /\ disk' = AppendBlock(disk, Indexed(k))
    BY <1>3 DEF AddAndDrop
  <2>2. /\ AppendBlock(disk, Indexed(k)) \in Seq(Blocks)
        /\ AgesInOrder(AppendBlock(disk, Indexed(k)), longer)
    BY <1>1, IndexedProperties, AppendBlockProperties, AgedAppendBlock DEF TypeOK
  <2> QED
    BY <2>1, <2>2, AgedAfterDrop
<1>4. CASE AddAndShrink(k, v)
  BY <1>4, AgedAfterShrink
<1> QED
  BY <1>2, <1>3, <1>4 DEF Add

LEMMA AgedUnchanged == LayersInOrder /\ UNCHANGED vars => LayersInOrder'
BY DEF vars, Data, LayersInOrder, AgesInOrder, LeadsTo

LEMMA AgedInit == Init => LayersInOrder
<1> SUFFICES ASSUME Init PROVE LayersInOrder
  OBVIOUS
<1> DEFINE none == << >>
<1>1. ram = EmptyBlock /\ disk = none
  BY DEF Init
<1>2. none \in Seq(Blocks) /\ AgesInOrder(none, Data)
  BY DEF AgesInOrder
<1> HIDE DEF none
<1> QED
  BY <1>1, <1>2, EmptyAged DEF LayersInOrder

(* Every entry of every layer, the superseded ones included, leads to a     *)
(* record of its key, and newer layers lead to later records: finding and   *)
(* merging may go by the age of a block alone.                              *)
THEOREM LayersAlwaysAge == Spec => []LayersAgeInOrder
<1>1. TypeOK /\ LayersInOrder /\ [Next]_vars => LayersInOrder'
  BY AgedAfterAdd, AgedUnchanged DEF Next
<1> QED
  BY <1>1, AgedInit, LayersAgree, TypeCorrect, PTL DEF Spec

-----------------------------------------------------------------------------
(* The space that is used. *)

(* The sorted part has one record per key at most, and the part that is not *)
(* sorted is empty or was below its share after the last append.            *)
SpaceInv ==
    /\ Len(sorted) <= Cardinality(Keys)
    /\ notSorted = << >> \/ Len(notSorted) * PartDen < PartNum * ItemsCount

LEMMA SpaceStep == TypeOK /\ SpaceInv /\ [Next]_vars => SpaceInv'
<1> SUFFICES ASSUME TypeOK, SpaceInv, [Next]_vars PROVE SpaceInv'
  OBVIOUS
<1>1. ASSUME NEW k \in Keys, NEW v \in Values, AddToRam(k, v) \/ AddAndDrop(k, v)
      PROVE  SpaceInv'
  <2>1. /\ sorted' = sorted
        /\ notSorted' = Append(notSorted, [key |-> k, value |-> v])
        /\ ~ ((Len(notSorted) + 1) * PartDen >= PartNum * (ItemsCount + 1))
    BY <1>1 DEF AddToRam, AddAndDrop, TooMuchNotSorted, Appended
  <2>2. Len(sorted) \in Nat /\ Len(notSorted) \in Nat
    BY LenProperties DEF TypeOK
  <2>3. Len(notSorted') = Len(notSorted) + 1
    <3> DEFINE r == [key |-> k, value |-> v]
    <3>1. r \in Records
      BY DEF Records
    <3> HIDE DEF r
    <3> QED
      BY <2>1, <3>1, AppendProperties DEF TypeOK, r
  <2>4. ItemsCount' = ItemsCount + 1 /\ ItemsCount \in Nat
    BY <2>1, <2>2, <2>3 DEF ItemsCount
  <2>5. Len(notSorted') * PartDen < PartNum * ItemsCount'
    <3> DEFINE a == (Len(notSorted) + 1) * PartDen
               b == PartNum * (ItemsCount + 1)
    <3>1. a \in Int /\ b \in Int
      BY <2>2, <2>4, PartAssumption
    <3>2. ~ (a >= b)
      BY <2>1
    <3> HIDE DEF a, b
    <3>3. a < b
      BY <3>1, <3>2
    <3> QED
      BY <2>3, <2>4, <3>3 DEF a, b
  <2> QED
    BY <2>1, <2>5 DEF SpaceInv
<1>2. ASSUME NEW k \in Keys, NEW v \in Values, AddAndShrink(k, v) PROVE SpaceInv'
  <2> DEFINE longer == Append(Data, [key |-> k, value |-> v])
  <2>1. sorted' = Shrunk(longer)
    BY <1>2, ShrinkState
  <2>2. longer \in Seq(Records)
    BY AddData, AppendProperties
  <2> HIDE DEF longer
  <2>3. Len(sorted') = Cardinality(StoredKeys(longer)) /\ StoredKeys(longer) \in SUBSET Keys
    BY <2>1, <2>2, ShrunkProperties, StoredKeysType
  <2>4. Cardinality(StoredKeys(longer)) <= Cardinality(Keys)
    BY <2>3, KeysAssumption, FS_Subset
  <2> QED
    BY <1>2, <2>3, <2>4 DEF SpaceInv, AddAndShrink
<1>3. CASE UNCHANGED vars
  BY <1>3 DEF vars, SpaceInv, ItemsCount
<1> QED
  BY <1>1, <1>2, <1>3 DEF Next, Add

LEMMA SpaceInvBound == TypeOK /\ SpaceInv => SpaceBound
<1> SUFFICES ASSUME TypeOK, SpaceInv PROVE SpaceBound
  OBVIOUS
<1> DEFINE s == Len(sorted)
           n == Len(notSorted)
           c == Cardinality(Keys)
<1>1. s \in Nat /\ n \in Nat /\ c \in Nat /\ s <= c
  BY LenProperties, KeysAssumption, FS_CardinalityType DEF TypeOK, SpaceInv
<1>2. n = 0 \/ n * PartDen < PartNum * (s + n)
  BY DEF SpaceInv, ItemsCount
<1>3. PartNum \in Nat /\ PartDen \in Nat
  BY PartAssumption
<1> HIDE DEF s, n, c
<1>4. (s + n) * (PartDen - PartNum) = s * PartDen + n * PartDen - PartNum * (s + n)
  BY <1>1, <1>3, Z3
<1>5. s * PartDen <= PartDen * c
  BY <1>1, <1>3, Z3
<1>6. n * PartDen - PartNum * (s + n) <= 0
  <2>1. CASE n = 0
    <3>1. n * PartDen = 0 /\ PartNum * (s + n) >= 0
      BY <1>1, <1>3, <2>1, Z3
    <3> QED
      BY <1>1, <1>3, <3>1
  <2>2. CASE n * PartDen < PartNum * (s + n)
    BY <1>1, <1>3, <2>2
  <2> QED
    BY <1>2, <2>1, <2>2
<1>7. (s + n) * (PartDen - PartNum) <= PartDen * c
  <2> DEFINE a == s * PartDen
             b == n * PartDen
             e == PartNum * (s + n)
             g == PartDen * c
  <2>1. a \in Int /\ b \in Int /\ e \in Int /\ g \in Int
    BY <1>1, <1>3
  <2>2. a <= g /\ b - e <= 0 /\ (s + n) * (PartDen - PartNum) = a + b - e
    BY <1>4, <1>5, <1>6
  <2> HIDE DEF a, b, e, g
  <2>3. (s + n) * (PartDen - PartNum) <= g
    BY <2>1, <2>2
  <2> QED
    BY <2>3 DEF g
<1> QED
  BY <1>7 DEF SpaceBound, ItemsCount, s, n, c

(* The data file never holds more than the distinct keys divided by the     *)
(* part that must be sorted, for every threshold.                           *)
THEOREM SpaceIsBounded == Spec => []SpaceBound
<1>1. Init => SpaceInv
  BY KeysAssumption, FS_CardinalityType DEF Init, SpaceInv
<1> QED
  BY <1>1, SpaceStep, SpaceInvBound, TypeCorrect, PTL DEF Spec

-----------------------------------------------------------------------------
(* SupermapFaults: what a call that throws leaves behind. *)

(* The list a cascade leaves that is cut short: every key is found as after *)
(* the whole of it, and the layers are in order.                            *)
LEMMA CutShort ==
    ASSUME TypeOK, NEW k \in Keys, NEW v \in Values, CollapseThrows(k, v)
    PROVE  /\ disk' \in Seq(Blocks)
           /\ \A n \in DOMAIN disk' : KeysOf(disk'[n]) # {}
           /\ \A j \in Keys : Find(disk', j) =
                  IF Indexed(k)[j] # NoIndex THEN Indexed(k)[j] ELSE Find(disk, j)
           /\ \A data : AgesInOrder(<<Indexed(k)>> \o disk, data) => AgesInOrder(disk', data)
<1> DEFINE longer == <<Indexed(k)>> \o disk
<1>1. /\ longer \in Seq(Blocks)
      /\ Len(longer) = Len(disk) + 1
      /\ longer[1] = Indexed(k)
      /\ \A i \in 2 .. Len(disk) + 1 : longer[i] = disk[i - 1]
      /\ \A j \in Keys : Find(longer, j) =
             IF Indexed(k)[j] # NoIndex THEN Indexed(k)[j] ELSE Find(disk, j)
  BY IndexedProperties, PushProperties DEF TypeOK
<1>2. PICK d \in 1 .. CollapseDepth(longer) - 1 : disk' = MergeFirst(longer, d)
  BY DEF CollapseThrows, MergeFirst
<1> HIDE DEF longer
<1>3. d \in 1 .. Len(longer)
  <2>1. longer # << >> /\ Len(longer) \in Nat
    BY <1>1, EmptySeq, LenProperties DEF TypeOK
  <2>2. CollapseDepth(longer) \in 1 .. Len(longer)
    BY <1>1, <2>1, CollapseDepthProperties
  <2> QED
    BY <2>1, <2>2
<1>4. \A i \in DOMAIN longer : KeysOf(longer[i]) # {}
  <2> SUFFICES ASSUME NEW i \in DOMAIN longer PROVE KeysOf(longer[i]) # {}
    OBVIOUS
  <2>1. Len(disk) \in Nat /\ DOMAIN disk = 1 .. Len(disk) /\ DOMAIN longer = 1 .. Len(disk) + 1
    BY <1>1, LenProperties DEF TypeOK
  <2>2. i = 1 \/ (i \in 2 .. Len(disk) + 1 /\ i - 1 \in DOMAIN disk)
    BY <2>1
  <2> QED
    BY <1>1, <2>2, IndexedProperties DEF TypeOK
<1>5. /\ disk' \in Seq(Blocks)
      /\ \A j \in Keys : Find(disk', j) = Find(longer, j)
  BY <1>1, <1>2, <1>3, MergeFirstProperties
<1>6. \A n \in DOMAIN disk' : KeysOf(disk'[n]) # {}
  BY <1>1, <1>2, <1>3, <1>4, MergeFirstHolds
<1>7. ASSUME NEW data, AgesInOrder(longer, data) PROVE AgesInOrder(disk', data)
  BY <1>1, <1>2, <1>3, <1>7, AgedMergeFirst
<1> QED
  BY <1>1, <1>5, <1>6, <1>7 DEF longer

(* The list that RAM is dropped to before a shrink. *)
LEMMA DroppedToOldList ==
    ASSUME TypeOK, NEW k \in Keys, disk' = AppendBlock(disk, Indexed(k))
    PROVE  /\ disk' \in Seq(Blocks)
           /\ \A n \in DOMAIN disk' : KeysOf(disk'[n]) # {}
           /\ \A j \in Keys : Find(disk', j) =
                  IF Indexed(k)[j] # NoIndex THEN Indexed(k)[j] ELSE Find(disk, j)
           /\ \A data : AgesInOrder(<<Indexed(k)>> \o disk, data) => AgesInOrder(disk', data)
<1> DEFINE new == AppendBlock(disk, Indexed(k))
<1>1. /\ new \in Seq(Blocks)
      /\ \A n \in DOMAIN new : KeysOf(new[n]) # {}
      /\ \A j \in Keys : Find(new, j) =
             IF Indexed(k)[j] # NoIndex THEN Indexed(k)[j] ELSE Find(disk, j)
  BY IndexedProperties, AppendBlockProperties, AppendBlockRanks DEF TypeOK
<1>2. \A data : AgesInOrder(<<Indexed(k)>> \o disk, data) => AgesInOrder(new, data)
  BY IndexedProperties, AgedAppendBlock DEF TypeOK
<1> QED
  BY <1>1, <1>2

LEMMA FaultTypeStep == TypeOK /\ [FaultNext]_faultVars => TypeOK'
<1> SUFFICES ASSUME TypeOK, [FaultNext]_faultVars PROVE TypeOK'
  OBVIOUS
<1>1. ASSUME ram' = EmptyBlock,
             sorted' \in Seq(Records), notSorted' \in Seq(Records),
             disk' \in Seq(Blocks), \A n \in DOMAIN disk' : KeysOf(disk'[n]) # {}
      PROVE  TypeOK'
  <2>1. ram' \in Blocks /\ Cardinality(KeysOf(ram')) < BatchSize
    BY <1>1, EmptyBlockProperties, FS_EmptySet, BatchAssumption
  <2> QED
    BY <1>1, <2>1 DEF TypeOK
<1>2. ASSUME NEW k \in Keys, NEW v \in Values, AddReturns(k, v), ItemsCount < MaxItems
      PROVE  TypeOK'
  BY <1>2, TypeOKStep DEF AddReturns, Next
<1>3. ASSUME NEW k \in Keys, NEW v \in Values, DropThrows(k, v) PROVE TypeOK'
  BY <1>1, <1>3, AddData DEF DropThrows, Throws, TypeOK
<1>4. ASSUME NEW k \in Keys, NEW v \in Values, CollapseThrows(k, v) PROVE TypeOK'
  <2>1. /\ disk' \in Seq(Blocks)
        /\ \A n \in DOMAIN disk' : KeysOf(disk'[n]) # {}
    BY <1>4, CutShort
  <2>2. ram' = EmptyBlock /\ sorted' = sorted /\ notSorted' = Appended(k, v)
    BY <1>4 DEF CollapseThrows, Throws
  <2> QED
    BY <1>1, <2>1, <2>2, AddData DEF TypeOK
<1>5. ASSUME NEW k \in Keys, NEW v \in Values, ShrinkThrows(k, v) PROVE TypeOK'
  <2>1. /\ disk' \in Seq(Blocks)
        /\ \A n \in DOMAIN disk' : KeysOf(disk'[n]) # {}
    BY <1>5, DroppedToOldList DEF ShrinkThrows
  <2>2. ram' = EmptyBlock /\ sorted' = sorted /\ notSorted' = Appended(k, v)
    BY <1>5 DEF ShrinkThrows, Throws
  <2> QED
    BY <1>1, <2>1, <2>2, AddData DEF TypeOK
<1>6. ASSUME NEW k \in Keys, NEW v \in Values, ExportThrows(k, v) PROVE TypeOK'
  <2>1. /\ disk' \in Seq(Blocks)
        /\ \A n \in DOMAIN disk' : KeysOf(disk'[n]) # {}
    BY <1>6, DroppedToOldList DEF ExportThrows
  <2>2. /\ ram' = EmptyBlock
        /\ sorted' = Shrunk(sorted \o Appended(k, v))
        /\ notSorted' = << >>
    BY <1>6 DEF ExportThrows, Throws
  <2>3. sorted' \in Seq(Records)
    <3> DEFINE longer == Append(Data, [key |-> k, value |-> v])
    <3>1. longer \in Seq(Records) /\ sorted \o Appended(k, v) = longer
      BY AddData, AppendProperties
    <3> HIDE DEF longer
    <3> QED
      BY <2>2, <3>1, ShrunkProperties
  <2>4. notSorted' \in Seq(Records)
    BY <2>2
  <2> QED
    BY <1>1, <2>1, <2>2, <2>3, <2>4
<1>7. CASE UNCHANGED faultVars
  BY <1>7, TypeOKStep DEF faultVars
<1> QED
  BY <1>2, <1>3, <1>4, <1>5, <1>6, <1>7 DEF FaultNext

(* A step that adds to the unsorted part is not a shrink that returned. *)
LEMMA StillThrown ==
    ASSUME TypeOK, NEW k \in Keys, NEW v \in Values, AddReturns(k, v),
           ~ AddAndShrink(k, v)
    PROVE  thrown' = thrown
<1>1. notSorted' = Appended(k, v)
  BY DEF AddReturns, Add, AddToRam, AddAndDrop
<1>2. Appended(k, v) # << >>
  <2> DEFINE r == [key |-> k, value |-> v]
  <2>1. r \in Records /\ notSorted \in Seq(Records)
    BY DEF Records, TypeOK
  <2> HIDE DEF r
  <2>2. /\ Append(notSorted, r) \in Seq(Records)
        /\ Len(Append(notSorted, r)) = Len(notSorted) + 1
        /\ Len(notSorted) \in Nat
    BY <2>1, AppendProperties, LenProperties
  <2>3. Append(notSorted, r) # << >>
    BY <2>2, EmptySeq
  <2> QED
    BY <2>3 DEF Appended, r
<1> QED
  BY <1>1, <1>2 DEF AddReturns

(* The inductive invariant: what the exceptions since the last shrink have  *)
(* left untouched.                                                          *)
FaultInv ==
    /\ TypeOK
    /\ thrown \cap {"drop", "export"} = {} => IndexIsExact
    /\ "export" \notin thrown => LayersInOrder

LEMMA FaultInitially == FaultInit => FaultInv
BY TypeOKInit, IndexIsExactInit, AgedInit DEF FaultInit, FaultInv

LEMMA FaultStep == FaultInv /\ [FaultNext]_faultVars => FaultInv'
<1> SUFFICES ASSUME FaultInv, [FaultNext]_faultVars PROVE FaultInv'
  OBVIOUS
<1>1. TypeOK /\ TypeOK'
  BY FaultTypeStep DEF FaultInv
<1> DEFINE Exact == thrown' \cap {"drop", "export"} = {} => IndexIsExact'
           Aged == "export" \notin thrown' => LayersInOrder'
<1>2. ASSUME NEW k \in Keys, NEW v \in Values, AddReturns(k, v) PROVE Exact /\ Aged
  <2>1. CASE AddAndShrink(k, v)
    BY <1>1, <2>1, ExactAfterShrink, AgedAfterShrink
  <2>2. CASE ~ AddAndShrink(k, v)
    <3>1. thrown' = thrown /\ Add(k, v)
      BY <1>1, <1>2, <2>2, StillThrown DEF AddReturns
    <3> QED
      BY <1>1, <3>1, ExactAfterAdd, AgedAfterAdd DEF FaultInv
  <2> QED
    BY <2>1, <2>2
<1>3. ASSUME NEW k \in Keys, NEW v \in Values, DropThrows(k, v) PROVE Exact /\ Aged
  <2>1. /\ thrown' = thrown \cup {"drop"} /\ ram' = EmptyBlock
        /\ sorted' = sorted /\ notSorted' = Appended(k, v) /\ disk' = disk
    BY <1>3 DEF DropThrows, Throws
  <2>2. Exact
    BY <2>1
  <2>3. Aged
    <3> SUFFICES ASSUME "export" \notin thrown' PROVE LayersInOrder'
      OBVIOUS
    <3>1. LayersInOrder /\ disk \in Seq(Blocks)
      BY <2>1 DEF FaultInv, TypeOK
    <3>2. AgesInOrder(disk', Append(Data, [key |-> k, value |-> v]))
      BY <1>1, <2>1, <3>1, IndexedAged
    <3> QED
      BY <1>1, <2>1, <3>1, <3>2, AgedAfterDrop
  <2> QED
    BY <2>2, <2>3
(* The two ways for a call to throw behind the drop and before the data     *)
(* file is replaced.                                                        *)
<1>4. ASSUME NEW k \in Keys, NEW v \in Values, NEW step \in {"collapse", "shrink"},
             thrown' = thrown \cup {step}, ram' = EmptyBlock,
             sorted' = sorted, notSorted' = Appended(k, v),
             disk' \in Seq(Blocks),
             \A j \in Keys : Find(disk', j) =
                 IF Indexed(k)[j] # NoIndex THEN Indexed(k)[j] ELSE Find(disk, j),
             \A data : AgesInOrder(<<Indexed(k)>> \o disk, data) => AgesInOrder(disk', data)
      PROVE  Exact /\ Aged
  <2>1. Exact
    <3> SUFFICES ASSUME thrown' \cap {"drop", "export"} = {} PROVE IndexIsExact'
      OBVIOUS
    <3>1. thrown \cap {"drop", "export"} = {}
      BY <1>4
    <3>2. IndexIsExact
      BY <3>1 DEF FaultInv
    <3> QED
      BY <1>1, <1>4, <3>2, ExactAfterDrop
  <2>2. Aged
    <3> SUFFICES ASSUME "export" \notin thrown' PROVE LayersInOrder'
      OBVIOUS
    <3>1. LayersInOrder
      BY <1>4 DEF FaultInv
    <3>2. AgesInOrder(disk', Append(Data, [key |-> k, value |-> v]))
      BY <1>1, <1>4, <3>1, IndexedAged
    <3> QED
      BY <1>1, <1>4, <3>2, AgedAfterDrop
  <2> QED
    BY <2>1, <2>2
<1>5. ASSUME NEW k \in Keys, NEW v \in Values, CollapseThrows(k, v) PROVE Exact /\ Aged
  <2>1. /\ thrown' = thrown \cup {"collapse"} /\ ram' = EmptyBlock
        /\ sorted' = sorted /\ notSorted' = Appended(k, v)
    BY <1>5 DEF CollapseThrows, Throws
  <2>2. "collapse" \in {"collapse", "shrink"}
    OBVIOUS
  <2> HIDE DEF Exact, Aged
  <2> QED
    BY <1>1, <1>4, <1>5, <2>1, <2>2, CutShort
<1>6. ASSUME NEW k \in Keys, NEW v \in Values, ShrinkThrows(k, v) PROVE Exact /\ Aged
  <2>1. /\ thrown' = thrown \cup {"shrink"} /\ ram' = EmptyBlock
        /\ sorted' = sorted /\ notSorted' = Appended(k, v)
        /\ disk' = AppendBlock(disk, Indexed(k))
    BY <1>6 DEF ShrinkThrows, Throws
  <2>2. "shrink" \in {"collapse", "shrink"}
    OBVIOUS
  <2> HIDE DEF Exact, Aged
  <2> QED
    BY <1>1, <1>4, <2>1, <2>2, DroppedToOldList
<1>7. ASSUME NEW k \in Keys, NEW v \in Values, ExportThrows(k, v) PROVE Exact /\ Aged
  BY <1>7 DEF ExportThrows, Throws
<1>8. ASSUME UNCHANGED faultVars PROVE Exact /\ Aged
  <2>1. UNCHANGED vars /\ thrown' = thrown
    BY <1>8 DEF faultVars
  <2> QED
    BY <2>1, ExactUnchanged, AgedUnchanged DEF FaultInv
<1>9. Exact /\ Aged
  <2> HIDE DEF Exact, Aged
  <2> QED
    BY <1>2, <1>3, <1>5, <1>6, <1>7, <1>8 DEF FaultNext
<1> QED
  BY <1>1, <1>9 DEF FaultInv

LEMMA FaultAlways == FaultSpec => []FaultInv
BY FaultInitially, FaultStep, PTL DEF FaultSpec

(* Whatever throws, and however often: only an exception in the drop of the *)
(* RAM index, or behind the replacement of the data file, makes the index   *)
(* inexact, and only until a shrink returns.                                *)
THEOREM ExactAfterExceptions == FaultSpec => []ExactUnlessDropOrExport
<1>1. FaultInv => ExactUnlessDropOrExport
  BY ExactIsLatest DEF FaultInv, ExactUnlessDropOrExport
<1> QED
  BY <1>1, FaultAlways, PTL

(* As long as nothing throws behind the replacement of the data file, every *)
(* entry leads to a record of its key, and the layers are in order of age.  *)
THEOREM AgedAfterExceptions == FaultSpec => []AgedUnlessExport
<1>1. FaultInv => AgedUnlessExport
  BY LayersAgree DEF FaultInv, AgedUnlessExport
<1> QED
  BY <1>1, FaultAlways, PTL

(* The values read are those of the data, whenever the index is exact. *)
ReadsData == \A j \in Keys : GetValue(j) = ValueIn(Data, j)

LEMMA ReadsFromData == TypeOK /\ IndexIsExact => ReadsData
BY GetValueFromData DEF ReadsData

LEMMA ReadsFromDataNext == TypeOK' /\ IndexIsExact' => ReadsData'
BY ReadsFromData, PTL

LEMMA StoreStep ==
    ASSUME TypeOK, TypeOK', IndexIsExact, IndexIsExact', "export" \notin thrown',
           [FaultNext]_faultVars
    PROVE  [Promise!Next]_<<[k \in Keys |-> GetValue(k)]>>
<1> DEFINE S == [k \in Keys |-> GetValue(k)]
<1>1. /\ \A j \in Keys : GetValue(j) = ValueIn(Data, j)
      /\ \A j \in Keys : GetValue(j)' = ValueIn(Data, j)'
  BY ReadsFromData, ReadsFromDataNext DEF ReadsData
<1>2. ASSUME NEW k \in Keys, NEW v \in Values,
             \A j \in Keys : ValueIn(Data, j)' = IF j = k THEN v ELSE ValueIn(Data, j)
      PROVE  Promise!Next
  <2>1. S' = [S EXCEPT ![k] = v]
    BY <1>1, <1>2
  <2> QED
    BY <2>1 DEF Promise!Next, Promise!Add
(* The record is appended although the call throws.                         *)
<1>3. ASSUME NEW k \in Keys, NEW v \in Values,
             sorted' = sorted, notSorted' = Appended(k, v)
      PROVE  Promise!Next
  <2> DEFINE r == [key |-> k, value |-> v]
  <2>1. r \in Records /\ r.key = k /\ r.value = v /\ Data \in Seq(Records)
    BY AddData
  <2>2. Data' = Append(Data, r)
    BY <1>3, AddData DEF Data
  <2> HIDE DEF r
  <2>3. \A j \in Keys : ValueIn(Append(Data, r), j) = IF j = k THEN v ELSE ValueIn(Data, j)
    BY <2>1, ValueAppended
  <2>4. \A j \in Keys : ValueIn(Data, j)' = ValueIn(Append(Data, r), j)
    BY <2>2 DEF ValueIn, StoredKeys, LastPosition
  <2> QED
    BY <1>2, <2>3, <2>4
<1>4. ASSUME NEW k \in Keys, NEW v \in Values, AddReturns(k, v) PROVE Promise!Next
  BY <1>2, <1>4, AddValues DEF AddReturns
<1>5. ASSUME NEW k \in Keys, NEW v \in Values PROVE ~ ExportThrows(k, v)
  BY DEF ExportThrows, Throws
<1>6. CASE UNCHANGED faultVars
  <2>1. UNCHANGED Data
    BY <1>6 DEF faultVars, vars, Data
  <2>2. \A j \in Keys : ValueIn(Data, j)' = ValueIn(Data, j)
    BY <2>1 DEF ValueIn, StoredKeys, LastPosition
  <2>3. S' = S
    BY <1>1, <2>2
  <2> QED
    BY <2>3
<1> QED
  BY <1>3, <1>4, <1>5, <1>6
     DEF FaultNext, DropThrows, CollapseThrows, ShrinkThrows

(* As long as nothing threw in a drop or behind the replacement of the data *)
(* file, every call of add, the one that throws included, is an abstract    *)
(* add or changes nothing that getValue returns.                            *)
THEOREM StoreUnlessDropOrExport == FaultSpec => ActsAsStore
<1>1. FaultInv /\ FaultInv' /\ [FaultNext]_faultVars
          => [(thrown \cup thrown') \cap {"drop", "export"} = {}
                 => [Promise!Next]_<<[k \in Keys |-> GetValue(k)]>>]_faultVars
  <2> SUFFICES ASSUME FaultInv, FaultInv', [FaultNext]_faultVars,
                      (thrown \cup thrown') \cap {"drop", "export"} = {}
               PROVE  [Promise!Next]_<<[k \in Keys |-> GetValue(k)]>>
    OBVIOUS
  <2>1. /\ thrown \cap {"drop", "export"} = {}
        /\ thrown' \cap {"drop", "export"} = {}
    OBVIOUS
  <2>2. /\ TypeOK /\ TypeOK' /\ IndexIsExact /\ IndexIsExact'
        /\ "export" \notin thrown'
    BY <2>1 DEF FaultInv
  <2> QED
    BY <2>2, StoreStep
<1> QED
  BY <1>1, FaultAlways, PTL DEF FaultSpec, ActsAsStore

-----------------------------------------------------------------------------
(* What the wrappers rely on when calls throw. *)

Store == [j \in Keys |-> ValueIn(Data, j)]

Found == {j \in Keys : IndexOf(j) # NoIndex}

(* The index holds no key that has no record, however stale it is.          *)
FoundIsStored == Found \subseteq StoredKeys(Data)

ValuesAreStored == {j \in Keys : Store[j] # NoValue} = StoredKeys(Data)

LEMMA StoredHaveValues == TypeOK => ValuesAreStored
<1> SUFFICES ASSUME TypeOK PROVE {j \in Keys : Store[j] # NoValue} = StoredKeys(Data)
  BY DEF ValuesAreStored
<1>1. Data \in Seq(Records)
  BY ConcatProperties DEF TypeOK, Data
<1>2. StoredKeys(Data) \in SUBSET Keys
  BY <1>1, StoredKeysType
<1>3. ASSUME NEW j \in StoredKeys(Data) PROVE ValueIn(Data, j) # NoValue
  <2>1. LastPosition(Data, j) \in 1 .. Len(Data)
    BY <1>1, <1>3, LastPositionProperties
  <2>2. Data[LastPosition(Data, j)] \in Records
    BY <1>1, <2>1, ElementOfSeq
  <2>3. Data[LastPosition(Data, j)].value \in Values
    BY <2>2 DEF Records
  <2> QED
    BY <1>3, <2>3, NoValueAssumption DEF ValueIn
<1>4. ASSUME NEW j \in Keys, j \notin StoredKeys(Data) PROVE ValueIn(Data, j) = NoValue
  BY <1>4 DEF ValueIn
<1> QED
  BY <1>2, <1>3, <1>4 DEF Store

StoredAreFound == Found = StoredKeys(Data)

LEMMA ExactFinds == TypeOK /\ IndexIsExact => StoredAreFound
<1> SUFFICES ASSUME TypeOK, IndexIsExact PROVE Found = StoredKeys(Data)
  BY DEF StoredAreFound
<1>1. Data \in Seq(Records)
  BY ConcatProperties DEF TypeOK, Data
<1>2. KeysOf(ExportKeys(Data)) = StoredKeys(Data)
  BY <1>1, ExportKeysType
<1>3. Found = KeysOf(ExportKeys(Data))
  BY DEF Found, IndexIsExact, KeysOf
<1> QED
  BY <1>2, <1>3

LEMMA StoredHaveValuesNext == TypeOK' => ValuesAreStored'
BY StoredHaveValues, PTL

LEMMA ExactFindsNext == TypeOK' /\ IndexIsExact' => StoredAreFound'
BY ExactFinds, PTL

(* What add does to the data, when it returns and when it throws. *)
StoresWith(k, v, n) ==
    /\ \A j \in Keys : ValueIn(Data, j)' = IF j = k THEN v ELSE ValueIn(Data, j)
    /\ StoredKeys(Data)' = StoredKeys(Data) \cup {k}
    /\ ItemsCount' = n

LEMMA StoresByAppend ==
    ASSUME TypeOK, NEW k \in Keys, NEW v \in Values,
           sorted' = sorted, notSorted' = Appended(k, v)
    PROVE  StoresWith(k, v, ItemsCount + 1)
<1> DEFINE r == [key |-> k, value |-> v]
           longer == Append(Data, r)
<1>1. /\ r \in Records /\ r.key = k /\ r.value = v
      /\ Data \in Seq(Records)
      /\ Len(Data) = ItemsCount /\ ItemsCount \in Nat
      /\ sorted \o Appended(k, v) = longer
  BY AddData
<1>2. Data' = longer
  BY <1>1 DEF Data
<1> HIDE DEF r
<1>3. /\ \A j \in Keys : ValueIn(longer, j) = IF j = k THEN v ELSE ValueIn(Data, j)
      /\ StoredKeys(longer) = StoredKeys(Data) \cup {k}
  BY <1>1, ValueAppended, AppendRecord
<1>4. ItemsCount' = ItemsCount + 1
  <2>1. notSorted \in Seq(Records) /\ sorted \in Seq(Records)
    BY DEF TypeOK
  <2>2. Len(notSorted') = Len(notSorted) + 1
    BY <1>1, <2>1, AppendProperties DEF Appended, r
  <2>3. Len(notSorted) \in Nat /\ Len(sorted) \in Nat
    BY <2>1, LenProperties
  <2> QED
    BY <2>2, <2>3 DEF ItemsCount
<1> HIDE DEF longer
<1>5. /\ \A j \in Keys : ValueIn(Data, j)' = ValueIn(longer, j)
      /\ StoredKeys(Data)' = StoredKeys(longer)
  BY <1>2 DEF ValueIn, StoredKeys, LastPosition
<1> QED
  BY <1>3, <1>4, <1>5 DEF StoresWith

LEMMA StoresByShrink ==
    ASSUME TypeOK, NEW k \in Keys, NEW v \in Values,
           sorted' = Shrunk(sorted \o Appended(k, v)), notSorted' = << >>
    PROVE  StoresWith(k, v, Cardinality(StoredKeys(Data) \cup {k}))
<1> DEFINE r == [key |-> k, value |-> v]
           longer == Append(Data, r)
           new == Shrunk(longer)
<1>1. /\ r \in Records /\ r.key = k /\ r.value = v
      /\ Data \in Seq(Records)
      /\ sorted \o Appended(k, v) = longer
  BY AddData
<1> HIDE DEF r
<1>2. /\ longer \in Seq(Records)
      /\ \A j \in Keys : ValueIn(longer, j) = IF j = k THEN v ELSE ValueIn(Data, j)
      /\ StoredKeys(longer) = StoredKeys(Data) \cup {k}
  BY <1>1, ValueAppended, AppendRecord, AppendProperties
<1> HIDE DEF longer
<1>3. /\ new \in Seq(Records)
      /\ Len(new) = Cardinality(StoredKeys(longer))
      /\ StoredKeys(new) = StoredKeys(longer)
      /\ \A j \in Keys : ValueIn(new, j) = ValueIn(longer, j)
  BY <1>2, ShrunkProperties
<1>4. sorted' = new
  BY <1>1
<1> HIDE DEF new
<1>5. Data' = new
  BY <1>3, <1>4, ConcatEmptySeq DEF Data
<1>6. ItemsCount' = Len(new)
  BY <1>3, <1>4, LenProperties, EmptySeq DEF ItemsCount
<1>7. /\ \A j \in Keys : ValueIn(Data, j)' = ValueIn(new, j)
      /\ StoredKeys(Data)' = StoredKeys(new)
  BY <1>5 DEF ValueIn, StoredKeys, LastPosition
<1> QED
  BY <1>2, <1>3, <1>6, <1>7 DEF StoresWith

LEMMA StoresByAdd ==
    ASSUME TypeOK, NEW k \in Keys, NEW v \in Values, Add(k, v)
    PROVE  IF AddAndShrink(k, v)
           THEN StoresWith(k, v, Cardinality(StoredKeys(Data) \cup {k}))
           ELSE StoresWith(k, v, ItemsCount + 1)
<1>1. CASE AddAndShrink(k, v)
  BY <1>1, StoresByShrink DEF AddAndShrink
<1>2. CASE ~ AddAndShrink(k, v)
  <2>1. sorted' = sorted /\ notSorted' = Appended(k, v)
    BY <1>2 DEF Add, AddToRam, AddAndDrop
  <2> QED
    BY <1>2, <2>1, StoresByAppend
<1> QED
  BY <1>1, <1>2

(* The index after a step holds the old keys and the one that was added. *)
FindsNoMore(k) == Found' \subseteq Found \cup {k}

LEMMA NoMoreAfterDrop ==
    ASSUME TypeOK, NEW k \in Keys, ram' = EmptyBlock,
           \A j \in Keys : Find(disk', j) =
               IF Indexed(k)[j] # NoIndex THEN Indexed(k)[j] ELSE Find(disk, j)
    PROVE  FindsNoMore(k)
<1> SUFFICES ASSUME NEW j \in Keys \ {k}, IndexOf(j)' # NoIndex PROVE IndexOf(j) # NoIndex
  BY DEF FindsNoMore, Found
<1>1. IndexOf(j)' = Find(disk', j)
  BY EmptyBlockProperties DEF IndexOf
<1>2. Indexed(k)[j] = ram[j]
  BY IndexedProperties
<1> QED
  BY <1>1, <1>2 DEF IndexOf

LEMMA NoMoreAfterAdd ==
    ASSUME TypeOK, NEW k \in Keys, NEW v \in Values, Add(k, v), ~ AddAndShrink(k, v)
    PROVE  FindsNoMore(k)
<1>1. CASE AddToRam(k, v)
  <2> SUFFICES ASSUME NEW j \in Keys \ {k}, IndexOf(j)' # NoIndex PROVE IndexOf(j) # NoIndex
    BY DEF FindsNoMore, Found
  <2>1. ram' = Indexed(k) /\ disk' = disk
    BY <1>1 DEF AddToRam
  <2>2. Indexed(k)[j] = ram[j]
    BY IndexedProperties
  <2> QED
    BY <2>1, <2>2 DEF IndexOf
<1>2. CASE AddAndDrop(k, v)
  <2>1. ram' = EmptyBlock /\ disk' = AppendBlock(disk, Indexed(k))
    BY <1>2 DEF AddAndDrop
  <2> QED
    BY <2>1, DroppedToOldList, NoMoreAfterDrop
<1> QED
  BY <1>1, <1>2 DEF Add

LEMMA RecordIsStored ==
    ASSUME NEW k \in Keys, NEW v \in Values, NEW n, StoresWith(k, v, n)
    PROVE  Shard!Stores(k, v)
<1>1. Store' = [Store EXCEPT ![k] = v]
  BY DEF StoresWith, Store
<1> QED
  BY <1>1 DEF Shard!Stores, Store, Data

LEMMA AppendsStored ==
    ASSUME NEW k \in Keys, NEW v \in Values, StoresWith(k, v, ItemsCount + 1)
    PROVE  Shard!Stores(k, v) /\ Shard!Appends
BY RecordIsStored DEF StoresWith, Shard!Appends

LEMMA ShrinksStored ==
    ASSUME TypeOK, NEW k \in Keys, NEW v \in Values,
           StoresWith(k, v, Cardinality(StoredKeys(Data) \cup {k}))
    PROVE  Shard!Stores(k, v) /\ Shard!Shrinks(k)
<1>1. Shard!StoredKeys = StoredKeys(Data)
  BY StoredHaveValues DEF ValuesAreStored, Shard!StoredKeys, Store, Data
<1>2. Shard!Cardinality(StoredKeys(Data) \cup {k}) = Cardinality(StoredKeys(Data) \cup {k})
  BY DEF Cardinality, Shard!Cardinality
<1>3. ItemsCount' = Cardinality(StoredKeys(Data) \cup {k})
  BY DEF StoresWith
<1>4. Shard!Shrinks(k)
  BY <1>1, <1>2, <1>3 DEF Shard!Shrinks
<1> QED
  BY <1>4, RecordIsStored

LEMMA FoundAfterAppend ==
    ASSUME FoundIsStored, NEW k \in Keys, NEW v \in Values, NEW n,
           StoresWith(k, v, n), FindsNoMore(k)
    PROVE  FoundIsStored'
BY DEF FoundIsStored, StoresWith, FindsNoMore

(* Calls that return: the shrink makes the index exact, whatever it was.    *)
LEMMA ShardReturns ==
    ASSUME TypeOK, TypeOK', FoundIsStored,
           NEW k \in Keys, NEW v \in Values, AddReturns(k, v)
    PROVE  Shard!Stores(k, v) /\ Shard!Returns(k) /\ FoundIsStored'
<1>1. Add(k, v)
  BY DEF AddReturns
<1>2. CASE AddAndShrink(k, v)
  <2>1. Shard!Stores(k, v) /\ Shard!Shrinks(k)
    BY <1>1, <1>2, StoresByAdd, ShrinksStored
  <2>2. ~ Broken'
    BY <1>2 DEF AddReturns, AddAndShrink, Broken
  <2>3. StoredAreFound'
    BY <1>2, ExactAfterShrink, ExactFindsNext
  <2> QED
    BY <2>1, <2>2, <2>3 DEF Shard!Returns, StoredAreFound, FoundIsStored
<1>3. CASE ~ AddAndShrink(k, v)
  <2>1. StoresWith(k, v, ItemsCount + 1)
    BY <1>1, <1>3, StoresByAdd
  <2>2. Shard!Stores(k, v) /\ Shard!Appends
    BY <2>1, AppendsStored
  <2>3. Broken' = Broken
    BY <1>3, StillThrown DEF Broken
  <2>4. FoundIsStored'
    BY <1>1, <1>3, <2>1, NoMoreAfterAdd, FoundAfterAppend
  <2> QED
    BY <2>2, <2>3, <2>4 DEF Shard!Returns
<1> QED
  BY <1>2, <1>3

(* Calls that throw with the record appended. *)
LEMMA ShardAppendThrows ==
    ASSUME TypeOK, FoundIsStored, NEW k \in Keys, NEW v \in Values,
           DropThrows(k, v) \/ CollapseThrows(k, v) \/ ShrinkThrows(k, v)
    PROVE  Shard!Stores(k, v) /\ Shard!Throws(k) /\ FoundIsStored'
<1>1. sorted' = sorted /\ notSorted' = Appended(k, v) /\ ram' = EmptyBlock
  BY DEF DropThrows, CollapseThrows, ShrinkThrows, Throws
<1>2. StoresWith(k, v, ItemsCount + 1)
  BY <1>1, StoresByAppend
<1>3. Shard!Stores(k, v) /\ Shard!Appends
  BY <1>2, AppendsStored
<1>4. Broken' = Broken \/ Broken' = TRUE
  <2>1. CASE DropThrows(k, v)
    BY <2>1 DEF DropThrows, Throws, Broken
  <2>2. CASE CollapseThrows(k, v)
    BY <2>2 DEF CollapseThrows, Throws, Broken
  <2>3. CASE ShrinkThrows(k, v)
    BY <2>3 DEF ShrinkThrows, Throws, Broken
  <2> QED
    BY <2>1, <2>2, <2>3
<1>5. FindsNoMore(k)
  <2>1. CASE DropThrows(k, v)
    <3>1. disk' = disk
      BY <2>1 DEF DropThrows
    <3> SUFFICES ASSUME NEW j \in Keys, IndexOf(j)' # NoIndex PROVE IndexOf(j) # NoIndex
      BY DEF FindsNoMore, Found
    <3> QED
      BY <1>1, <3>1, EmptyBlockProperties DEF IndexOf
  <2>2. CASE CollapseThrows(k, v)
    BY <1>1, <2>2, CutShort, NoMoreAfterDrop
  <2>3. CASE ShrinkThrows(k, v)
    <3>1. disk' = AppendBlock(disk, Indexed(k))
      BY <2>3 DEF ShrinkThrows
    <3> QED
      BY <1>1, <3>1, DroppedToOldList, NoMoreAfterDrop
  <2> QED
    BY <2>1, <2>2, <2>3
<1>6. FoundIsStored'
  BY <1>2, <1>5, FoundAfterAppend
<1> QED
  BY <1>3, <1>4, <1>6 DEF Shard!Throws

(* The call that throws when the data file has been replaced. *)
LEMMA ShardExportThrows ==
    ASSUME TypeOK, FoundIsStored, NEW k \in Keys, NEW v \in Values, ExportThrows(k, v)
    PROVE  Shard!Stores(k, v) /\ Shard!Throws(k) /\ FoundIsStored'
<1>1. StoresWith(k, v, Cardinality(StoredKeys(Data) \cup {k}))
  BY StoresByShrink DEF ExportThrows
<1>2. Shard!Stores(k, v) /\ Shard!Shrinks(k)
  BY <1>1, ShrinksStored
<1>3. Broken'
  BY DEF ExportThrows, Throws, Broken
<1>4. FindsNoMore(k)
  BY DroppedToOldList, NoMoreAfterDrop DEF ExportThrows, Throws
<1>5. FoundIsStored'
  BY <1>1, <1>4, FoundAfterAppend
<1> QED
  BY <1>2, <1>3, <1>5 DEF Shard!Throws

LEMMA LeadsNext ==
    ASSUME FaultInv', FoundIsStored'
    PROVE  Shard!Leads'
<1>1. ValuesAreStored'
  BY StoredHaveValuesNext DEF FaultInv
<1>2. Shard!StoredKeys' = StoredKeys(Data)'
  BY <1>1 DEF ValuesAreStored, Shard!StoredKeys, Store, Data
<1>3. CASE Broken'
  BY <1>2, <1>3 DEF Shard!Leads, FoundIsStored, Found
<1>4. CASE ~ Broken'
  <2>1. StoredAreFound'
    BY <1>4, ExactFindsNext DEF FaultInv, Broken
  <2> QED
    BY <1>2, <2>1 DEF Shard!Leads, StoredAreFound, Found
<1> QED
  BY <1>3, <1>4

ShardMoves == [Shard!Next]_Shard!vars

LEMMA ShardStep ==
    FaultInv /\ FaultInv' /\ FoundIsStored /\ [FaultNext]_faultVars
        => FoundIsStored' /\ ShardMoves
<1> SUFFICES ASSUME FaultInv, FaultInv', FoundIsStored, [FaultNext]_faultVars
             PROVE  FoundIsStored' /\ ShardMoves
  OBVIOUS
<1>1. TypeOK /\ TypeOK'
  BY DEF FaultInv
<1>2. ASSUME NEW k \in Keys, NEW v \in Values,
             \/ AddReturns(k, v)
             \/ DropThrows(k, v) \/ CollapseThrows(k, v) \/ ShrinkThrows(k, v)
             \/ ExportThrows(k, v)
      PROVE  FoundIsStored' /\ ShardMoves
  <2>1. Shard!Add(k, v) /\ FoundIsStored'
    BY <1>1, <1>2, ShardReturns, ShardAppendThrows, ShardExportThrows DEF Shard!Add
  <2>2. Shard!Leads'
    BY <2>1, LeadsNext
  <2>3. Shard!Next
    BY <2>1, <2>2 DEF Shard!Next
  <2> QED
    BY <2>1, <2>3 DEF ShardMoves
<1>3. CASE UNCHANGED faultVars
  <2>1. UNCHANGED vars /\ thrown' = thrown
    BY <1>3 DEF faultVars
  <2>2. UNCHANGED <<Store, Found, ItemsCount, StoredKeys(Data)>>
    BY <2>1 DEF vars, Data, Store, Found, IndexOf, ItemsCount, ValueIn, StoredKeys, LastPosition, Find, Holders
  <2>3. FoundIsStored'
    BY <2>2 DEF FoundIsStored
  <2>4. Broken' = Broken
    BY <2>1 DEF Broken
  <2>5. UNCHANGED Shard!vars
    BY <2>2, <2>4 DEF Shard!vars, Store, Found, Data
  <2> QED
    BY <2>3, <2>5 DEF ShardMoves
<1> QED
  BY <1>2, <1>3 DEF FaultNext

LEMMA ShardInitially == FaultInit => Shard!Init /\ FoundIsStored
<1> SUFFICES ASSUME FaultInit PROVE Shard!Init /\ FoundIsStored
  OBVIOUS
<1>1. TypeOK /\ IndexIsExact /\ thrown = {} /\ sorted = << >> /\ notSorted = << >>
  BY TypeOKInit, IndexIsExactInit DEF FaultInit, Init
<1>2. Data = << >>
  BY <1>1, ConcatEmptySeq DEF Data
<1>3. StoredKeys(Data) = {}
  BY <1>2 DEF StoredKeys
<1>4. Found = {}
  BY <1>1, <1>3, ExactFinds DEF StoredAreFound
<1>5. \A j \in Keys : ValueIn(Data, j) = NoValue
  BY <1>3 DEF ValueIn
<1>6. ItemsCount = 0 /\ ~ Broken
  BY <1>1 DEF ItemsCount, Broken
<1> QED
  BY <1>4, <1>5, <1>6 DEF Shard!Init, FoundIsStored, Found, Data

(* Whatever throws, and however often: the data keeps the last record of    *)
(* every key, only the key that is added gets a new value there, no key is  *)
(* found that has no record, and a shrink that returns makes the index lead *)
(* to all of them again.  The stack of wrappers builds on this promise.     *)
THEOREM PromiseOfShard == FaultSpec => ImplementsShard
<1>1. FaultSpec => [](FaultInv /\ FoundIsStored)
  BY FaultAlways, FaultInitially, ShardInitially, ShardStep, FaultStep, PTL DEF FaultSpec
<1>2. FaultSpec => [][Shard!Next]_Shard!vars
  BY <1>1, ShardStep, PTL DEF FaultSpec, ShardMoves
<1> QED
  BY <1>2, ShardInitially, PTL DEF FaultSpec, ImplementsShard, Shard!Spec

=============================================================================
