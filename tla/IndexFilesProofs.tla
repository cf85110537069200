-------------------------- MODULE IndexFilesProofs --------------------------
(***************************************************************************)
(* Theorems about IndexFiles for every finite set of keys, any names, hash *)
(* functions and batch size: the files of the index, their counts and      *)
(* their filters stay together, and no file is lost or left over.          *)
(***************************************************************************)
EXTENDS IndexFiles, SequenceTheorems, FiniteSetTheorems, TLAPS

-----------------------------------------------------------------------------
(* Names, folders and filters. *)

LEMMA NamesDiffer ==
    /\ CollapseName # SwapName
    /\ CollapseName \notin DataFiles /\ SwapName \notin DataFiles
    /\ \A p \in Names : p # CollapseName /\ p # SwapName /\ p \notin DataFiles
    /\ DataFiles \ {"storage-not-sorted"} = {"storage-sorted"}
    /\ "storage-not-sorted" \in DataFiles
<1>1. /\ CollapseName # SwapName
      /\ CollapseName \notin DataFiles /\ SwapName \notin DataFiles
      /\ DataFiles \ {"storage-not-sorted"} = {"storage-sorted"}
      /\ "storage-not-sorted" \in DataFiles
  BY DEF CollapseName, SwapName, DataFiles
<1>2. \A p \in Names : p # CollapseName /\ p # SwapName /\ p \notin DataFiles
  BY NamesAssumption
<1> QED
  BY <1>1, <1>2

(* What a RAM manager has that agrees with a disk manager. *)
Image(disk) == {RamFile(p, disk[p]) : p \in DOMAIN disk}

LEMMA ImageWithFile ==
    ASSUME NEW path, NEW S, ram = Image(files)
    PROVE  RamWritten(path, S) = Image(WithFile(files, path, S))
<1> DEFINE disk == WithFile(files, path, S)
<1>1. /\ DOMAIN disk = DOMAIN files \cup {path}
      /\ disk[path] = S
      /\ \A q \in DOMAIN files : q # path => disk[q] = files[q]
  BY DEF WithFile
<1> HIDE DEF disk
<1>2. {f \in ram : f.name # path} = {RamFile(p, disk[p]) : p \in DOMAIN files \ {path}}
  BY <1>1 DEF Image, RamFile
<1>3. Image(disk) = {RamFile(p, disk[p]) : p \in DOMAIN files \ {path}} \cup {RamFile(path, S)}
  BY <1>1 DEF Image
<1> QED
  BY <1>2, <1>3 DEF RamWritten, disk

LEMMA ImageWithout ==
    ASSUME NEW path, ram = Image(files)
    PROVE  RamRemoved(path) = Image(Restrict(files, DOMAIN files \ {path}))
BY DEF RamRemoved, Image, RamFile, Restrict

(* A filter to which everything is added at once denies nothing of it. *)
LEMMA FilterOf ==
    ASSUME NEW seed, NEW n, NEW S
    PROVE  /\ AddAll(Reserve(NewFilter(seed), n), S).size = n * SizeMultiplier
           /\ \A k \in S : MightContain(AddAll(Reserve(NewFilter(seed), n), S), k)
<1> DEFINE f == Reserve(NewFilter(seed), n)
           g == AddAll(f, S)
           size == n * SizeMultiplier
           added == UNION {Positions(f, k) : k \in S}
<1>1. f = [seed |-> seed, size |-> size, bits |-> {}]
  BY DEF Reserve, NewFilter
<1>2. g = [seed |-> seed, size |-> size, bits |-> added]
  <2>1. g = [f EXCEPT !.bits = f.bits \cup added]
    BY DEF AddAll
  <2> HIDE DEF f, g, added, size
  <2> QED
    BY <1>1, <2>1
<1>3. \A k \in S : Positions(g, k) = Positions(f, k)
  <2> HIDE DEF f, g, added, size
  <2> QED
    BY <1>1, <1>2 DEF Positions
<1>4. \A k \in S : Positions(f, k) \subseteq added
  OBVIOUS
<1> HIDE DEF f, added, size
<1>5. g.size = size /\ g.bits = added
  <2> HIDE DEF g
  <2> QED
    BY <1>2
<1> HIDE DEF g
<1>6. \A k \in S : MightContain(g, k)
  BY <1>3, <1>4, <1>5 DEF MightContain
<1> QED
  BY <1>5, <1>6 DEF f, g, size

LEMMA WrittenProperties ==
    ASSUME NEW path, NEW S \in SUBSET Keys, NEW n, NEW seed
    PROVE  /\ Cardinality(S) \in Nat
           /\ Written(path, S, n, seed) =
                  Storage(path, Cardinality(S), AddAll(Reserve(NewFilter(seed), n), S))
<1> DEFINE f == Reserve(NewFilter(seed), n)
           c == Cardinality(S)
<1>1. c \in Nat
  BY KeysAssumption, FS_Subset, FS_CardinalityType
<1> DEFINE empty == Reserved(path, n, seed)
<1>2. empty = [path |-> path, count |-> 0, filter |-> f]
  BY DEF Reserved, Storage
<1>3. Written(path, S, n, seed) =
          Storage(empty.path, empty.count + c, AddAll(empty.filter, S))
  BY DEF Written, Registered
<1> HIDE DEF f, c, empty
<1>4. empty.path = path /\ empty.count + c = c /\ empty.filter = f
  BY <1>1, <1>2
<1> QED
  BY <1>1, <1>3, <1>4 DEF f, c

-----------------------------------------------------------------------------
(* The invariant. *)

Places ==
    {"idle", "writing", "loop", "merging", "unwinding", "merged", "moved", "renamed1",
     "renamed2", "swapped", "unlinked", "destroyList", "destroySorted", "destroyFolder",
     "destroyed", "terminated"}

(* The filters that Written makes, and the storages of the list. *)
Filters ==
    {AddAll(Reserve(NewFilter(seed), n), S) : seed \in Seeds, n \in Nat \ {0}, S \in SUBSET Keys}

Storages == [path : Names, count : Nat, filter : Filters]

Paths == {list[i].path : i \in DOMAIN list}

PathsDiffer == \A i, j \in DOMAIN list : list[i].path = list[j].path => i = j

TypeInv ==
    /\ list \in Seq(Storages)
    /\ PathsDiffer
    /\ pc \in Places
    /\ failures \in Nat

(* What a storage has in memory was made when the keys S were written, and  *)
(* room was reserved for as many.                                           *)
Describes(storage, S) ==
    /\ S \in (SUBSET Keys) \ {{}}
    /\ \E seed \in Seeds, n \in Nat :
          /\ Cardinality(S) <= n
          /\ storage = Written(storage.path, S, n, seed)

DescribedFrom(others) ==
    \A i \in DOMAIN list \ others : Describes(list[i], files[list[i].path])

(* The folder at each place: which names exist, and where the entries are.  *)
BetweenTurns ==
    /\ DOMAIN files = DataFiles \cup Paths
    /\ DescribedFrom({})

(* The constructor of a storage has created its file. *)
UnderConstruction ==
    /\ newStorage.path \in Names \cup {CollapseName}
    /\ newStorage.path \notin DataFiles \cup Paths
    /\ DOMAIN files = DataFiles \cup Paths \cup {newStorage.path}
    /\ files[newStorage.path] = {}
    /\ DescribedFrom({})

AfterMerge ==
    /\ Len(list) > 1
    /\ DOMAIN files = DataFiles \cup Paths \cup {CollapseName}
    /\ DescribedFrom({})
    /\ files[CollapseName] = files[list[1].path] \cup files[list[2].path]
    /\ Describes(newStorage, files[CollapseName])

AfterMove ==
    /\ Len(list) > 1
    /\ DOMAIN files = DataFiles \cup Paths \cup {CollapseName}
    /\ DescribedFrom({2})
    /\ files[CollapseName] = files[list[1].path] \cup files[list[2].path]
    /\ Describes(list[2], files[CollapseName])

AfterFirstRename ==
    /\ Len(list) > 1
    /\ DOMAIN files = DataFiles \cup Paths \cup {SwapName}
    /\ DescribedFrom({2})
    /\ files[SwapName] = files[list[1].path] \cup files[list[2].path]
    /\ Describes(list[2], files[SwapName])

AfterSecondRename ==
    /\ Len(list) > 1
    /\ DOMAIN files = DataFiles \cup (Paths \ {list[2].path}) \cup {CollapseName, SwapName}
    /\ DescribedFrom({2})
    /\ files[SwapName] = files[list[1].path] \cup files[CollapseName]
    /\ Describes(list[2], files[SwapName])

AfterSwap ==
    /\ Len(list) > 1
    /\ DOMAIN files = DataFiles \cup Paths \cup {CollapseName}
    /\ DescribedFrom({})
    /\ files[list[2].path] = files[list[1].path] \cup files[CollapseName]

AfterUnlink ==
    /\ Len(list) > 0
    /\ DOMAIN files = DataFiles \cup Paths \cup {CollapseName}
    /\ DescribedFrom({})
    /\ files[CollapseName] \subseteq files[list[1].path]

DiskInv ==
    /\ pc \in {"idle", "loop"} => BetweenTurns
    /\ pc \in {"writing", "merging", "unwinding"} => UnderConstruction
    /\ pc = "writing" => newStorage.path \in Names
    /\ pc = "merging" => newStorage.path = CollapseName /\ Len(list) > 1
    /\ pc = "merged" => AfterMerge
    /\ pc = "moved" => AfterMove
    /\ pc = "renamed1" => AfterFirstRename
    /\ pc = "renamed2" => AfterSecondRename
    /\ pc = "swapped" => AfterSwap
    /\ pc = "unlinked" => AfterUnlink
    /\ pc = "destroyList" => DOMAIN files = DataFiles \cup Paths
    /\ pc = "destroySorted" => list = << >> /\ DOMAIN files = {"storage-sorted"}
    /\ pc = "destroyFolder" => DOMAIN files = {}

(* While the disk is amid its renames, RAM has what they will amount to.    *)
RamInv ==
    /\ ManagersAgree
    /\ pc = "renamed1" =>
          ram = {RamFile(p, files[p]) : p \in DOMAIN files \ {SwapName, list[2].path}}
                \cup {RamFile(CollapseName, files[list[2].path]),
                      RamFile(list[2].path, files[SwapName])}
    /\ pc = "renamed2" =>
          ram = {RamFile(p, files[p]) : p \in DOMAIN files \ {SwapName}}
                \cup {RamFile(list[2].path, files[SwapName])}

Inv == TypeInv /\ FilterIsSized /\ DiskInv /\ RamInv

-----------------------------------------------------------------------------
(* What a description is worth. *)

LEMMA DescribesProperties ==
    ASSUME NEW storage, NEW S, Describes(storage, S)
    PROVE  /\ S \in SUBSET Keys /\ S # {}
           /\ storage.count = Cardinality(S)
           /\ storage.count \in Nat \ {0}
           /\ storage.count * SizeMultiplier <= storage.filter.size
           /\ \A k \in S : MightContain(storage.filter, k)
<1>1. PICK seed \in Seeds, n \in Nat :
          Cardinality(S) <= n /\ storage = Written(storage.path, S, n, seed)
  BY DEF Describes
<1>2. S \in SUBSET Keys /\ S # {}
  BY DEF Describes
<1> DEFINE filter == AddAll(Reserve(NewFilter(seed), n), S)
           c == Cardinality(S)
<1>3. storage = Storage(storage.path, c, filter)
  BY <1>1, <1>2, WrittenProperties
<1>4. filter.size = n * SizeMultiplier /\ \A k \in S : MightContain(filter, k)
  BY FilterOf
<1>5. c \in Nat \ {0} /\ c <= n
  BY <1>1, <1>2, KeysAssumption, FS_Subset, FS_CardinalityType, FS_EmptySet
<1> HIDE DEF filter, c
<1>6. storage.count = c /\ storage.filter = filter
  BY <1>3 DEF Storage
<1>7. c * SizeMultiplier <= n * SizeMultiplier
  BY <1>5, SizeMultiplierAssumption, Z3
<1> QED
  BY <1>2, <1>4, <1>5, <1>6, <1>7 DEF c

(* It holds of a storage just written, and moves with its count and filter. *)
LEMMA WrittenIsDescribed ==
    ASSUME NEW path, NEW S \in (SUBSET Keys) \ {{}}, NEW seed \in Seeds,
           NEW n \in Nat, Cardinality(S) <= n
    PROVE  /\ Describes(Written(path, S, n, seed), S)
           /\ Written(path, S, n, seed).path = path
<1> DEFINE s == Written(path, S, n, seed)
<1>1. s.path = path
  BY WrittenProperties DEF Storage
<1>2. s = Written(s.path, S, n, seed)
  BY <1>1
<1> HIDE DEF s
<1>3. Describes(s, S)
  BY <1>2 DEF Describes
<1> QED
  BY <1>1, <1>3 DEF s

LEMMA DescriptionMoves ==
    ASSUME NEW storage, NEW S, Describes(storage, S), NEW path
    PROVE  /\ Describes(Storage(path, storage.count, storage.filter), S)
           /\ Storage(path, storage.count, storage.filter).path = path
<1>1. PICK seed \in Seeds, n \in Nat :
          Cardinality(S) <= n /\ storage = Written(storage.path, S, n, seed)
  BY DEF Describes
<1>2. S \in (SUBSET Keys) \ {{}}
  BY DEF Describes
<1>3. Written(path, S, n, seed) = Storage(path, storage.count, storage.filter)
  <2> DEFINE filter == AddAll(Reserve(NewFilter(seed), n), S)
             c == Cardinality(S)
  <2>1. storage = Storage(storage.path, c, filter) /\ Written(path, S, n, seed) = Storage(path, c, filter)
    BY <1>1, <1>2, WrittenProperties
  <2> HIDE DEF filter, c
  <2>2. storage.count = c /\ storage.filter = filter
    BY <2>1 DEF Storage
  <2> QED
    BY <2>1, <2>2
<1>4. /\ Describes(Written(path, S, n, seed), S)
      /\ Written(path, S, n, seed).path = path
  BY <1>1, <1>2, WrittenIsDescribed
<1> QED
  BY <1>3, <1>4

LEMMA DescribedType ==
    ASSUME NEW storage, NEW S, Describes(storage, S), storage.path \in Names
    PROVE  storage \in Storages
<1>1. PICK seed \in Seeds, n \in Nat :
          Cardinality(S) <= n /\ storage = Written(storage.path, S, n, seed)
  BY DEF Describes
<1>2. S \in SUBSET Keys /\ S # {}
  BY DEF Describes
<1> DEFINE filter == AddAll(Reserve(NewFilter(seed), n), S)
           c == Cardinality(S)
<1>3. storage = Storage(storage.path, c, filter)
  BY <1>1, <1>2, WrittenProperties
<1>4. c \in Nat \ {0} /\ c <= n
  BY <1>1, <1>2, KeysAssumption, FS_Subset, FS_CardinalityType, FS_EmptySet
<1>5. n \in Nat \ {0}
  BY <1>4
<1>6. filter \in Filters
  BY <1>2, <1>5 DEF Filters
<1> HIDE DEF filter, c
<1> QED
  BY <1>3, <1>4, <1>6 DEF Storage, Storages

-----------------------------------------------------------------------------
(* Steps that leave the list alone, and the names in it. *)

LEMMA ListIsTyped ==
    ASSUME TypeInv
    PROVE  /\ Len(list) \in Nat
           /\ DOMAIN list = 1 .. Len(list)
           /\ \A i \in 1 .. Len(list) : list[i] \in Storages /\ list[i].path \in Names
           /\ Paths \subseteq Names
           /\ \A i \in 1 .. Len(list) : list[i].path \in Paths
<1>1. Len(list) \in Nat /\ DOMAIN list = 1 .. Len(list)
  BY LenProperties DEF TypeInv
<1>2. \A i \in 1 .. Len(list) : list[i] \in Storages
  BY ElementOfSeq DEF TypeInv
<1>3. \A i \in 1 .. Len(list) : list[i].path \in Names
  BY <1>2 DEF Storages
<1> QED
  BY <1>1, <1>2, <1>3 DEF Paths

LEMMA SameList ==
    ASSUME TypeInv, FilterIsSized, UNCHANGED list, pc' \in Places, failures' \in Nat
    PROVE  TypeInv' /\ FilterIsSized' /\ Paths' = Paths
BY DEF TypeInv, PathsDiffer, FilterIsSized, Paths

(* Blocks whose files a step leaves alone are still described. *)
LEMMA StillDescribed ==
    ASSUME TypeInv, NEW others, DescribedFrom(others), UNCHANGED list,
           \A i \in DOMAIN list \ others : files'[list[i].path] = files[list[i].path]
    PROVE  DescribedFrom(others)'
BY DEF DescribedFrom

LEMMA InitStep == Init => Inv
<1> SUFFICES ASSUME Init PROVE Inv
  OBVIOUS
<1>1. TypeInv
  BY DEF Init, TypeInv, PathsDiffer, Places
<1>2. FilterIsSized
  BY DEF Init, FilterIsSized
<1>3. DiskInv
  BY DEF Init, DiskInv, BetweenTurns, DescribedFrom, Paths
<1>4. RamInv
  BY DEF Init, RamInv, ManagersAgree
<1> QED
  BY <1>1, <1>2, <1>3, <1>4 DEF Inv

-----------------------------------------------------------------------------
(* The steps. *)

(* No entry is lost from disk in a step. *)
EntriesKept ==
    UNION {files[p] : p \in DOMAIN files} \subseteq UNION {files'[p] : p \in DOMAIN files'}

(* A block put before a list: AppendBatch, and ReplaceList on no list.      *)
LEMMA PushedList ==
    ASSUME NEW l \in Seq(Storages), NEW new \in Storages, list' = <<new>> \o l,
           \A i, j \in DOMAIN l : l[i].path = l[j].path => i = j,
           \A i \in DOMAIN l : l[i].path # new.path,
           \A i \in DOMAIN l : l[i].count * SizeMultiplier <= l[i].filter.size,
           new.count * SizeMultiplier <= new.filter.size
    PROVE  /\ list' \in Seq(Storages)
           /\ PathsDiffer'
           /\ FilterIsSized'
           /\ Paths' = {new.path} \cup {l[i].path : i \in DOMAIN l}
           /\ \A i \in DOMAIN list' :
                 list'[i] = new \/ \E j \in DOMAIN l : list'[i] = l[j]
<1> DEFINE head == <<new>>
<1>1. head \in Seq(Storages) /\ Len(head) = 1 /\ head[1] = new
  OBVIOUS
<1>2. Len(l) \in Nat /\ DOMAIN l = 1 .. Len(l)
  BY LenProperties
<1>3. list' = head \o l
  OBVIOUS
<1> HIDE DEF head
<1>4. /\ list' \in Seq(Storages)
      /\ Len(list') = 1 + Len(l)
      /\ \A i \in 1 .. 1 + Len(l) : list'[i] = IF i <= 1 THEN head[i] ELSE l[i - 1]
  <2> DEFINE both == head \o l
  <2>1. /\ both \in Seq(Storages)
        /\ Len(both) = Len(head) + Len(l)
        /\ \A i \in 1 .. Len(head) + Len(l) : both[i] = IF i <= Len(head) THEN head[i] ELSE l[i - Len(head)]
    BY <1>1, ConcatProperties
  <2> HIDE DEF both
  <2>2. list' = both
    BY <1>3 DEF both
  <2> QED
    BY <1>1, <2>1, <2>2
<1>5. DOMAIN list' = 1 .. 1 + Len(l)
  BY <1>4, LenProperties
<1>6. list'[1] = new /\ 1 \in DOMAIN list'
  BY <1>1, <1>2, <1>4, <1>5
<1>7. \A i \in DOMAIN list' : i # 1 => i - 1 \in DOMAIN l /\ list'[i] = l[i - 1]
  BY <1>2, <1>4, <1>5
<1>8. \A j \in DOMAIN l : j + 1 \in DOMAIN list' /\ list'[j + 1] = l[j]
  BY <1>2, <1>4, <1>5
<1>9. PathsDiffer'
  <2> SUFFICES ASSUME NEW i \in DOMAIN list', NEW j \in DOMAIN list', list'[i].path = list'[j].path
               PROVE  i = j
    BY DEF PathsDiffer
  <2>1. CASE i = 1 \/ j = 1
    BY <1>6, <1>7, <2>1
  <2>2. CASE i # 1 /\ j # 1
    <3>1. i - 1 = j - 1
      BY <1>7, <2>2
    <3> QED
      BY <1>5, <3>1
  <2> QED
    BY <2>1, <2>2
<1>10. FilterIsSized'
  BY <1>6, <1>7 DEF FilterIsSized
<1>11. Paths' = {new.path} \cup {l[i].path : i \in DOMAIN l}
  <2> DEFINE names == {l[i].path : i \in DOMAIN l}
  <2>1. Paths' = {list'[i].path : i \in DOMAIN list'}
    BY DEF Paths
  <2>2. ASSUME NEW p \in Paths' PROVE p \in {new.path} \cup names
    <3>1. PICK i \in DOMAIN list' : p = list'[i].path
      BY <2>1
    <3> QED
      BY <1>6, <1>7, <3>1
  <2>3. new.path \in Paths'
    BY <1>6, <2>1
  <2>4. ASSUME NEW p \in names PROVE p \in Paths'
    <3>1. PICK j \in DOMAIN l : p = l[j].path
      OBVIOUS
    <3>2. j + 1 \in DOMAIN list' /\ p = list'[j + 1].path
      BY <1>8, <3>1
    <3> QED
      BY <2>1, <3>2
  <2> HIDE DEF names
  <2> QED
    BY <2>2, <2>3, <2>4 DEF names
<1> QED
  BY <1>4, <1>6, <1>7, <1>9, <1>10, <1>11

(* A constructor's file is new: what was described before still is. *)
LEMMA CreatedFile ==
    ASSUME Inv, BetweenTurns, ram = Image(files), NEW path, path \notin DOMAIN files,
           path \in Names \cup {CollapseName}, WriteFile(path, {}), newStorage'.path = path,
           UNCHANGED <<list, failures>>, pc' \in {"writing", "merging"},
           pc' = "writing" => path \in Names,
           pc' = "merging" => path = CollapseName /\ Len(list) > 1
    PROVE  Inv' /\ EntriesKept /\ pc' # "terminated"
<1>1. /\ TypeInv /\ FilterIsSized
      /\ files' = WithFile(files, path, {}) /\ ram' = RamWritten(path, {})
      /\ list' = list /\ failures' = failures
  BY DEF Inv, WriteFile
<1>2. /\ DOMAIN files = DataFiles \cup Paths
      /\ DescribedFrom({})
      /\ \A i \in DOMAIN list : list[i].path \in DOMAIN files
  BY DEF BetweenTurns, Paths
<1>3. /\ DOMAIN files' = DOMAIN files \cup {path}
      /\ files'[path] = {}
      /\ \A q \in DOMAIN files : files'[q] = files[q]
  BY <1>1 DEF WithFile
<1>4. TypeInv' /\ FilterIsSized' /\ Paths' = Paths
  BY <1>1, SameList DEF Places, TypeInv
<1>5. UnderConstruction'
  <2>1. DescribedFrom({})'
    BY <1>1, <1>2, <1>3, StillDescribed
  <2>2. /\ DOMAIN files' = DataFiles \cup Paths' \cup {newStorage'.path}
        /\ newStorage'.path \notin DataFiles \cup Paths'
    BY <1>2, <1>3, <1>4
  <2> QED
    BY <1>3, <2>1, <2>2 DEF UnderConstruction
<1>6. ram' = Image(files')
  BY <1>1, ImageWithFile
<1>7. DiskInv' /\ RamInv'
  BY <1>1, <1>5, <1>6 DEF DiskInv, RamInv, ManagersAgree, Image
<1> QED
  BY <1>3, <1>4, <1>7 DEF Inv, EntriesKept

LEMMA BeginBlockStep ==
    ASSUME Inv, NEW path \in FreshNames, BeginBlock(path)
    PROVE  Inv' /\ EntriesKept /\ pc' # "terminated"
<1>1. BetweenTurns /\ ram = Image(files)
  BY DEF Inv, DiskInv, RamInv, ManagersAgree, Image, BeginBlock
<1>2. /\ WriteFile(path, {}) /\ newStorage'.path = path
      /\ UNCHANGED <<list, failures>> /\ pc' = "writing"
  BY DEF BeginBlock, NoStorage
<1>3. path \in Names /\ path \notin DOMAIN files
  BY DEF FreshNames
<1> QED
  BY <1>1, <1>2, <1>3, CreatedFile

LEMMA BeginMergeStep ==
    ASSUME Inv, BeginMerge
    PROVE  Inv' /\ EntriesKept /\ pc' # "terminated"
<1>1. BetweenTurns /\ ram = Image(files) /\ TypeInv
  BY DEF Inv, DiskInv, RamInv, ManagersAgree, Image, BeginMerge
<1>2. /\ WriteFile(CollapseName, {}) /\ newStorage'.path = CollapseName
      /\ UNCHANGED <<list, failures>> /\ pc' = "merging"
  BY DEF BeginMerge, NoStorage
<1>3. Len(list) > 1
  BY DEF BeginMerge, LoopEnds
<1>4. CollapseName \notin DOMAIN files
  BY <1>1, ListIsTyped, NamesDiffer DEF BetweenTurns
<1> QED
  BY <1>1, <1>2, <1>3, <1>4, CreatedFile

LEMMA AppendBatchStep ==
    ASSUME Inv, NEW S \in (SUBSET Keys) \ {{}}, NEW seed \in Seeds, AppendBatch(S, seed)
    PROVE  Inv' /\ EntriesKept /\ pc' # "terminated"
<1> DEFINE path == newStorage.path
           new == Written(path, S, Cardinality(S) + 1, seed)
<1>1. /\ TypeInv /\ FilterIsSized /\ UnderConstruction /\ path \in Names
      /\ ram = Image(files)
  BY DEF Inv, DiskInv, RamInv, ManagersAgree, Image, AppendBatch
<1>2. /\ list' = <<new>> \o list
      /\ files' = WithFile(files, path, S)
      /\ ram' = RamWritten(path, S)
      /\ pc' = "loop" /\ UNCHANGED failures
  BY DEF AppendBatch, WriteFile
<1>3. /\ path \in Names /\ path \notin DataFiles \cup Paths
      /\ DOMAIN files = DataFiles \cup Paths \cup {path}
      /\ files[path] = {}
  BY <1>1 DEF UnderConstruction
<1>4. Describes(new, S) /\ new.path = path
  <2>1. Cardinality(S) \in Nat
    BY KeysAssumption, FS_Subset, FS_CardinalityType
  <2>2. Cardinality(S) + 1 \in Nat /\ Cardinality(S) <= Cardinality(S) + 1
    BY <2>1
  <2> QED
    BY <2>2, WrittenIsDescribed
<1> HIDE DEF new, path
<1>5. new \in Storages /\ new.count * SizeMultiplier <= new.filter.size
  BY <1>3, <1>4, DescribedType, DescribesProperties
<1>6. /\ DOMAIN files' = DOMAIN files
      /\ files'[path] = S
      /\ \A q \in DOMAIN files : q # path => files'[q] = files[q]
  BY <1>2, <1>3 DEF WithFile
<1>7. \A i \in DOMAIN list : /\ list[i].path \in DOMAIN files
                            /\ list[i].path # path
                            /\ Describes(list[i], files[list[i].path])
  BY <1>1, <1>3 DEF UnderConstruction, DescribedFrom, Paths
<1>8. /\ list' \in Seq(Storages)
      /\ PathsDiffer'
      /\ FilterIsSized'
      /\ Paths' = {path} \cup Paths
      /\ \A i \in DOMAIN list' : list'[i] = new \/ \E j \in DOMAIN list : list'[i] = list[j]
  <2>1. /\ list \in Seq(Storages)
        /\ \A i, j \in DOMAIN list : list[i].path = list[j].path => i = j
        /\ \A i \in DOMAIN list : list[i].count * SizeMultiplier <= list[i].filter.size
    BY <1>1 DEF TypeInv, PathsDiffer, FilterIsSized
  <2>2. \A i \in DOMAIN list : list[i].path # new.path
    BY <1>3, <1>4, <1>7
  <2> QED
    BY <1>2, <1>4, <1>5, <2>1, <2>2, PushedList DEF Paths
<1>9. TypeInv'
  BY <1>1, <1>2, <1>8 DEF TypeInv, Places
<1>10. BetweenTurns'
  <2>1. DOMAIN files' = DataFiles \cup Paths'
    BY <1>3, <1>6, <1>8
  <2>2. ASSUME NEW i \in DOMAIN list' PROVE Describes(list'[i], files'[list'[i].path])
    BY <1>4, <1>6, <1>7, <1>8
  <2> QED
    BY <2>1, <2>2 DEF BetweenTurns, DescribedFrom
<1>11. ram' = Image(files')
  BY <1>1, <1>2, ImageWithFile
<1>12. DiskInv' /\ RamInv'
  BY <1>2, <1>10, <1>11 DEF DiskInv, RamInv, ManagersAgree, Image
<1>13. EntriesKept
  BY <1>3, <1>6 DEF EntriesKept
<1> QED
  BY <1>2, <1>8, <1>9, <1>12, <1>13 DEF Inv

LEMMA ReplaceListStep ==
    ASSUME Inv, NEW S \in (SUBSET Keys) \ {{}}, NEW seed \in Seeds, ReplaceList(S, seed)
    PROVE  Inv' /\ EntriesKept /\ pc' # "terminated"
<1> DEFINE path == newStorage.path
           new == Written(path, S, Cardinality(S), seed)
           rest == Restrict(files, DataFiles)
<1>1. /\ TypeInv /\ FilterIsSized /\ UnderConstruction /\ path \in Names
      /\ ram = Image(files)
  BY DEF Inv, DiskInv, RamInv, ManagersAgree, Image, ReplaceList
<1>2. /\ list' = <<new>> \o << >>
      /\ files' = WithFile(rest, path, S)
      /\ ram' = {RamFile(path, S)} \cup {f \in ram : f.name \in DataFiles}
      /\ pc' = "idle" /\ UNCHANGED failures
      /\ ListedKeys \subseteq S
  <2>1. <<new>> = <<new>> \o << >>
    OBVIOUS
  <2> QED
    BY <2>1 DEF ReplaceList
<1>3. /\ path \in Names /\ path \notin DataFiles
      /\ DOMAIN files = DataFiles \cup Paths \cup {path}
      /\ files[path] = {}
  BY <1>1 DEF UnderConstruction
<1>4. Describes(new, S) /\ new.path = path
  <2>1. Cardinality(S) \in Nat /\ Cardinality(S) <= Cardinality(S)
    BY KeysAssumption, FS_Subset, FS_CardinalityType
  <2> QED
    BY <2>1, WrittenIsDescribed
<1>5. DOMAIN rest = DataFiles /\ \A q \in DataFiles : rest[q] = files[q]
  BY DEF Restrict
<1> HIDE DEF new, rest, path
<1>6. new \in Storages /\ new.count * SizeMultiplier <= new.filter.size
  BY <1>3, <1>4, DescribedType, DescribesProperties
<1>7. /\ DOMAIN files' = DataFiles \cup {path}
      /\ files'[path] = S
      /\ \A q \in DataFiles : files'[q] = files[q]
  BY <1>2, <1>3, <1>5 DEF WithFile
<1>8. /\ list' \in Seq(Storages)
      /\ PathsDiffer'
      /\ FilterIsSized'
      /\ Paths' = {path}
      /\ \A i \in DOMAIN list' : list'[i] = new
  <2> DEFINE none == << >>
  <2>1. none \in Seq(Storages) /\ DOMAIN none = {}
    OBVIOUS
  <2>2. list' = <<new>> \o none
    BY <1>2
  <2> HIDE DEF none
  <2>3. /\ \A i, j \in DOMAIN none : none[i].path = none[j].path => i = j
        /\ \A i \in DOMAIN none : none[i].path # new.path
        /\ \A i \in DOMAIN none : none[i].count * SizeMultiplier <= none[i].filter.size
        /\ {none[i].path : i \in DOMAIN none} = {}
    BY <2>1
  <2>4. /\ list' \in Seq(Storages)
        /\ PathsDiffer'
        /\ FilterIsSized'
        /\ Paths' = {new.path} \cup {none[i].path : i \in DOMAIN none}
        /\ \A i \in DOMAIN list' : list'[i] = new \/ \E j \in DOMAIN none : list'[i] = none[j]
    BY <1>6, <2>1, <2>2, <2>3, PushedList
  <2> QED
    BY <1>4, <2>1, <2>3, <2>4
<1>9. TypeInv'
  BY <1>1, <1>2, <1>8 DEF TypeInv, Places
<1>10. BetweenTurns'
  BY <1>4, <1>7, <1>8 DEF BetweenTurns, DescribedFrom
<1>11. ram' = Image(files')
  <2>1. {f \in ram : f.name \in DataFiles} = {RamFile(p, files'[p]) : p \in DataFiles}
    BY <1>1, <1>3, <1>7 DEF Image, RamFile
  <2>2. Image(files') = {RamFile(p, files'[p]) : p \in DataFiles} \cup {RamFile(path, S)}
    BY <1>7 DEF Image
  <2> QED
    BY <1>2, <2>1, <2>2
<1>12. DiskInv' /\ RamInv'
  BY <1>1, <1>2, <1>10, <1>11 DEF DiskInv, RamInv, ManagersAgree, Image
<1>13. ASSUME NEW p \in DOMAIN files
       PROVE  files[p] \subseteq UNION {files'[q] : q \in DOMAIN files'}
  <2>1. CASE p \in DataFiles
    BY <1>7, <2>1
  <2>2. CASE p \in Paths
    <3>1. files[p] \subseteq ListedKeys
      BY <2>2 DEF ListedKeys, Paths
    <3> QED
      BY <1>2, <1>7, <3>1
  <2>3. CASE p = path
    BY <1>3, <2>3
  <2> QED
    BY <1>3, <2>1, <2>2, <2>3
<1> QED
  BY <1>1, <1>2, <1>8, <1>9, <1>12, <1>13 DEF Inv, EntriesKept

LEMMA ReplaceListRefusedStep ==
    ASSUME Inv, NEW S \in (SUBSET Keys) \ {{}}, NEW n \in DOMAIN list,
           ReplaceListRefused(S, n)
    PROVE  Inv' /\ EntriesKept /\ failures' > failures
<1> DEFINE path == newStorage.path
           kept == DataFiles \cup {list[i].path : i \in 1 .. n}
           rest == Restrict(files, kept)
<1>1. /\ TypeInv /\ FilterIsSized
      /\ DOMAIN files = DataFiles \cup Paths \cup {path}
      /\ path \notin DataFiles \cup Paths
      /\ files[path] = {}
  BY DEF Inv, DiskInv, UnderConstruction, ReplaceListRefused
<1>2. /\ files' = WithFile(rest, path, S)
      /\ ListedKeys \subseteq S
      /\ pc' = "terminated" /\ failures' = failures + 1 /\ failures \in Nat
      /\ UNCHANGED list
  BY <1>1 DEF ReplaceListRefused, TypeInv
<1>3. DOMAIN rest = kept /\ \A q \in DataFiles : rest[q] = files[q]
  BY DEF Restrict
<1>4. DataFiles \subseteq kept
  OBVIOUS
<1> HIDE DEF rest, path, kept
<1>5. /\ path \in DOMAIN files' /\ files'[path] = S
      /\ \A q \in DataFiles : q \in DOMAIN files' /\ files'[q] = files[q]
  BY <1>1, <1>2, <1>3, <1>4 DEF WithFile
<1>6. ASSUME NEW p \in DOMAIN files
      PROVE  files[p] \subseteq UNION {files'[q] : q \in DOMAIN files'}
  <2>1. CASE p \in DataFiles
    BY <1>5, <2>1
  <2>2. CASE p \in Paths
    <3>1. files[p] \subseteq ListedKeys
      BY <2>2 DEF ListedKeys, Paths
    <3> QED
      BY <1>2, <1>5, <3>1
  <2>3. CASE p = path
    BY <1>1, <2>3
  <2> QED
    BY <1>1, <2>1, <2>2, <2>3
<1>7. TypeInv' /\ FilterIsSized'
  BY <1>1, <1>2, SameList DEF Places
<1>8. DiskInv' /\ RamInv'
  BY <1>2 DEF DiskInv, RamInv, ManagersAgree
<1> QED
  BY <1>2, <1>6, <1>7, <1>8 DEF Inv, EntriesKept

LEMMA MergeBlocksStep ==
    ASSUME Inv, NEW seed \in Seeds, MergeBlocks(seed)
    PROVE  Inv' /\ EntriesKept /\ pc' # "terminated"
<1> DEFINE A == files[list[1].path]
           B == files[list[2].path]
           S == A \cup B
           new == Written(CollapseName, S, list[1].count + list[2].count, seed)
<1>1. /\ TypeInv /\ FilterIsSized /\ UnderConstruction
      /\ newStorage.path = CollapseName /\ Len(list) > 1
      /\ ram = Image(files)
  BY DEF Inv, DiskInv, RamInv, ManagersAgree, Image, MergeBlocks
<1>2. /\ files' = WithFile(files, CollapseName, S)
      /\ ram' = RamWritten(CollapseName, S)
      /\ newStorage' = new
      /\ pc' = "merged" /\ UNCHANGED <<list, failures>>
  BY DEF MergeBlocks, WriteFile
<1>3. Len(list) > 1 /\ 1 \in DOMAIN list /\ 2 \in DOMAIN list
  BY <1>1, ListIsTyped
<1>4. /\ DOMAIN files = DataFiles \cup Paths \cup {CollapseName}
      /\ files[CollapseName] = {}
      /\ \A i \in DOMAIN list : list[i].path \in DOMAIN files /\ list[i].path # CollapseName
  BY <1>1 DEF UnderConstruction, Paths
<1>5. Describes(list[1], A) /\ Describes(list[2], B)
  BY <1>1, <1>3 DEF UnderConstruction, DescribedFrom
<1> HIDE DEF A, B
<1>6. /\ S \in (SUBSET Keys) \ {{}}
      /\ list[1].count + list[2].count \in Nat
      /\ Cardinality(S) <= list[1].count + list[2].count
  <2>1. /\ A \in SUBSET Keys /\ A # {} /\ list[1].count = Cardinality(A) /\ list[1].count \in Nat
        /\ B \in SUBSET Keys /\ B # {} /\ list[2].count = Cardinality(B) /\ list[2].count \in Nat
    BY <1>5, DescribesProperties
  <2>2. IsFiniteSet(A) /\ IsFiniteSet(B)
    BY <2>1, KeysAssumption, FS_Subset
  <2>3. Cardinality(S) = Cardinality(A) + Cardinality(B) - Cardinality(A \cap B)
    BY <2>2, FS_Union
  <2>4. Cardinality(A \cap B) \in Nat
    BY <2>2, FS_Intersection, FS_CardinalityType
  <2>5. S \in (SUBSET Keys) \ {{}}
    BY <2>1
  <2> HIDE DEF S
  <2> QED
    BY <2>1, <2>3, <2>4, <2>5
<1> HIDE DEF S
<1>7. Describes(new, S)
  BY <1>6, WrittenIsDescribed
<1> HIDE DEF new
<1>8. /\ DOMAIN files' = DOMAIN files
      /\ files'[CollapseName] = S
      /\ \A q \in DOMAIN files : q # CollapseName => files'[q] = files[q]
  BY <1>2, <1>4 DEF WithFile
<1>9. TypeInv' /\ FilterIsSized' /\ Paths' = Paths
  BY <1>1, <1>2, SameList DEF Places, TypeInv
<1>10. AfterMerge'
  <2>1. DescribedFrom({})'
    BY <1>1, <1>2, <1>4, <1>8, StillDescribed DEF UnderConstruction
  <2>2. files'[list[1].path] = A /\ files'[list[2].path] = B
    BY <1>3, <1>4, <1>8 DEF A, B
  <2>3. DOMAIN files' = DataFiles \cup Paths' \cup {CollapseName}
    BY <1>4, <1>8, <1>9
  <2>4. Describes(newStorage', files'[CollapseName])
    BY <1>2, <1>7, <1>8
  <2>5. files'[CollapseName] = files'[list'[1].path] \cup files'[list'[2].path]
    BY <1>2, <1>8, <2>2 DEF S
  <2> QED
    BY <1>2, <1>3, <2>1, <2>3, <2>4, <2>5 DEF AfterMerge
<1>11. ram' = Image(files')
  BY <1>1, <1>2, ImageWithFile
<1>12. DiskInv' /\ RamInv'
  BY <1>2, <1>10, <1>11 DEF DiskInv, RamInv, ManagersAgree, Image
<1>13. EntriesKept
  BY <1>4, <1>8 DEF EntriesKept
<1> QED
  BY <1>2, <1>9, <1>12, <1>13 DEF Inv

LEMMA MoveRegisterStep ==
    ASSUME Inv, MoveRegister
    PROVE  Inv' /\ EntriesKept /\ pc' # "terminated"
<1> DEFINE new == Storage(list[2].path, newStorage.count, newStorage.filter)
<1>1. /\ TypeInv /\ FilterIsSized /\ AfterMerge
      /\ ram = Image(files)
  BY DEF Inv, DiskInv, RamInv, ManagersAgree, Image, MoveRegister
<1>2. /\ list' = [list EXCEPT ![2] = new]
      /\ pc' = "moved" /\ UNCHANGED <<files, ram, failures>>
  BY DEF MoveRegister, folder
<1>3. Len(list) > 1 /\ 1 \in 1 .. Len(list) /\ 2 \in 1 .. Len(list) /\ DOMAIN list = 1 .. Len(list)
  <2>1. Len(list) > 1
    BY <1>1 DEF AfterMerge
  <2> QED
    BY <1>1, <2>1, ListIsTyped
<1>4. /\ Describes(new, files[CollapseName])
      /\ new.path = list[2].path
  BY <1>1, DescriptionMoves DEF AfterMerge
<1> HIDE DEF new
<1>5. new \in Storages /\ new.count * SizeMultiplier <= new.filter.size
  BY <1>1, <1>3, <1>4, ListIsTyped, DescribedType, DescribesProperties
<1>6. /\ list' \in Seq(Storages)
      /\ Len(list') = Len(list)
      /\ DOMAIN list' = 1 .. Len(list)
      /\ list'[2] = new
      /\ \A i \in 1 .. Len(list) : i # 2 => list'[i] = list[i]
  <2>1. /\ list' \in Seq(Storages)
        /\ Len(list') = Len(list)
        /\ \A i \in 1 .. Len(list) : list'[i] = IF i = 2 THEN new ELSE list[i]
    BY <1>1, <1>2, <1>3, <1>5, ExceptSeq DEF TypeInv
  <2>2. DOMAIN list' = 1 .. Len(list)
    BY <2>1, LenProperties
  <2> QED
    BY <1>3, <2>1, <2>2
<1>7. \A i \in 1 .. Len(list) : list'[i].path = list[i].path
  BY <1>4, <1>6
<1>8. Paths' = Paths /\ PathsDiffer'
  BY <1>1, <1>3, <1>6, <1>7 DEF Paths, PathsDiffer, TypeInv
<1>9. TypeInv'
  BY <1>1, <1>2, <1>6, <1>8 DEF TypeInv, Places
<1>10. FilterIsSized'
  BY <1>1, <1>3, <1>5, <1>6 DEF FilterIsSized
<1>11. AfterMove'
  <2>1. DescribedFrom({2})'
    BY <1>1, <1>2, <1>3, <1>6 DEF AfterMerge, DescribedFrom
  <2>2. DOMAIN files' = DataFiles \cup Paths' \cup {CollapseName}
    BY <1>1, <1>2, <1>8 DEF AfterMerge
  <2>3. files'[CollapseName] = files'[list'[1].path] \cup files'[list'[2].path]
    BY <1>1, <1>2, <1>3, <1>7 DEF AfterMerge
  <2>4. Describes(list'[2], files'[CollapseName])
    BY <1>2, <1>4, <1>6
  <2> QED
    BY <1>3, <1>6, <2>1, <2>2, <2>3, <2>4 DEF AfterMove
<1>12. DiskInv' /\ RamInv'
  BY <1>1, <1>2, <1>11 DEF DiskInv, RamInv, ManagersAgree, Image
<1> QED
  BY <1>2, <1>9, <1>10, <1>12 DEF Inv, EntriesKept

LEMMA SwapFirstStep ==
    ASSUME Inv, SwapFirst
    PROVE  Inv' /\ EntriesKept /\ pc' # "terminated"
<1> DEFINE p1 == list[1].path
           p2 == list[2].path
<1>1. /\ TypeInv /\ FilterIsSized /\ AfterMove
      /\ ram = Image(files)
  BY DEF Inv, DiskInv, RamInv, ManagersAgree, Image, SwapFirst, Rename
<1>2. /\ files' = Renamed(CollapseName, SwapName)
      /\ ram' = RamSwapped(CollapseName, p2)
      /\ pc' = "renamed1" /\ UNCHANGED <<list, newStorage, failures>>
  BY DEF SwapFirst, Rename
<1>3. /\ 1 \in DOMAIN list /\ 2 \in DOMAIN list
      /\ \A i \in DOMAIN list : list[i].path \in Paths /\ list[i].path \in Names
      /\ Paths \subseteq Names
  <2>1. Len(list) > 1
    BY <1>1 DEF AfterMove
  <2> QED
    BY <1>1, <2>1, ListIsTyped
<1>4. /\ DOMAIN files = DataFiles \cup Paths \cup {CollapseName}
      /\ files[CollapseName] = files[p1] \cup files[p2]
      /\ Describes(list[2], files[CollapseName])
      /\ Len(list) > 1 /\ DescribedFrom({2})
  BY <1>1 DEF AfterMove
<1>5. p1 \in Paths /\ p2 \in Paths /\ p2 # CollapseName /\ p2 # SwapName
  BY <1>3, NamesDiffer
<1>6. /\ SwapName \notin DOMAIN files
      /\ DataFiles \cup Paths = DOMAIN files \ {CollapseName, SwapName}
  BY <1>3, <1>4, NamesDiffer
<1>7. /\ DOMAIN files' = DataFiles \cup Paths \cup {SwapName}
      /\ files'[SwapName] = files[CollapseName]
      /\ \A q \in DataFiles \cup Paths : files'[q] = files[q]
  <2>1. /\ DOMAIN files' = (DOMAIN files \ {CollapseName}) \cup {SwapName}
        /\ files'[SwapName] = files[CollapseName]
        /\ \A q \in DOMAIN files : q # CollapseName /\ q # SwapName => files'[q] = files[q]
    BY <1>2 DEF Renamed, WithFile, Restrict
  <2> QED
    BY <1>4, <1>6, <2>1
<1>8. TypeInv' /\ FilterIsSized' /\ Paths' = Paths
  BY <1>1, <1>2, SameList DEF Places, TypeInv
<1>9. AfterFirstRename'
  <2>1. DescribedFrom({2})'
    BY <1>1, <1>2, <1>3, <1>4, <1>7, StillDescribed
  <2> QED
    BY <1>2, <1>4, <1>5, <1>7, <1>8, <2>1 DEF AfterFirstRename
<1>10. ram' = {RamFile(p, files'[p]) : p \in DOMAIN files' \ {SwapName, p2}}
              \cup {RamFile(CollapseName, files'[p2]), RamFile(p2, files'[SwapName])}
  <2> DEFINE swapped(p) == CASE p = CollapseName -> p2 [] p = p2 -> CollapseName [] OTHER -> p
             others == DOMAIN files' \ {SwapName, p2}
  <2>1. ram' = {RamFile(swapped(p), files[p]) : p \in DOMAIN files}
    <3>1. ram' = {RamFile(swapped(f.name), f.content) : f \in ram}
      BY <1>2 DEF RamSwapped
    <3> HIDE DEF swapped
    <3>2. ram = {RamFile(p, files[p]) : p \in DOMAIN files}
      BY <1>1 DEF Image
    <3>3. \A p \in DOMAIN files : RamFile(p, files[p]).name = p /\ RamFile(p, files[p]).content = files[p]
      BY DEF RamFile
    <3> QED
      BY <3>1, <3>2, <3>3
  <2>2. /\ swapped(CollapseName) = p2
        /\ swapped(p2) = CollapseName
        /\ \A p \in others : swapped(p) = p
    BY <1>5, <1>6, <1>7
  <2>3. DOMAIN files = others \cup {p2, CollapseName} /\ \A p \in others : files'[p] = files[p]
    BY <1>4, <1>5, <1>6, <1>7, NamesDiffer
  <2> HIDE DEF swapped, others
  <2>4. ram' = {RamFile(swapped(p), files[p]) : p \in others}
               \cup {RamFile(swapped(p2), files[p2]), RamFile(swapped(CollapseName), files[CollapseName])}
    BY <2>1, <2>3
  <2>5. {RamFile(swapped(p), files[p]) : p \in others} = {RamFile(p, files'[p]) : p \in others}
    BY <2>2, <2>3
  <2>6. files[p2] = files'[p2] /\ files[CollapseName] = files'[SwapName]
    BY <1>5, <1>7
  <2> QED
    BY <2>2, <2>4, <2>5, <2>6 DEF others
<1>11. DiskInv' /\ RamInv'
  BY <1>2, <1>9, <1>10 DEF DiskInv, RamInv, ManagersAgree
<1>12. EntriesKept
  BY <1>4, <1>7 DEF EntriesKept
<1> QED
  BY <1>2, <1>8, <1>11, <1>12 DEF Inv

LEMMA SwapSecondStep ==
    ASSUME Inv, SwapSecond
    PROVE  Inv' /\ EntriesKept /\ pc' # "terminated"
<1> DEFINE p1 == list[1].path
           p2 == list[2].path
<1>1. /\ TypeInv /\ FilterIsSized /\ AfterFirstRename
      /\ ram = {RamFile(p, files[p]) : p \in DOMAIN files \ {SwapName, p2}}
               \cup {RamFile(CollapseName, files[p2]), RamFile(p2, files[SwapName])}
  BY DEF Inv, DiskInv, RamInv, SwapSecond, Rename
<1>2. /\ files' = Renamed(p2, CollapseName)
      /\ ram' = ram
      /\ pc' = "renamed2" /\ UNCHANGED <<list, newStorage, failures>>
  BY DEF SwapSecond, Rename
<1>3. /\ 1 \in DOMAIN list /\ 2 \in DOMAIN list
      /\ \A i \in DOMAIN list : list[i].path \in Paths /\ list[i].path \in Names
      /\ Paths \subseteq Names
      /\ \A i \in DOMAIN list : i # 2 => list[i].path # p2
  <2>1. Len(list) > 1
    BY <1>1 DEF AfterFirstRename
  <2> QED
    BY <1>1, <2>1, ListIsTyped DEF TypeInv, PathsDiffer
<1>4. /\ DOMAIN files = DataFiles \cup Paths \cup {SwapName}
      /\ files[SwapName] = files[p1] \cup files[p2]
      /\ Describes(list[2], files[SwapName])
      /\ Len(list) > 1 /\ DescribedFrom({2})
  BY <1>1 DEF AfterFirstRename
<1>5. p1 \in Paths \ {p2} /\ p2 \in Paths /\ p2 \notin DataFiles /\ p2 # CollapseName /\ p2 # SwapName
  BY <1>3, NamesDiffer
<1>6. CollapseName \notin DataFiles \cup Paths \cup {SwapName} /\ SwapName \notin DataFiles \cup Paths
  BY <1>3, NamesDiffer
<1>7. /\ DOMAIN files' = DataFiles \cup (Paths \ {p2}) \cup {CollapseName, SwapName}
      /\ files'[CollapseName] = files[p2]
      /\ files'[SwapName] = files[SwapName]
      /\ \A q \in DataFiles \cup (Paths \ {p2}) : files'[q] = files[q]
  <2>1. /\ DOMAIN files' = ((DOMAIN files) \ {p2}) \cup {CollapseName}
        /\ files'[CollapseName] = files[p2]
        /\ \A q \in DOMAIN files : q # p2 /\ q # CollapseName => files'[q] = files[q]
    BY <1>2 DEF Renamed, WithFile, Restrict
  <2>2. ((DOMAIN files) \ {p2}) \cup {CollapseName}
            = DataFiles \cup (Paths \ {p2}) \cup {CollapseName, SwapName}
    BY <1>4, <1>5
  <2>3. ASSUME NEW q \in DataFiles \cup (Paths \ {p2}) \cup {SwapName}
        PROVE  q \in DOMAIN files /\ q # p2 /\ q # CollapseName
    BY <1>4, <1>5, <1>6
  <2> QED
    BY <2>1, <2>2, <2>3
<1>8. TypeInv' /\ FilterIsSized' /\ Paths' = Paths
  BY <1>1, <1>2, SameList DEF Places, TypeInv
<1>9. AfterSecondRename'
  <2>1. DescribedFrom({2})'
    BY <1>1, <1>2, <1>3, <1>4, <1>7, StillDescribed
  <2>2. files'[SwapName] = files'[p1] \cup files'[CollapseName]
    BY <1>4, <1>5, <1>7
  <2>3. DOMAIN files' = DataFiles \cup (Paths' \ {list'[2].path}) \cup {CollapseName, SwapName}
    BY <1>2, <1>7, <1>8
  <2> QED
    BY <1>2, <1>4, <1>7, <2>1, <2>2, <2>3 DEF AfterSecondRename
<1>10. ram' = {RamFile(p, files'[p]) : p \in DOMAIN files' \ {SwapName}}
              \cup {RamFile(p2, files'[SwapName])}
  <2> DEFINE others == DataFiles \cup (Paths \ {p2})
  <2>1. (DOMAIN files) \ {SwapName, p2} = others
    BY <1>4, <1>5, <1>6
  <2>2. (DOMAIN files') \ {SwapName} = others \cup {CollapseName}
    BY <1>6, <1>7, NamesDiffer
  <2>3. \A p \in others : files'[p] = files[p]
    BY <1>7
  <2> HIDE DEF others
  <2>4. {RamFile(p, files[p]) : p \in others} = {RamFile(p, files'[p]) : p \in others}
    BY <2>3
  <2>5. {RamFile(p, files'[p]) : p \in others \cup {CollapseName}}
            = {RamFile(p, files'[p]) : p \in others} \cup {RamFile(CollapseName, files'[CollapseName])}
    OBVIOUS
  <2> QED
    BY <1>1, <1>2, <1>7, <2>1, <2>2, <2>4, <2>5
<1>11. DiskInv' /\ RamInv'
  BY <1>2, <1>9, <1>10 DEF DiskInv, RamInv, ManagersAgree
<1>12. EntriesKept
  BY <1>4, <1>7 DEF EntriesKept
<1> QED
  BY <1>2, <1>8, <1>11, <1>12 DEF Inv

LEMMA SwapThirdStep ==
    ASSUME Inv, SwapThird
    PROVE  Inv' /\ EntriesKept /\ pc' # "terminated"
<1> DEFINE p1 == list[1].path
           p2 == list[2].path
<1>1. /\ TypeInv /\ FilterIsSized /\ AfterSecondRename
      /\ ram = {RamFile(p, files[p]) : p \in DOMAIN files \ {SwapName}}
               \cup {RamFile(p2, files[SwapName])}
  BY DEF Inv, DiskInv, RamInv, SwapThird, Rename
<1>2. /\ files' = Renamed(SwapName, p2)
      /\ ram' = ram
      /\ pc' = "swapped" /\ UNCHANGED <<list, newStorage, failures>>
  BY DEF SwapThird, Rename
<1>3. /\ 1 \in DOMAIN list /\ 2 \in DOMAIN list
      /\ \A i \in DOMAIN list : list[i].path \in Paths /\ list[i].path \in Names
      /\ Paths \subseteq Names
      /\ \A i \in DOMAIN list : i # 2 => list[i].path # p2
  <2>1. Len(list) > 1
    BY <1>1 DEF AfterSecondRename
  <2> QED
    BY <1>1, <2>1, ListIsTyped DEF TypeInv, PathsDiffer
<1>4. /\ DOMAIN files = DataFiles \cup (Paths \ {p2}) \cup {CollapseName, SwapName}
      /\ files[SwapName] = files[p1] \cup files[CollapseName]
      /\ Describes(list[2], files[SwapName])
      /\ Len(list) > 1 /\ DescribedFrom({2})
  BY <1>1 DEF AfterSecondRename
<1>5. p1 \in Paths \ {p2} /\ p2 \in Paths /\ p2 \notin DataFiles /\ p2 # CollapseName /\ p2 # SwapName
  BY <1>3, NamesDiffer
<1>6. SwapName \notin DataFiles \cup Paths \cup {CollapseName}
  BY <1>3, NamesDiffer
<1>7. /\ DOMAIN files' = DataFiles \cup Paths \cup {CollapseName}
      /\ files'[p2] = files[SwapName]
      /\ files'[CollapseName] = files[CollapseName]
      /\ \A q \in DataFiles \cup (Paths \ {p2}) : files'[q] = files[q]
  <2>1. /\ DOMAIN files' = ((DOMAIN files) \ {SwapName}) \cup {p2}
        /\ files'[p2] = files[SwapName]
        /\ \A q \in DOMAIN files : q # SwapName /\ q # p2 => files'[q] = files[q]
    BY <1>2 DEF Renamed, WithFile, Restrict
  <2>2. ((DOMAIN files) \ {SwapName}) \cup {p2} = DataFiles \cup Paths \cup {CollapseName}
    BY <1>4, <1>5, <1>6
  <2>3. ASSUME NEW q \in DataFiles \cup (Paths \ {p2}) \cup {CollapseName}
        PROVE  q \in DOMAIN files /\ q # p2 /\ q # SwapName
    BY <1>4, <1>5, <1>6
  <2> QED
    BY <2>1, <2>2, <2>3
<1>8. TypeInv' /\ FilterIsSized' /\ Paths' = Paths
  BY <1>1, <1>2, SameList DEF Places, TypeInv
<1>9. AfterSwap'
  <2>1. ASSUME NEW i \in DOMAIN list PROVE Describes(list[i], files'[list[i].path])
    <3>1. CASE i = 2
      BY <1>4, <1>7, <3>1
    <3>2. CASE i # 2
      <4>1. Describes(list[i], files[list[i].path])
        BY <1>4, <3>2 DEF DescribedFrom
      <4>2. list[i].path \in Paths \ {p2}
        BY <1>3, <3>2
      <4> QED
        BY <1>7, <4>1, <4>2
    <3> QED
      BY <3>1, <3>2
  <2>2. files'[p2] = files'[p1] \cup files'[CollapseName]
    BY <1>4, <1>5, <1>7
  <2> QED
    BY <1>2, <1>4, <1>7, <1>8, <2>1, <2>2 DEF AfterSwap, DescribedFrom
<1>10. ram' = Image(files')
  <2> DEFINE others == (DOMAIN files) \ {SwapName}
  <2>1. DOMAIN files' = others \cup {p2}
    BY <1>4, <1>5, <1>6, <1>7
  <2>2. \A p \in others : files'[p] = files[p]
    BY <1>4, <1>6, <1>7
  <2> HIDE DEF others
  <2>3. {RamFile(p, files[p]) : p \in others} = {RamFile(p, files'[p]) : p \in others}
    BY <2>2
  <2>4. Image(files') = {RamFile(p, files'[p]) : p \in others} \cup {RamFile(p2, files'[p2])}
    BY <2>1 DEF Image
  <2> QED
    BY <1>1, <1>2, <1>7, <2>3, <2>4 DEF others
<1>11. DiskInv' /\ RamInv'
  BY <1>2, <1>9, <1>10 DEF DiskInv, RamInv, ManagersAgree, Image
<1>12. EntriesKept
  BY <1>4, <1>5, <1>7 DEF EntriesKept
<1> QED
  BY <1>2, <1>8, <1>11, <1>12 DEF Inv

(* A destructor that finds its file removes it, on disk as in RAM, unless   *)
(* the operating system refuses.                                            *)
LEMMA Destroyed ==
    ASSUME TypeInv, NEW path, path \in DOMAIN files, NEW next, Destroy(path, next),
           ram = Image(files)
    PROVE  \/ /\ pc' = next
              /\ failures' = failures
              /\ DOMAIN files' = (DOMAIN files) \ {path}
              /\ \A q \in DOMAIN files : q # path => files'[q] = files[q]
              /\ ram' = Image(files')
           \/ Refused
<1> SUFFICES ASSUME ~ Refused
             PROVE  /\ pc' = next
                    /\ failures' = failures
                    /\ DOMAIN files' = (DOMAIN files) \ {path}
                    /\ \A q \in DOMAIN files : q # path => files'[q] = files[q]
                    /\ ram' = Image(files')
  OBVIOUS
<1>1. /\ files' = Restrict(files, (DOMAIN files) \ {path}) /\ ram' = RamRemoved(path)
      /\ pc' = next /\ failures' = failures
  BY DEF Destroy
<1> QED
  BY <1>1, ImageWithout DEF Restrict

(* When it does, nothing but the program is lost. *)
LEMMA RefusedStep ==
    ASSUME Inv, Refused, list' \in Seq(Storages), PathsDiffer', FilterIsSized'
    PROVE  Inv' /\ EntriesKept /\ failures' > failures
<1>1. /\ pc' = "terminated" /\ failures' = failures + 1 /\ failures \in Nat
      /\ UNCHANGED files
  BY DEF Refused, folder, Inv, TypeInv
<1>2. TypeInv'
  BY <1>1 DEF TypeInv, Places
<1>3. DiskInv' /\ RamInv'
  BY <1>1 DEF DiskInv, RamInv, ManagersAgree
<1> QED
  BY <1>1, <1>2, <1>3 DEF Inv, EntriesKept

(* In particular where the list stays as it is. *)
LEMMA RefusedSameList ==
    ASSUME Inv, Refused, UNCHANGED list
    PROVE  Inv' /\ EntriesKept /\ failures' > failures
<1>1. list' \in Seq(Storages) /\ PathsDiffer' /\ FilterIsSized'
  BY DEF Inv, TypeInv, PathsDiffer, FilterIsSized
<1> QED
  BY <1>1, RefusedStep

LEMMA UnwindStep ==
    ASSUME Inv, Unwind
    PROVE  Inv' /\ EntriesKept /\ (pc' = "terminated" => failures' > failures)
<1> DEFINE path == newStorage.path
<1>1. /\ TypeInv /\ FilterIsSized /\ UnderConstruction
      /\ ram = Image(files)
  BY DEF Inv, DiskInv, RamInv, ManagersAgree, Image, Unwind
<1>2. Destroy(path, "idle") /\ UNCHANGED list
  BY DEF Unwind
<1>3. /\ path \notin DataFiles \cup Paths
      /\ DOMAIN files = DataFiles \cup Paths \cup {path}
      /\ files[path] = {}
      /\ DescribedFrom({})
      /\ \A i \in DOMAIN list : list[i].path \in DOMAIN files /\ list[i].path # path
  BY <1>1 DEF UnderConstruction, Paths
<1> HIDE DEF path
<1>4. CASE Refused
  BY <1>2, <1>4, RefusedSameList
<1>5. CASE ~ Refused
  <2>1. /\ pc' = "idle" /\ failures' = failures
        /\ DOMAIN files' = (DOMAIN files) \ {path}
        /\ \A q \in DOMAIN files : q # path => files'[q] = files[q]
        /\ ram' = Image(files')
    BY <1>1, <1>2, <1>3, <1>5, Destroyed
  <2>2. TypeInv' /\ FilterIsSized' /\ Paths' = Paths
    BY <1>1, <1>2, <2>1, SameList DEF Places, TypeInv
  <2>3. BetweenTurns'
    <3>1. DescribedFrom({})'
      BY <1>1, <1>2, <1>3, <2>1, StillDescribed
    <3>2. DOMAIN files' = DataFiles \cup Paths'
      BY <1>3, <2>1, <2>2
    <3> QED
      BY <3>1, <3>2 DEF BetweenTurns
  <2>4. DiskInv' /\ RamInv'
    BY <2>1, <2>3 DEF DiskInv, RamInv, ManagersAgree, Image
  <2>5. EntriesKept
    BY <1>3, <2>1 DEF EntriesKept
  <2> QED
    BY <2>1, <2>2, <2>4, <2>5 DEF Inv
<1> QED
  BY <1>4, <1>5

LEMMA UnlinkHeadStep ==
    ASSUME Inv, UnlinkHead
    PROVE  Inv' /\ EntriesKept /\ (pc' = "terminated" => failures' > failures)
<1> DEFINE p1 == list[1].path
           p2 == list[2].path
<1>1. /\ TypeInv /\ FilterIsSized /\ AfterSwap
      /\ ram = Image(files)
  BY DEF Inv, DiskInv, RamInv, ManagersAgree, Image, UnlinkHead
<1>2. Destroy(p1, "unlinked") /\ list' = Tail(list)
  BY DEF UnlinkHead
<1>3. /\ Len(list) \in Nat /\ Len(list) > 1 /\ DOMAIN list = 1 .. Len(list)
      /\ 1 \in DOMAIN list /\ 2 \in DOMAIN list
      /\ \A i \in DOMAIN list : list[i].path \in Paths /\ list[i].path \in Names
      /\ Paths \subseteq Names
      /\ \A i, j \in DOMAIN list : list[i].path = list[j].path => i = j
      /\ list \in Seq(Storages)
      /\ Paths = {list[i].path : i \in DOMAIN list}
  <2>1. Len(list) > 1
    BY <1>1 DEF AfterSwap
  <2> QED
    BY <1>1, <2>1, ListIsTyped DEF TypeInv, PathsDiffer, Paths
<1>4. /\ list' \in Seq(Storages)
      /\ Len(list') = Len(list) - 1
      /\ DOMAIN list' = 1 .. Len(list) - 1
      /\ \A i \in 1 .. Len(list) - 1 : list'[i] = list[i + 1] /\ i + 1 \in DOMAIN list /\ i + 1 # 1
  <2>1. list # << >>
    BY <1>3, EmptySeq
  <2>2. /\ list' \in Seq(Storages)
        /\ Len(list') = Len(list) - 1
        /\ \A i \in 1 .. Len(list') : list'[i] = list[i + 1]
    BY <1>2, <1>3, <2>1, HeadTailProperties
  <2> QED
    BY <1>3, <2>2, LenProperties
<1>5. Paths' = Paths \ {p1}
  <2>1. Paths' = {list'[i].path : i \in DOMAIN list'}
    BY DEF Paths
  <2>2. ASSUME NEW p \in Paths' PROVE p \in Paths \ {p1}
    <3>1. PICK i \in 1 .. Len(list) - 1 : p = list'[i].path
      BY <1>4, <2>1
    <3>2. p = list[i + 1].path /\ i + 1 \in DOMAIN list /\ i + 1 # 1
      BY <1>4, <3>1
    <3> QED
      BY <1>3, <3>2
  <2>3. ASSUME NEW p \in Paths \ {p1} PROVE p \in Paths'
    <3>1. PICK i \in DOMAIN list : p = list[i].path /\ i # 1
      BY <1>3
    <3>2. i - 1 \in 1 .. Len(list) - 1 /\ (i - 1) + 1 = i
      BY <1>3, <3>1
    <3>3. p = list'[i - 1].path
      BY <1>4, <3>1, <3>2
    <3> QED
      BY <1>4, <2>1, <3>2, <3>3
  <2> QED
    BY <2>2, <2>3
<1>6. /\ DOMAIN files = DataFiles \cup Paths \cup {CollapseName}
      /\ files[p2] = files[p1] \cup files[CollapseName]
      /\ DescribedFrom({})
      /\ p1 \in DOMAIN files /\ p1 \notin DataFiles /\ p1 # CollapseName
      /\ p2 \in DOMAIN files /\ p2 # p1
  BY <1>1, <1>3, NamesDiffer DEF AfterSwap
<1>7. PathsDiffer' /\ FilterIsSized'
  <2>1. PathsDiffer'
    <3> SUFFICES ASSUME NEW i \in DOMAIN list', NEW j \in DOMAIN list', list'[i].path = list'[j].path
                 PROVE  i = j
      BY DEF PathsDiffer
    <3>1. i \in Int /\ j \in Int
      BY <1>4
    <3>2. i + 1 \in DOMAIN list /\ j + 1 \in DOMAIN list
      BY <1>4
    <3>3. list[i + 1].path = list[j + 1].path
      BY <1>4
    <3>4. i + 1 = j + 1
      BY <1>3, <3>2, <3>3
    <3> QED
      BY <3>1, <3>4
  <2>2. FilterIsSized'
    BY <1>1, <1>4 DEF FilterIsSized
  <2> QED
    BY <2>1, <2>2
<1> SUFFICES ASSUME ~ Refused
             PROVE  Inv' /\ EntriesKept /\ pc' # "terminated"
  BY <1>4, <1>7, RefusedStep
<1>8. /\ pc' = "unlinked" /\ failures' = failures
      /\ DOMAIN files' = (DOMAIN files) \ {p1}
      /\ \A q \in DOMAIN files : q # p1 => files'[q] = files[q]
      /\ ram' = Image(files')
  BY <1>1, <1>2, <1>6, Destroyed
<1>9. TypeInv'
  BY <1>1, <1>4, <1>7, <1>8 DEF TypeInv, Places
<1>10. AfterUnlink'
  <2>1. DOMAIN files' = DataFiles \cup Paths' \cup {CollapseName}
    BY <1>5, <1>6, <1>8
  <2>2. ASSUME NEW i \in DOMAIN list' PROVE Describes(list'[i], files'[list'[i].path])
    <3>1. list'[i] = list[i + 1] /\ i + 1 \in DOMAIN list /\ i + 1 # 1
      BY <1>4
    <3>2. Describes(list[i + 1], files[list[i + 1].path])
      BY <1>6, <3>1 DEF DescribedFrom
    <3>3. list[i + 1].path \in DOMAIN files /\ list[i + 1].path # p1
      BY <1>3, <1>6, <3>1
    <3> QED
      BY <1>8, <3>1, <3>2, <3>3
  <2>3. files'[CollapseName] \subseteq files'[list'[1].path]
    <3>1. list'[1] = list[2]
      BY <1>3, <1>4
    <3> QED
      BY <1>6, <1>8, <3>1
  <2>4. Len(list') > 0
    BY <1>3, <1>4
  <2> QED
    BY <2>1, <2>2, <2>3, <2>4 DEF AfterUnlink, DescribedFrom
<1>11. DiskInv' /\ RamInv'
  BY <1>8, <1>10 DEF DiskInv, RamInv, ManagersAgree, Image
<1>12. EntriesKept
  <2>1. ASSUME NEW q \in DOMAIN files PROVE files[q] \subseteq UNION {files'[p] : p \in DOMAIN files'}
    <3>1. CASE q = p1
      <4>1. p2 \in DOMAIN files' /\ files[q] \subseteq files'[p2]
        BY <1>6, <1>8, <3>1
      <4> QED
        BY <4>1
    <3>2. CASE q # p1
      BY <1>8, <3>2
    <3> QED
      BY <3>1, <3>2
  <2> QED
    BY <2>1 DEF EntriesKept
<1> QED
  BY <1>7, <1>8, <1>9, <1>11, <1>12 DEF Inv

LEMMA DropMergedStep ==
    ASSUME Inv, DropMerged
    PROVE  Inv' /\ EntriesKept /\ (pc' = "terminated" => failures' > failures)
<1>1. /\ TypeInv /\ FilterIsSized /\ AfterUnlink
      /\ ram = Image(files)
  BY DEF Inv, DiskInv, RamInv, ManagersAgree, Image, DropMerged
<1>2. Destroy(CollapseName, "loop") /\ UNCHANGED list
  BY DEF DropMerged
<1>3. /\ DOMAIN files = DataFiles \cup Paths \cup {CollapseName}
      /\ DescribedFrom({})
      /\ files[CollapseName] \subseteq files[list[1].path]
      /\ \A i \in DOMAIN list : list[i].path \in Paths
      /\ 1 \in DOMAIN list
      /\ CollapseName \notin DataFiles \cup Paths
  BY <1>1, ListIsTyped, NamesDiffer DEF AfterUnlink
<1> SUFFICES ASSUME ~ Refused
             PROVE  Inv' /\ EntriesKept /\ pc' # "terminated"
  BY <1>2, RefusedSameList
<1>4. /\ pc' = "loop" /\ failures' = failures
      /\ DOMAIN files' = (DOMAIN files) \ {CollapseName}
      /\ \A q \in DOMAIN files : q # CollapseName => files'[q] = files[q]
      /\ ram' = Image(files')
  BY <1>1, <1>2, <1>3, Destroyed
<1>5. TypeInv' /\ FilterIsSized' /\ Paths' = Paths
  BY <1>1, <1>2, <1>4, SameList DEF Places, TypeInv
<1>6. BetweenTurns'
  <2>1. DescribedFrom({})'
    BY <1>1, <1>2, <1>3, <1>4, StillDescribed
  <2>2. DOMAIN files' = DataFiles \cup Paths'
    BY <1>3, <1>4, <1>5
  <2> QED
    BY <2>1, <2>2 DEF BetweenTurns
<1>7. DiskInv' /\ RamInv'
  BY <1>4, <1>6 DEF DiskInv, RamInv, ManagersAgree, Image
<1>8. EntriesKept
  <2>1. ASSUME NEW q \in DOMAIN files PROVE files[q] \subseteq UNION {files'[p] : p \in DOMAIN files'}
    <3>1. CASE q = CollapseName
      <4>1. /\ list[1].path \in DOMAIN files'
            /\ files[q] \subseteq files'[list[1].path]
        BY <1>3, <1>4, <3>1
      <4> QED
        BY <4>1
    <3>2. CASE q # CollapseName
      BY <1>4, <3>2
    <3> QED
      BY <3>1, <3>2
  <2> QED
    BY <2>1 DEF EntriesKept
<1> QED
  BY <1>4, <1>5, <1>7, <1>8 DEF Inv

LEMMA DestroyLastBlockStep ==
    ASSUME Inv, DestroyLastBlock
    PROVE  Inv' /\ (pc' = "terminated" => failures' > failures)
<1> DEFINE n == Len(list)
           path == list[n].path
<1>1. /\ TypeInv /\ FilterIsSized /\ DOMAIN files = DataFiles \cup Paths
      /\ ram = Image(files)
  BY DEF Inv, DiskInv, RamInv, ManagersAgree, Image, DestroyLastBlock
<1>2. /\ list # << >>
      /\ Destroy(path, "destroyList")
      /\ list' = SubSeq(list, 1, n - 1)
  BY DEF DestroyLastBlock
<1>3. /\ list \in Seq(Storages)
      /\ n \in Nat \ {0} /\ DOMAIN list = 1 .. n
      /\ \A i \in 1 .. n : list[i].path \in Paths /\ list[i].path \in Names
      /\ \A i, j \in 1 .. n : list[i].path = list[j].path => i = j
      /\ Paths = {list[i].path : i \in 1 .. n}
  <2>1. n # 0
    BY <1>1, <1>2, EmptySeq DEF TypeInv
  <2> QED
    BY <1>1, <2>1, ListIsTyped DEF TypeInv, PathsDiffer, Paths
<1>4. /\ list' \in Seq(Storages)
      /\ DOMAIN list' = 1 .. n - 1
      /\ \A i \in 1 .. n - 1 : list'[i] = list[i] /\ i \in 1 .. n /\ i # n
  <2>1. \A i \in 1 .. n - 1 : list[i] \in Storages
    BY <1>3, ElementOfSeq
  <2>2. list' = [i \in 1 .. n - 1 |-> list[i]]
    BY <1>2, <1>3
  <2>3. n - 1 \in Nat
    BY <1>3
  <2>4. list' \in Seq(Storages)
    BY <2>1, <2>2, <2>3
  <2> QED
    BY <1>3, <2>2, <2>4
<1> HIDE DEF n
<1>5. Paths' = Paths \ {path}
  <2>1. Paths' = {list'[i].path : i \in DOMAIN list'}
    BY DEF Paths
  <2>2. ASSUME NEW p \in Paths' PROVE p \in Paths \ {path}
    <3>1. PICK i \in 1 .. n - 1 : p = list'[i].path
      BY <1>4, <2>1
    <3>2. p = list[i].path /\ i \in 1 .. n /\ i # n
      BY <1>4, <3>1
    <3> QED
      BY <1>3, <3>2
  <2>3. ASSUME NEW p \in Paths \ {path} PROVE p \in Paths'
    <3>1. PICK i \in 1 .. n : p = list[i].path /\ i # n
      BY <1>3
    <3>2. i \in 1 .. n - 1
      BY <1>3, <3>1
    <3> QED
      BY <1>4, <2>1, <3>1, <3>2
  <2> QED
    BY <2>2, <2>3
<1>6. path \in DOMAIN files /\ path \notin DataFiles
  BY <1>1, <1>3, NamesDiffer
<1>7. PathsDiffer' /\ FilterIsSized'
  <2>1. PathsDiffer'
    BY <1>3, <1>4 DEF PathsDiffer
  <2>2. FilterIsSized'
    BY <1>1, <1>3, <1>4 DEF FilterIsSized
  <2> QED
    BY <2>1, <2>2
<1> SUFFICES ASSUME ~ Refused
             PROVE  Inv' /\ pc' # "terminated"
  BY <1>4, <1>7, RefusedStep
<1>8. /\ pc' = "destroyList" /\ failures' = failures
      /\ DOMAIN files' = (DOMAIN files) \ {path}
      /\ ram' = Image(files')
  BY <1>1, <1>2, <1>6, Destroyed
<1>9. DOMAIN files' = DataFiles \cup Paths'
  BY <1>1, <1>5, <1>6, <1>8
<1>10. TypeInv'
  BY <1>1, <1>4, <1>7, <1>8 DEF TypeInv, Places
<1>11. DiskInv' /\ RamInv'
  BY <1>8, <1>9 DEF DiskInv, RamInv, ManagersAgree, Image
<1> QED
  BY <1>7, <1>8, <1>10, <1>11 DEF Inv

LEMMA DestroyNotSortedStorageStep ==
    ASSUME Inv, DestroyNotSortedStorage
    PROVE  Inv' /\ (pc' = "terminated" => failures' > failures)
<1>1. /\ TypeInv /\ FilterIsSized /\ DOMAIN files = DataFiles \cup Paths
      /\ ram = Image(files)
      /\ list = << >>
  BY DEF Inv, DiskInv, RamInv, ManagersAgree, Image, DestroyNotSortedStorage
<1>2. Destroy("storage-not-sorted", "destroySorted") /\ UNCHANGED list
  BY DEF DestroyNotSortedStorage
<1>3. Paths = {}
  BY <1>1 DEF Paths
<1> SUFFICES ASSUME ~ Refused
             PROVE  Inv' /\ pc' # "terminated"
  BY <1>2, RefusedSameList
<1>4. /\ pc' = "destroySorted" /\ failures' = failures
      /\ DOMAIN files' = (DOMAIN files) \ {"storage-not-sorted"}
      /\ ram' = Image(files')
  BY <1>1, <1>2, NamesDiffer, Destroyed
<1>5. DOMAIN files' = {"storage-sorted"}
  BY <1>1, <1>3, <1>4, NamesDiffer
<1>6. TypeInv' /\ FilterIsSized'
  BY <1>1, <1>2, <1>4, SameList DEF Places, TypeInv
<1>7. DiskInv' /\ RamInv'
  BY <1>1, <1>2, <1>4, <1>5 DEF DiskInv, RamInv, ManagersAgree, Image
<1> QED
  BY <1>4, <1>6, <1>7 DEF Inv

LEMMA DestroySortedStorageStep ==
    ASSUME Inv, DestroySortedStorage
    PROVE  Inv' /\ (pc' = "terminated" => failures' > failures)
<1>1. /\ TypeInv /\ FilterIsSized /\ DOMAIN files = {"storage-sorted"}
      /\ ram = Image(files)
  BY DEF Inv, DiskInv, RamInv, ManagersAgree, Image, DestroySortedStorage
<1>2. Destroy("storage-sorted", "destroyFolder") /\ UNCHANGED list
  BY DEF DestroySortedStorage
<1> SUFFICES ASSUME ~ Refused
             PROVE  Inv' /\ pc' # "terminated"
  BY <1>2, RefusedSameList
<1>3. /\ pc' = "destroyFolder" /\ failures' = failures
      /\ DOMAIN files' = (DOMAIN files) \ {"storage-sorted"}
      /\ ram' = Image(files')
  BY <1>1, <1>2, Destroyed
<1>4. DOMAIN files' = {}
  BY <1>1, <1>3
<1>5. TypeInv' /\ FilterIsSized'
  BY <1>1, <1>2, <1>3, SameList DEF Places, TypeInv
<1>6. DiskInv' /\ RamInv'
  BY <1>3, <1>4 DEF DiskInv, RamInv, ManagersAgree, Image
<1> QED
  BY <1>3, <1>5, <1>6 DEF Inv

(* Steps that change neither the folder nor the list. *)
LEMMA FolderIsStill ==
    ASSUME Inv, UNCHANGED <<folder, list>>, pc \notin {"renamed1", "renamed2"}, pc' \in Places,
           failures' \in Nat, pc' \in {"idle", "loop"} => pc \in {"idle", "loop"},
           pc' \notin {"writing", "merging", "unwinding", "merged", "moved", "renamed1", "renamed2", "swapped",
                       "unlinked", "destroySorted", "destroyFolder"},
           pc' = "destroyList" => pc = "idle", pc # "terminated"
    PROVE  Inv'
<1>1. TypeInv /\ FilterIsSized /\ DiskInv /\ ram = Image(files)
  BY DEF Inv, RamInv, ManagersAgree, Image
<1>2. UNCHANGED files /\ UNCHANGED ram /\ UNCHANGED list
  BY DEF folder
<1>3. TypeInv' /\ FilterIsSized' /\ Paths' = Paths
  BY <1>1, <1>2, SameList
<1>4. pc \in {"idle", "loop"} => BetweenTurns' /\ DOMAIN files' = DataFiles \cup Paths'
  BY <1>1, <1>2, <1>3 DEF DiskInv, BetweenTurns, DescribedFrom
<1>5. DiskInv'
  BY <1>4 DEF DiskInv
<1>6. RamInv'
  BY <1>1, <1>2 DEF RamInv, ManagersAgree, Image
<1> QED
  BY <1>3, <1>5, <1>6 DEF Inv

LEMMA CreationFailsStep ==
    ASSUME Inv, CreationFails
    PROVE  Inv' /\ EntriesKept /\ pc' # "terminated"
<1>1. /\ UNCHANGED <<folder, list>> /\ pc \in {"idle", "loop"} /\ pc' = "idle"
      /\ failures' = failures + 1 /\ failures \in Nat
  BY DEF CreationFails, Inv, TypeInv
<1>2. Inv'
  BY <1>1, FolderIsStill DEF Places
<1> QED
  BY <1>1, <1>2 DEF EntriesKept, folder

LEMMA ConstructorThrowsStep ==
    ASSUME Inv, ConstructorThrows
    PROVE  Inv' /\ EntriesKept /\ pc' # "terminated"
<1>1. /\ UNCHANGED files /\ UNCHANGED ram /\ UNCHANGED list /\ UNCHANGED newStorage
      /\ pc' = "unwinding" /\ failures' = failures + 1 /\ failures \in Nat
  BY DEF ConstructorThrows, folder, Inv, TypeInv
<1>2. TypeInv /\ FilterIsSized /\ UnderConstruction /\ ram = Image(files)
  BY DEF Inv, DiskInv, RamInv, ManagersAgree, Image, ConstructorThrows
<1>3. TypeInv' /\ FilterIsSized' /\ Paths' = Paths
  BY <1>1, <1>2, SameList DEF Places
<1>4. UnderConstruction'
  BY <1>1, <1>2, <1>3 DEF UnderConstruction, DescribedFrom
<1>5. DiskInv' /\ RamInv'
  BY <1>1, <1>2, <1>4 DEF DiskInv, RamInv, ManagersAgree, Image
<1> QED
  BY <1>1, <1>3, <1>5 DEF Inv, EntriesKept

LEMMA ReturnStep ==
    ASSUME Inv, Return
    PROVE  Inv' /\ EntriesKept /\ pc' # "terminated"
<1>1. /\ UNCHANGED <<folder, list>> /\ pc = "loop" /\ pc' = "idle" /\ failures' = failures
      /\ failures \in Nat
  BY DEF Return, Inv, TypeInv
<1>2. Inv'
  BY <1>1, FolderIsStill DEF Places
<1> QED
  BY <1>1, <1>2 DEF EntriesKept, folder

LEMMA BeginDestructionStep ==
    ASSUME Inv, BeginDestruction
    PROVE  Inv' /\ EntriesKept /\ pc' # "terminated"
<1>1. /\ UNCHANGED <<folder, list>> /\ pc = "idle" /\ pc' = "destroyList" /\ failures' = failures
      /\ failures \in Nat
  BY DEF BeginDestruction, Inv, TypeInv
<1>2. Inv'
  BY <1>1, FolderIsStill DEF Places
<1> QED
  BY <1>1, <1>2 DEF EntriesKept, folder

LEMMA DestroyFolderStep ==
    ASSUME Inv, DestroyFolder
    PROVE  Inv' /\ (pc' = "terminated" => failures' > failures)
<1>1. UNCHANGED list
  BY DEF DestroyFolder
<1> SUFFICES ASSUME ~ Refused
             PROVE  Inv' /\ pc' # "terminated"
  BY <1>1, RefusedSameList
<1>2. /\ UNCHANGED <<folder, list>> /\ pc = "destroyFolder" /\ pc' = "destroyed"
      /\ failures' = failures /\ failures \in Nat
  BY DEF DestroyFolder, Inv, TypeInv, DiskInv
<1>3. Inv'
  BY <1>2, FolderIsStill DEF Places
<1> QED
  BY <1>2, <1>3

LEMMA RenameFailsStep ==
    ASSUME Inv, RenameFails
    PROVE  Inv' /\ EntriesKept /\ failures' > failures
BY RefusedSameList DEF RenameFails

LEMMA StutteringStep ==
    ASSUME Inv, UNCHANGED vars
    PROVE  Inv' /\ EntriesKept /\ (pc' = "terminated" => pc = "terminated")
<1>1. UNCHANGED files /\ UNCHANGED ram /\ UNCHANGED list /\ UNCHANGED newStorage /\ UNCHANGED pc
      /\ UNCHANGED failures
  BY DEF vars, folder
<1>2. TypeInv' /\ FilterIsSized' /\ Paths' = Paths
  BY <1>1, SameList DEF Inv, TypeInv
<1>3. \A others : DescribedFrom(others) => DescribedFrom(others)'
  BY <1>1 DEF DescribedFrom
<1>4. DiskInv'
  BY <1>1, <1>2, <1>3 DEF Inv, DiskInv, BetweenTurns, UnderConstruction, AfterMerge, AfterMove,
                          AfterFirstRename, AfterSecondRename, AfterSwap, AfterUnlink
<1>5. RamInv'
  BY <1>1 DEF Inv, RamInv, ManagersAgree
<1> QED
  BY <1>1, <1>2, <1>4, <1>5 DEF Inv, EntriesKept

(* Every step keeps the invariant.  While the store is in use it keeps the *)
(* entries on disk, and only what the operating system refuses terminates  *)
(* the program.                                                            *)
LEMMA NextStep ==
    ASSUME Inv, Next
    PROVE  /\ Inv'
           /\ InUse => EntriesKept
           /\ pc' = "terminated" => failures' > failures
<1>1. ASSUME NEW path \in FreshNames, BeginBlock(path)
      PROVE  Inv' /\ EntriesKept /\ pc' # "terminated"
  BY <1>1, BeginBlockStep
<1>2. ASSUME NEW S \in (SUBSET Keys) \ {{}}, NEW seed \in Seeds, AppendBatch(S, seed)
      PROVE  Inv' /\ EntriesKept /\ pc' # "terminated"
  BY <1>2, AppendBatchStep
<1>3. ASSUME NEW S \in (SUBSET Keys) \ {{}}, NEW seed \in Seeds, ReplaceList(S, seed)
      PROVE  Inv' /\ EntriesKept /\ pc' # "terminated"
  BY <1>3, ReplaceListStep
<1>4. ASSUME NEW S \in (SUBSET Keys) \ {{}}, NEW n \in DOMAIN list, ReplaceListRefused(S, n)
      PROVE  Inv' /\ EntriesKept /\ failures' > failures
  BY <1>4, ReplaceListRefusedStep
<1>5. ASSUME NEW seed \in Seeds, MergeBlocks(seed)
      PROVE  Inv' /\ EntriesKept /\ pc' # "terminated"
  BY <1>5, MergeBlocksStep
<1>6. CASE BeginMerge
  BY <1>6, BeginMergeStep
<1>7. CASE CreationFails
  BY <1>7, CreationFailsStep
<1>8. CASE ConstructorThrows
  BY <1>8, ConstructorThrowsStep
<1>9. CASE Unwind
  BY <1>9, UnwindStep
<1>10. CASE MoveRegister
  BY <1>10, MoveRegisterStep
<1>11. CASE SwapFirst
  BY <1>11, SwapFirstStep
<1>12. CASE SwapSecond
  BY <1>12, SwapSecondStep
<1>13. CASE SwapThird
  BY <1>13, SwapThirdStep
<1>14. CASE RenameFails
  BY <1>14, RenameFailsStep
<1>15. CASE UnlinkHead
  BY <1>15, UnlinkHeadStep
<1>16. CASE DropMerged
  BY <1>16, DropMergedStep
<1>17. CASE Return
  BY <1>17, ReturnStep
<1>18. CASE BeginDestruction
  BY <1>18, BeginDestructionStep
<1>19. CASE DestroyLastBlock
  BY <1>19, DestroyLastBlockStep DEF InUse, DestroyLastBlock
<1>20. CASE DestroyNotSortedStorage
  BY <1>20, DestroyNotSortedStorageStep DEF InUse, DestroyNotSortedStorage
<1>21. CASE DestroySortedStorage
  BY <1>21, DestroySortedStorageStep DEF InUse, DestroySortedStorage
<1>22. CASE DestroyFolder
  BY <1>22, DestroyFolderStep DEF InUse, DestroyFolder
<1> QED
  BY <1>1, <1>2, <1>3, <1>4, <1>5, <1>6, <1>7, <1>8, <1>9, <1>10, <1>11, <1>12, <1>13,
     <1>14, <1>15, <1>16, <1>17, <1>18, <1>19, <1>20, <1>21, <1>22 DEF Next

LEMMA InvStep == Inv /\ [Next]_vars => Inv'
BY NextStep, StutteringStep

LEMMA InvAlways == Spec => []Inv
<1>1. Init => Inv
  BY InitStep
<1>2. Inv /\ [Next]_vars => Inv'
  BY InvStep
<1> QED
  BY <1>1, <1>2, PTL DEF Spec

-----------------------------------------------------------------------------
(* What follows from the invariant. *)

LEMMA DescriptionsAreExact ==
    ASSUME Inv
    PROVE  BlocksAreDescribed
<1> SUFFICES ASSUME pc \in {"idle", "loop"}, NEW i \in DOMAIN list
             PROVE  /\ list[i].path \in DOMAIN files
                    /\ list[i].count = Cardinality(files[list[i].path])
                    /\ \A k \in files[list[i].path] : FindInBlock(list[i], k)
  BY DEF BlocksAreDescribed
<1>1. BetweenTurns
  BY DEF Inv, DiskInv
<1>2. list[i].path \in DOMAIN files
  BY <1>1 DEF BetweenTurns, Paths
<1>3. Describes(list[i], files[list[i].path])
  BY <1>1 DEF BetweenTurns, DescribedFrom
<1>4. /\ list[i].count = Cardinality(files[list[i].path])
      /\ list[i].count \in Nat \ {0}
      /\ \A k \in files[list[i].path] : MightContain(list[i].filter, k)
  BY <1>3, DescribesProperties
<1>5. list[i].count > 0
  BY <1>4
<1> QED
  BY <1>2, <1>4, <1>5 DEF FindInBlock

(* Between calls and between turns of the loop, the file of every block in  *)
(* the list exists, its count is the number of its entries, and find sees   *)
(* each of them through the filter: however many merges, renames that swap  *)
(* two files and registers that move between storages there have been.      *)
THEOREM BlocksAlwaysDescribed == Spec => []BlocksAreDescribed
<1>1. Inv => BlocksAreDescribed
  BY DescriptionsAreExact
<1> QED
  BY <1>1, InvAlways, PTL

(* A filter that resetWith has moved from a merged storage to an older      *)
(* block has as much room as the block's count calls for, as one written    *)
(* for a new block has.                                                     *)
THEOREM FilterIsAlwaysSized == Spec => []FilterIsSized
<1>1. Inv => FilterIsSized
  BY DEF Inv
<1> QED
  BY <1>1, InvAlways, PTL

(* Between calls the folder holds the two files of the data storage and one *)
(* file for each block, also after constructors that threw: neither         *)
(* "collapse" nor the name a swap sets a file aside under is left.          *)
THEOREM NoFileIsEverLeft == Spec => []NoFileIsLeft
<1>1. Inv => NoFileIsLeft
  BY DEF Inv, TypeInv, PathsDiffer, DiskInv, BetweenTurns, Paths, NoFileIsLeft
<1> QED
  BY <1>1, InvAlways, PTL

(* The RAM manager, which finds files by name and swaps two in one step,    *)
(* has what the disk manager has whenever no swap is under way on disk.     *)
THEOREM ManagersAlwaysAgree == Spec => []ManagersAgree
<1>1. Inv => ManagersAgree
  BY DEF Inv, RamInv
<1> QED
  BY <1>1, InvAlways, PTL

(* Until the destructors begin, no write, rename or removal takes the last  *)
(* copy of an entry from disk: a key some file has before the step, some    *)
(* file has after it.                                                       *)
THEOREM EntriesAlwaysStayOnDisk == Spec => EntriesStayOnDisk
<1>1. Inv /\ [Next]_vars =>
          [InUse => UNION {files[p] : p \in DOMAIN files} \subseteq
                    UNION {files'[p] : p \in DOMAIN files'}]_vars
  BY NextStep DEF EntriesKept
<1> QED
  BY <1>1, InvAlways, PTL DEF Spec, EntriesStayOnDisk

(* No destructor of a file or of the folder is asked for what is not there  *)
(* or not empty: a program that is terminated has had a rename or a removal *)
(* refused by the operating system in that very step.                       *)
THEOREM DestructorsAlwaysFindTheirFiles == Spec => DestructorsFindTheirFiles
<1>1. Inv /\ [Next]_vars => [pc' = "terminated" => failures' > failures]_vars
  BY NextStep
<1> QED
  BY <1>1, InvAlways, PTL DEF Spec, DestructorsFindTheirFiles

=============================================================================
