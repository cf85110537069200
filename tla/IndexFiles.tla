----------------------------- MODULE IndexFiles -----------------------------
(***************************************************************************)
(* The files behind the list of index blocks, and what is kept in memory   *)
(* about each of them: its name, the number of its items and a filter.     *)
(*                                                                         *)
(* A storage creates its file in the constructor.  If what is left of the  *)
(* constructor throws, the file is removed while the stack unwinds.        *)
(*                                                                         *)
(* A merge writes a file named "collapse" with a count and a filter of its *)
(* own.  resetWith then moves these two to the older block first and swaps *)
(* the contents of the files next, by three renames; the destructors of    *)
(* the newer block and of the merged storage remove one file each.  Every  *)
(* rename and every removal may be refused by the operating system.        *)
(*                                                                         *)
(* Of an item only its key matters here, and a file is the set of its keys *)
(* (a sorted file has each key once).                                      *)
(*                                                                         *)
(* The folder is kept twice, as the disk manager has it and as the RAM     *)
(* manager has it when it is given the same calls.                         *)
(***************************************************************************)
EXTENDS BlockList, Functions, BloomFilter

CONSTANTS
    Names,          \* Names of blocks: "index-block-0-" and random letters.
    MaxFailures     \* Bound of the model: file operations that throw.

CollapseName == "collapse"
SwapName == "collapse-swap"

(* The files of the data storage, which live as long as the program.  What  *)
(* is in them does not matter here.                                         *)
DataFiles == {"storage-not-sorted", "storage-sorted"}

(* A block's name ends with random letters behind "block-0-"; no other file *)
(* is named like that.                                                      *)
ASSUME NamesAssumption == Names \cap (DataFiles \cup {CollapseName, SwapName}) = {}

ASSUME FailuresAssumption == MaxFailures \in Nat

VARIABLES
    files,      \* The keys in each file that exists, by its name.
    ram,        \* The files of the RAM manager, those it removed left out.
    list,       \* The storages of the list from head_ on.
    newStorage, \* The storage under construction, and mergedKeys until resetWith.
    pc,         \* Where in append or in the destructors: "idle" between calls.
    failures    \* File operations that have thrown.

folder == <<files, ram>>

vars == <<folder, list, newStorage, pc, failures>>

(* A storage in memory: its TemporaryFile, its counter and its filter. *)
Storage(path, count, filter) == [path |-> path, count |-> count, filter |-> filter]

NoStorage == [path |-> CollapseName, count |-> 0, filter |-> <<>>]

(* The names Supermap may choose: the random part is taken to be new. *)
FreshNames == Names \ DOMAIN files

(* reserve: the register of an empty storage makes its filter ready. *)
Reserved(path, n, seed) == Storage(path, 0, Reserve(NewFilter(seed), n))

(* registerItem for each item: it is counted and added to the filter. *)
Registered(storage, S) ==
    Storage(storage.path, storage.count + Cardinality(S), AddAll(storage.filter, S))

(* A new storage whose register is reserved for n items, after the items of *)
(* keys S have been appended to it.                                         *)
Written(path, S, n, seed) == Registered(Reserved(path, n, seed), S)

RamFile(path, S) == [name |-> path, content |-> S]

(* The RAM manager finds a file by its name, and adds one if there is none. *)
RamWritten(path, S) == {f \in ram : f.name # path} \cup {RamFile(path, S)}

RamRemoved(path) == {f \in ram : f.name # path}

(* Mutant: only the first file is given the name of the other. *)
RamSwappedFirst(a, b) ==
    {RamFile(IF f.name = a THEN b ELSE f.name, f.content) : f \in ram}

(* Its swap exchanges the names. *)
RamSwapped(a, b) ==
    {RamFile(CASE f.name = a -> b [] f.name = b -> a [] OTHER -> f.name, f.content) :
        f \in ram}

(* A folder after the contents S have been given to the name path. *)
WithFile(disk, path, S) ==
    [p \in DOMAIN disk \cup {path} |-> IF p = path THEN S ELSE disk[p]]

(* Opening a file for writing creates it, or empties it if it exists. *)
WriteFile(path, S) ==
    /\ files' = WithFile(files, path, S)
    /\ ram' = RamWritten(path, S)

(* std::filesystem::rename replaces a file that has the new name. *)
Renamed(from, to) ==
    WithFile(Restrict(files, DOMAIN files \ {from}), to, files[from])

(* The operating system refuses to rename or to remove.  All of this is     *)
(* done in noexcept functions, so that the program is terminated.           *)
Refused ==
    /\ failures < MaxFailures
    /\ failures' = failures + 1
    /\ pc' = "terminated"
    /\ UNCHANGED folder

(* ~TemporaryFile: remove throws if there is no such file or if it can not  *)
(* be removed, and an exception in a destructor terminates the program.     *)
Destroy(path, next) ==
    \/ /\ files' = Restrict(files, DOMAIN files \ {path})
       /\ ram' = RamRemoved(path)
       /\ pc' = IF path \in DOMAIN files THEN next ELSE "terminated"
       /\ UNCHANGED failures
    \/ Refused

RankOf(storage) == Log2((storage.count + BatchSize - 1) \div BatchSize)

LoopEnds == Len(list) > 1 => RankOf(list[1]) < RankOf(list[2])

ListedKeys == UNION {files[list[i].path] : i \in DOMAIN list}

(* FilteredStorage::find asks the filter before it searches the file; the   *)
(* search itself is exact (SortedFind).                                     *)
FindInBlock(storage, k) ==
    /\ MightContain(storage.filter, k)
    /\ storage.count > 0
    /\ k \in files[storage.path]

-----------------------------------------------------------------------------

Init ==
    /\ files = [p \in DataFiles |-> {}]
    /\ ram = {RamFile(p, {}) : p \in DataFiles}
    /\ list = << >>
    /\ newStorage = NoStorage
    /\ pc = "idle"
    /\ failures = 0

(* A block's file is created, for an index dropped from RAM or for that of  *)
(* a shrink.                                                                *)
BeginBlock(path) ==
    /\ pc = "idle"
    /\ WriteFile(path, {})
    /\ newStorage' = [NoStorage EXCEPT !.path = path]
    /\ pc' = "writing"
    /\ UNCHANGED <<list, failures>>

(* dropRamIndexToDisk: the block is written, its filter reserved for one    *)
(* item more than the RAM index holds, and put at the head of the list.     *)
AppendBatch(S, seed) ==
    /\ pc = "writing"
    /\ Cardinality(S) <= BatchSize
    /\ WriteFile(newStorage.path, S)
    /\ list' = <<Written(newStorage.path, S, Cardinality(S) + 1, seed)>> \o list
    /\ newStorage' = NoStorage
    /\ pc' = "loop"
    /\ UNCHANGED failures

(* shrinkDataStorage: one block for all the data (of at least the keys that *)
(* are listed) becomes a new list; the old list destroys its files.         *)
ReplaceList(S, seed) ==
    /\ pc = "writing"
    /\ ListedKeys \subseteq S
    /\ files' = WithFile(Restrict(files, DataFiles), newStorage.path, S)
    /\ ram' = {RamFile(newStorage.path, S)} \cup {f \in ram : f.name \in DataFiles}
    /\ list' = <<Written(newStorage.path, S, Cardinality(S), seed)>>
    /\ newStorage' = NoStorage
    /\ pc' = "idle"
    /\ UNCHANGED failures

(* The old list can not destroy its n-th file; the files of the nodes after *)
(* it are gone by then.                                                     *)
ReplaceListRefused(S, n) ==
    LET kept == DataFiles \cup {list[i].path : i \in 1 .. n}
    IN  /\ pc = "writing"
        /\ ListedKeys \subseteq S
        /\ failures < MaxFailures
        /\ failures' = failures + 1
        /\ files' = WithFile(Restrict(files, kept), newStorage.path, S)
        /\ pc' = "terminated"
        /\ UNCHANGED <<ram, list, newStorage>>

(* The constructor of mergedKeys creates its file. *)
BeginMerge ==
    /\ pc = "loop"
    /\ ~ LoopEnds
    /\ WriteFile(CollapseName, {})
    /\ newStorage' = NoStorage
    /\ pc' = "merging"
    /\ UNCHANGED <<list, failures>>

(* Mutant: the filter is reserved for the larger of the two files. *)
MergeBlocksOfLarger(seed) ==
    LET S == files[list[1].path] \cup files[list[2].path]
    IN  /\ pc = "merging"
        /\ WriteFile(CollapseName, S)
        /\ newStorage' = Written(CollapseName, S, Max({list[1].count, list[2].count}), seed)
        /\ pc' = "merged"
        /\ UNCHANGED <<list, failures>>

(* The constructor of mergedKeys returns: its filter is reserved for the    *)
(* sum of the counts, so that keys both files hold leave room in it.        *)
MergeBlocks(seed) ==
    LET S == files[list[1].path] \cup files[list[2].path]
    IN  /\ pc = "merging"
        /\ WriteFile(CollapseName, S)
        /\ newStorage' = Written(CollapseName, S, list[1].count + list[2].count, seed)
        /\ pc' = "merged"
        /\ UNCHANGED <<list, failures>>

(* The file of a block or of a merge can not be created: nothing is made,   *)
(* and append leaves the list as it is.                                     *)
CreationFails ==
    /\ pc = "idle" \/ (pc = "loop" /\ ~ LoopEnds)
    /\ failures < MaxFailures
    /\ failures' = failures + 1
    /\ pc' = "idle"
    /\ UNCHANGED <<folder, list, newStorage>>

(* The constructor throws when it has created the file. *)
ConstructorThrows ==
    /\ pc \in {"writing", "merging"}
    /\ failures < MaxFailures
    /\ failures' = failures + 1
    /\ pc' = "unwinding"
    /\ UNCHANGED <<folder, list, newStorage>>

(* Mutant: the file is left to the next storage of the name. *)
UnwindLeavesFile ==
    /\ pc = "unwinding"
    /\ pc' = "idle"
    /\ newStorage' = NoStorage
    /\ UNCHANGED <<folder, list, failures>>

(* The part of the storage that has been constructed destroys its file. *)
Unwind ==
    /\ pc = "unwinding"
    /\ Destroy(newStorage.path, "idle")
    /\ newStorage' = NoStorage
    /\ UNCHANGED list

(* Mutant: the block keeps its own register. *)
MoveCountOnly ==
    /\ pc = "merged"
    /\ list' = [list EXCEPT ![2].count = newStorage.count]
    /\ newStorage' = NoStorage
    /\ pc' = "moved"
    /\ UNCHANGED <<folder, failures>>

(* resetWith: the register of the merged storage moves to the older block. *)
MoveRegister ==
    /\ pc = "merged"
    /\ list' = [list EXCEPT ![2] = Storage(@.path, newStorage.count, newStorage.filter)]
    /\ newStorage' = NoStorage
    /\ pc' = "moved"
    /\ UNCHANGED <<folder, failures>>

Rename(from, to, at, next) ==
    /\ pc = at
    /\ files' = Renamed(from, to)
    /\ pc' = next
    /\ UNCHANGED <<list, newStorage, failures>>

(* swap: the first file is set aside under a third name.  The swap of the   *)
(* RAM manager is one step.                                                 *)
SwapFirst ==
    /\ Rename(CollapseName, SwapName, "moved", "renamed1")
    /\ ram' = RamSwapped(CollapseName, list[2].path)

(* Mutant: the older file is renamed onto the one that was set aside. *)
SwapSecondOverwrites ==
    /\ Rename(list[2].path, SwapName, "renamed1", "renamed2")
    /\ UNCHANGED ram

(* swap: the second file takes the name that has become free. *)
SwapSecond ==
    /\ Rename(list[2].path, CollapseName, "renamed1", "renamed2")
    /\ UNCHANGED ram

(* swap: the file that was set aside takes the name of the second. *)
SwapThird ==
    /\ Rename(SwapName, list[2].path, "renamed2", "swapped")
    /\ UNCHANGED ram

(* A rename throws.  resetWith is noexcept, so the program is terminated. *)
RenameFails ==
    /\ pc \in {"moved", "renamed1", "renamed2"}
    /\ Refused
    /\ UNCHANGED <<list, newStorage>>

(* head_ and curNode leave the newer block, which destroys its file. *)
UnlinkHead ==
    /\ pc = "swapped"
    /\ Destroy(list[1].path, "unlinked")
    /\ list' = Tail(list)
    /\ UNCHANGED newStorage

(* Mutant: the merged storage destroys the file that it was swapped with. *)
DropSwapped ==
    /\ pc = "unlinked"
    /\ Destroy(SwapName, "loop")
    /\ UNCHANGED <<list, newStorage>>

(* mergedKeys leaves its scope: "collapse" now holds the old contents of    *)
(* the block it was swapped with.                                           *)
DropMerged ==
    /\ pc = "unlinked"
    /\ Destroy(CollapseName, "loop")
    /\ UNCHANGED <<list, newStorage>>

Return ==
    /\ pc = "loop"
    /\ LoopEnds
    /\ pc' = "idle"
    /\ UNCHANGED <<folder, list, newStorage, failures>>

(* The destructors of Supermap, in the reverse order of its members.  A     *)
(* node of the list destroys the nodes after it before its own storage.     *)
BeginDestruction ==
    /\ pc = "idle"
    /\ pc' = "destroyList"
    /\ UNCHANGED <<folder, list, newStorage, failures>>

DestroyLastBlock ==
    /\ pc = "destroyList"
    /\ list # << >>
    /\ Destroy(list[Len(list)].path, "destroyList")
    /\ list' = SubSeq(list, 1, Len(list) - 1)
    /\ UNCHANGED newStorage

DestroyNotSortedStorage ==
    /\ pc = "destroyList"
    /\ list = << >>
    /\ Destroy("storage-not-sorted", "destroySorted")
    /\ UNCHANGED <<list, newStorage>>

DestroySortedStorage ==
    /\ pc = "destroySorted"
    /\ Destroy("storage-sorted", "destroyFolder")
    /\ UNCHANGED <<list, newStorage>>

(* The last file releases the manager, and the manager the folder.  remove  *)
(* throws if the folder is not empty or can not be removed, and terminates  *)
(* the program in this destructor as well.                                  *)
DestroyFolder ==
    /\ pc = "destroyFolder"
    /\ \/ /\ pc' = IF DOMAIN files = {} THEN "destroyed" ELSE "terminated"
          /\ UNCHANGED <<folder, failures>>
       \/ Refused
    /\ UNCHANGED <<list, newStorage>>

Next ==
    \/ \E path \in FreshNames : BeginBlock(path)
    \/ \E S \in (SUBSET Keys) \ {{}} :
          \/ \E seed \in Seeds : AppendBatch(S, seed) \/ ReplaceList(S, seed)
          \/ \E n \in DOMAIN list : ReplaceListRefused(S, n)
    \/ BeginMerge
    \/ \E seed \in Seeds : MergeBlocks(seed)
    \/ CreationFails
    \/ ConstructorThrows
    \/ Unwind
    \/ MoveRegister
    \/ SwapFirst \/ SwapSecond \/ SwapThird
    \/ RenameFails
    \/ UnlinkHead
    \/ DropMerged
    \/ Return
    \/ BeginDestruction
    \/ DestroyLastBlock
    \/ DestroyNotSortedStorage
    \/ DestroySortedStorage
    \/ DestroyFolder

Spec == Init /\ [][Next]_vars

-----------------------------------------------------------------------------
(* Properties. *)

(* What is kept in memory describes the file whenever find or a merge may   *)
(* read it: the file exists, its items are counted, and all of them are     *)
(* found through a filter that has been through merges and swaps.           *)
BlocksAreDescribed ==
    pc \in {"idle", "loop"} =>
        \A i \in DOMAIN list :
            LET s == list[i]
            IN  /\ s.path \in DOMAIN files
                /\ s.count = Cardinality(files[s.path])
                /\ \A k \in files[s.path] : FindInBlock(s, k)

(* No filter ever holds more items than it was reserved for: beyond that    *)
(* its error probability is not the one that was asked for.                 *)
FilterIsSized ==
    \A i \in DOMAIN list : list[i].count * SizeMultiplier <= list[i].filter.size

(* Between two calls the files are those of the list, one for each block,   *)
(* even after constructors that threw with a file created: nothing is left  *)
(* over to collide with the fixed name of the next merge or to keep the     *)
(* folder from being removed.                                               *)
NoFileIsLeft ==
    pc \in {"idle", "loop"} =>
        /\ DOMAIN files = DataFiles \cup {list[i].path : i \in DOMAIN list}
        /\ \A i, j \in DOMAIN list : list[i].path = list[j].path => i = j

(* Whatever the sequence of files written, removed and swapped, the RAM     *)
(* manager has the files of the disk manager with the same contents, and    *)
(* never two of one name, except while the disk is amid the renames of a    *)
(* swap, which is one step in RAM.                                          *)
ManagersAgree ==
    pc \notin {"renamed1", "renamed2", "terminated"} =>
        ram = {RamFile(p, files[p]) : p \in DOMAIN files}

InUse == pc \notin {"destroyList", "destroySorted", "destroyFolder", "destroyed"}

(* As long as the store is in use, no step removes or overwrites the last   *)
(* file that holds an entry: between any two renames or destructors every   *)
(* key is on disk somewhere.                                                *)
EntriesStayOnDisk ==
    [][InUse => UNION {files[p] : p \in DOMAIN files} \subseteq
                UNION {files'[p] : p \in DOMAIN files'}]_vars

(* A destructor finds the file it is to remove, and that of the folder      *)
(* finds it empty: when a step terminates the program, the operating system *)
(* has refused a rename or a removal in that very step.                     *)
DestructorsFindTheirFiles ==
    [][pc' = "terminated" => failures' > failures]_vars

=============================================================================
