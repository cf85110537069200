# Verification of Supermap

Supermap is a key-value store in C++17. Every record is appended to a data file; an
index from keys to record positions is kept partly in memory and partly in sorted
files on disk; when too much of the data file is unsorted it is rewritten in key
order. This directory holds TLA+ models of that machinery, the TLC runs that check
them on small instances, and proofs, checked by TLAPS, for every instance.

The program is single-threaded and keeps nothing across restarts (its files are
temporary), so there are no interleavings and no crash recovery to model. What makes
it hard is elsewhere: positions that go stale when the data moves, several layers of
index of different ages, cascades of merges, thresholds, unsigned arithmetic, and
exceptions thrown by file operations in the middle of a cascade.

## Inventory

| Component | State | Operations | Correct when |
|---|---|---|---|
| `Supermap` (core/Supermap.hpp) | the RAM index, the data storage, the list of index blocks | `add`, `getValue`, `getUpperSizeBound`, and inside `add` the drop of the RAM index and the shrink | a read returns the last value added; space stays bounded |
| `BinaryCollapsingSortedStoragesList` | a linked list of index blocks, newest first | `append` (with its loop of merges), `find` | newer entries hide older ones; ranks increase towards the tail, so the list is short; the loop ends |
| `SortedSingleFileIndexedStorage` | a file of strictly sorted items and its register | constructors from a range and from several files, `find` | strictly sorted; a merge loses nothing and prefers the newest; `find` is exact and ends |
| `KeyValueShrinkableStorage` | a sorted and an unsorted data file | `append`, `get`, `shrink`, `resetWith`, `exportKeys` | a shrink keeps exactly the last record of each key, and the index returned describes the new file |
| `BST` (the RAM index) | an ordered map | `add`, `getValue`, `extract`, `remove` | an ordered map |
| `SingleFileIndexedStorage`, `OrderedStorage`, registers | a file, a count and, with `FilteringRegister`, a filter | `append`, `appendAll`, `get`, `resetWith`, `registerItem`, `reserve`, `clone` | count and filter describe the file |
| `BloomFilter`, `MockFilter`, `FilteredStorage` | a bit vector, hash seeds | `reserve`, `add`, `mightContain`, `clone`, `find` | never a false negative |
| `KeyHashingShardedKVS`, `DefaultRemovableKvs`, `DefaultFilteredKvs` | inner stores | `add`, `getValue`, `remove` | each is a key-value store |
| `DefaultSupermap`, `ShardedSupermapBuilder`, `KeyValueStorageBuilder` | none | `build` | shards use different folders |
| `FileManager` (disk, RAM, encapsulated) | a set of named files | streams, `create`, `remove`, `rename`, `swap` | the two managers behave alike |
| `TemporaryFile`, `TemporaryFolder` | a path and a flag | constructors, `cancelDeletion`, destructor | a file is removed once, when its last user is gone |
| streams and iterators | an open stream | `write`, `writeAll`, `flush`, `next`, `collectWith` | what is read is what was written |
| command line (cli/) | a table of handlers, a flag | `run`, `stop`, handlers | a command changes the store or reports an error |

**How they interact.** `Supermap::add` calls the data storage (`append`), the RAM index
(`add`), and, when a threshold is passed, writes the RAM index to a file and hands it to
the list, or lets the data storage `shrink` and starts a new list from the index that
`shrink` returns. The list calls the merging constructor and `resetWith` of sorted
storages, which write files through the file manager. `getValue` asks the RAM index, then
the list, then reads the data storage at the position found. All of these are plain
calls; an exception of a file operation passes through all of them.

**Which behaviours are hard.** The hazards in `PROJECT.json` list them at their lines:
stale positions after a shrink (`Supermap.hpp:81`), the order of the layers
(`BinaryCollapsingSortedStoragesList.hpp:88`), the assertion on ranks (`:81`), the binary
search and its overflow (`SortedSingleFileIndexedStorage.hpp:118`), the merge loop (`:181`),
the space bound (`Supermap.hpp:80`), and partial failures (`Supermap.hpp:141`,
`KeyValueShrinkableStorage.hpp:289`, `DiskFileManager.cpp:32`).

## Modules

Five abstract specifications say what a client is promised, the detailed modules are shown
to implement them, and closed forms computed by one module are justified by a module that
goes through the code's loop step by step.

```
 KVStore  <---------- Supermap ---------- DataFile ---- BlockList
 (promise)            |  (add, getValue)   (shrink,      (list of blocks,
                      |                     closed form)  closed form)
         Shard  <---- SupermapFaults            ^             ^
         (promise)    (add throws)              |             | LoopComputesCollapse
                                        ShrinkableStorage   CollapsingList ---> BlockIndex
                                        (shrink, step by    (append, turn       (promise)
                                         step)               by turn)
                                                |
                                                v             SortedMerge  SortedFind
                                           DataStorage    (one file from several; search)
                                           (promise)           |
                                                           MergedFile
                                                           (the file written, and its readers)

 RemovableStore <---- StoreStack          BlockList
 (promise, extends    (filtered over       |
  KVStore)             removable over     IndexFiles ---- BloomFilter
                       sharded stores)    (files, counts,  (operators, also of
                          |                filters, both    StoreStack)
                      CommandLine          file managers)
                      (the loop that a
                       user talks to)
```

| Module | Code | Kind |
|---|---|---|
| `KVStore` | `KeyValueStorage.hpp` | promise of any store |
| `BlockIndex` | `SortedStoragesList.hpp` | promise of the list of index blocks |
| `DataStorage` | `KeyValueShrinkableStorage.hpp` | promise of the data file |
| `BlockList` | `BinaryCollapsingSortedStoragesList.hpp` | operators: `Find`, `Merge`, `Rank`, `Collapse`, `AppendBlock` |
| `DataFile` | `KeyValueShrinkableStorage.hpp` | operators: `Shrunk`, `ExportKeys` |
| `Supermap` | `Supermap.hpp` over the two above | state machine, implements `KVStore` |
| `Shard` | `Supermap.hpp`, seen from the wrappers | promise of a store whose calls throw |
| `SupermapFaults` | `Supermap.hpp` when file operations throw | state machine, implements `Shard` |
| `CollapsingList` | the loop of `append` | state machine, implements `BlockIndex` |
| `ShrinkableStorage` | the body of `shrink` | state machine, implements `DataStorage` |
| `SortedFind` | `SortedSingleFileIndexedStorage::find` | state machine |
| `SortedMerge` | its constructor from several files | state machine |
| `MergedFile` | `SingleFileIndexedStorage.hpp`, `InputIterator.hpp`, `OutputStream` | state machine over `SortedMerge` |
| `BloomFilter` | `BloomFilter.hpp` | operators: `Reserve`, `AddAll`, `MightContain` |
| `IndexFiles` | the files, registers and filters of the list's blocks; the disk and the RAM file manager; the destructors | state machine |
| `RemovableStore` | `KeyValueStorage.hpp` with `remove` | promise |
| `StoreStack` | the sharded, removable and filtered stores | state machine, implements `RemovableStore` |
| `CommandLine` | `cli/CommandLineInterface.hpp`, `cli/KvsCommandHandler.hpp` | state machine over `StoreStack` |
| `DataFileProofs` | | lemmas about the operators of `BlockList` and `DataFile` |
| `SupermapProofs` | | theorems about `Supermap` and `SupermapFaults` |
| `CollapsingListProofs`, `ShrinkableStorageProofs`, `SortedFindProofs`, `IndexFilesProofs` | | theorems about the module of that name |
| `SortedMergeProofs` | | theorems about `MergedFile`, and the merge as a part of it |
| `CommandLineProofs` | | theorems about `StoreStack`, and about `CommandLine` over it |
| `MC*` and `*.cfg` | | instances for TLC |

A definition whose comment begins with "Mutant:" is not part of a model. It is the form a
plausible bug would give to the definition behind it: `PROJECT.json` names, for every
property, the mutant that breaks it in the run that checks it.

### Supermap

| Variable | In the code |
|---|---|
| `sorted`, `notSorted` | the items of `diskDataStorage_->sortedStorage_` and `notSortedStorage_` |
| `ram` | `innerStorage_`, as a function from keys to positions |
| `disk` | `diskIndex_`, newest block first; a block is a function from keys to positions |

There is one thread and `add` runs to its end before the next call, so that each path
through `add` is one action: `AddToRam` (no threshold reached), `AddAndDrop` (the RAM index
is full), `AddAndShrink` (too large a part is not sorted; the RAM index is dropped to the old
list first, and the list is then replaced). `RamFull` and `TooMuchNotSorted` are the two
tests, evaluated after the record has been appended, as in the code. `getValue` changes
nothing and is the operator `GetValue`, which trusts the position found, as the code does.
Positions are unbounded numbers; the width of `IndexT` is the subject of `SortedFind`.

The step "append a block and collapse" (`AppendBlock`) and the step "shrink" (`Shrunk`,
`ExportKeys`) are closed forms. The modules `CollapsingList` and `ShrinkableStorage` take
the code's loops apart and check that they compute these forms.

### SupermapFaults

The calls of `add` that return are those of `Supermap`. A call that throws leaves what was
done before the exception: `DropThrows` (the RAM index has been extracted, the file of the
block not been written), `CollapseThrows` (some turns of the loop are done), `ShrinkThrows`
(the RAM index is dropped, the data file not replaced), `ExportThrows` (the data file is
replaced, the list of blocks is not). `thrown` remembers which of them happened since the
last shrink that returned. Assertions are taken as not compiled in.

`Shard` is what is left of a store for those above it when any of this may happen. `store` has the
value of the last record of each key, `lost` says that an exception in a drop or in the second
export has happened since the last shrink that returned, and `found` are the keys for which the index
has a position, right or wrong. A call appends its record or, when it throws early, does nothing; no
call takes a record away; keys without a record are never found; and all others are found, at their
last record, when `lost` is false. What a read returns for a key while `lost` is true is left open: it
may be an old value, none, or that of another key (`faults_wrong`).

### CollapsingList

`AppendStorage` puts a new head on the list, `MergeHead` is one turn of the loop,
`Return` leaves it, `MergeFails` is the exception of a merge. The keys of a new block are any
non-empty set up to a batch, or, for a new list, any set (the index of all the data).

### ShrinkableStorage

One action per part of `shrink`: `ExportSorted`, `ReadBatch` (once per batch of the unsorted
file), `MergeBatches`, `CopyBatch` (once per batch of the new file), `ResetWith`,
`ReturnActual`; `Throw` leaves from any of them, and the temporary files go. `exportKeys`
reads and writes in batches as well, and is one step here.

### SortedFind and SortedMerge

The local variables of the two functions, one action per branch of their loops. In
`SortedFind` positions are `IndexT`, that is, modulo `IndexMod`. In `SortedMerge` an item is
its key and the number of the file it comes from, since only keys are compared.

### MergedFile

What `SortedMerge` hands over in a step (`Dropped`) goes through `AppendAll` to `bytes`, the
contents of the file. The unit is a serialized key or value, of which an item has two. The file
is then read in the two ways that the code reads it: `Get` deserializes an item at its offset;
`Collect` is one call of `InputIterator::collect`, whose limit is that of the batches of `shrink`
or 0, for all that is left. `OutputStream` never looks at the state of its stream, so that a write
may lose any part of its units and the items are counted as written: `AppendAll` keeps the first
`n` units of the call, for any `n`, and what the next call writes comes directly behind them.
`intact` remembers how many items were written before anything was lost. `AssertionFails` is the
assertion of `collect` that the rest of the file is a whole number of items. What is read at the
end of the file is an arbitrary item, `Garbage`, and no property depends on which.

### IndexFiles and BloomFilter

`files` is the folder: the keys in each file by its name. `list` holds what the program keeps
about each block: the name in its `TemporaryFile`, the count of its register and its Bloom
filter. A storage is constructed in two steps: its file is created (`BeginBlock`, `BeginMerge`), and
then it is filled, and the filter that it was reserved for with it. `AppendBatch` does this for
`dropRamIndexToDisk` (the filter reserved for one item more than there are), `ReplaceList` for a
shrink that returns, `MergeBlocks` for the file "collapse". The rest of a turn of the loop of `append`
is a chain of actions in the order of the code: `MoveRegister` (the first line of `resetWith`),
`SwapFirst`, `SwapSecond`, `SwapThird` (the three renames of `swap`), `UnlinkHead` (the newer block's
destructor), `DropMerged` (the merged storage's). `newStorage` is the storage under construction,
until it is put into the list or its register is moved.

Every file operation may fail. When a file cannot be created (`CreationFails`), nothing has been made.
When the constructor throws later (`ConstructorThrows`), its file is there and is removed by the
destructor of the part that has been constructed (`Unwind`); a merge that throws leaves `append`. A
rename or a removal that the operating system refuses (`Refused`) terminates the program, since
`resetWith` and the destructors are `noexcept`: `RenameFails`, `ReplaceListRefused` and the second
half of `Destroy` and `DestroyFolder`. So does a destructor that does not find its file, which is the
first half of `Destroy`. A filter has the seeds its constructor drew, a size and the bits that are
set; hash functions are constants. The random names are taken to be new.

`ram` is what the RAM file manager holds when it is given the calls the disk manager is given: a
set of named files, searched by name, whose `swap` exchanges names in one step. The code has both
managers behind one interface and the tests use the one where the program uses the other; the
model asks whether this is justified. `DataFiles` are the two files of the data storage. They are
there from the start and until the end, so that the folder is not empty between.

The destructors of a Supermap are actions too: `BeginDestruction` between two calls, then
`DestroyLastBlock` (a node destroys those after it first), `DestroyNotSortedStorage`,
`DestroySortedStorage`, and `DestroyFolder`, which removes the folder and throws if it is not
empty or the operating system refuses.

### StoreStack

`shards` has the value of the last record of each key in each shard, `records` is what its
`getUpperSizeBound` returns, and `lost` are the shards whose index does not lead to all of their
records. Each shard is a store of values with a flag, as the module `Shard` promises. `GetValue`
composes the three wrappers as they call each other, and is what a read returns as long as the index
of the shard is intact (`Intact`); `MayHaveValue` are the keys for which a read may return something
when it is not. `Add` and `Remove` are the calls of the outermost wrapper that return, `AddThrows` and
`RemoveThrows` those that throw; the inner call is `ShardAdd` or `ShardThrows`. One that throws does
nothing, appends its record, or appends it and shrinks; it may add its shard to `lost`, and a shrink
that returns takes it out. `records` may fall to the number of keys at any call, as when a Supermap
shrinks. `MaxRecords` bounds it in the runs.

What the wrappers promise is therefore split in two. `ImplementsRemovableStore` and
`SizeBoundHolds` are about what they do: a call for one key never changes what the records, the flags
and the filter say of another, whatever throws. What a reader gets from a shard in `lost` is not
promised by anybody.

### CommandLine

A line is the sequence of its words; the loop reads one in `ReadUnknown` (no words, or a name that
is no command), `Help`, `Stop` or `RunHandler`, and the handlers `HandleAdd`, `HandleRemove`,
`HandleContains` and `HandleGet` call the operations of `StoreStack` after the arguments have been
counted and converted (`ValidArguments`). A handler catches whatever is thrown, prints it and
returns. `main` builds a stack of one shard without a filter; the model puts the loop over the whole
stack, of which that is a case. `EndOfInput` may come at any time, and `ReadAfterEnd` is every turn
of the loop after it.

`known` is history: for each key, the values it may have as far as the user can tell. A `get` or
`contains` that is answered by a shard with an intact index narrows it, an `add` or `remove` that
returns sets it, and one that reports an error adds the new value to the possible ones, since the user
cannot know how far the call got. An answer of a shard in `lost` may be anything and teaches nothing
(`LearnNothing`): an exception in a drop loses entries of keys of earlier calls, and one in the second
export redirects them, so that no history explains such answers. `DialogueIsConsistent` says that
these answers are the only exception, and only until a shrink has mended the index: what is said then
agrees with what was said before.

## Runs

| Run | Instance | Checks |
|---|---|---|
| `supermap_shrink` | 3 keys, 2 values, batch 2, shrink at 2/3 unsorted | `TypeOK`, `LookupIsLatest`, `SpaceBound`, refinement of `KVStore` |
| `supermap_collapse` | 4 keys, batch 1, one shrink, 8 records | `LayersAgeInOrder`, `RanksIncrease`, `FewBlocks` |
| `list` | 4 keys, batch 1, 6 appends, 1 failure | `TypeOK`, `AssertionUntilFailure`, `RanksIncreaseWhenIdle`, `LoopComputesCollapse`, refinement of `BlockIndex`, `AppendReturns` |
| `faults` | 3 keys, 2 values, batch 2, 6 records, 2 failures | `ExactUnlessDropOrExport`, `AgedUnlessExport`, `ActsAsStore`, refinement of `Shard` |
| `shrink` | 3 keys, 2 values, batch 2, 5 records, 1 failure | `BatchesIndexPrefix`, refinement of `DataStorage`, `ShrinkKeepsValues`, `ShrinkEnds` |
| `find_ok` | all files over 8 keys, `IndexT` of 4 bits | `TypeOK`, `FindIsExact`, `FindReturns` |
| `merge` | all ways to give up to 3 files up to 4 keys, buffer 2, writes lost in part, reads of 1, 3 or all items | `TypeOK`, `MergedIsSorted`, `NewestWins`, `NothingIsLost`, `MergeEnds`, `ReadsWhatWasMerged` |
| `files` | 4 keys, batch 1, 4 names up to symmetry, 2 seeds, 1 failure | `BlocksAreDescribed`, `FilterIsSized`, `NoFileIsLeft`, `ManagersAgree`, `EntriesStayOnDisk`, `DestructorsFindTheirFiles` |
| `stack` | 3 keys, 2 values, 2 shards, filter of 4 bits, 2 seeds, 3 records a shard; every command, right and wrong | refinement of `RemovableStore`, `SizeBoundHolds`, `DialogueIsConsistent` |
| `list_assert` | 4 keys, 6 appends, 1 failure | violated: `RankAssertion` |
| `faults_wrong` | 3 keys, one failure in the second export | violated: `ReadsOwnKey` |
| `find_overflow` | files of up to 7 items, `IndexT` of 3 bits | violated: `FindReturns` |

**Why the bounds are enough.** In `supermap_shrink` shrinks keep the data file at nine records
at most, so that the run explores every reachable state and its `MaxItems` of 100 is never
reached: this is `SpaceBound` at work. In `supermap_collapse` a threshold of 1/1 is reached by
the first record only (the sorted part is empty then), so that the list grows as in the code
between two shrinks: batch 1 makes every add a drop, eight adds over four keys give blocks of
ranks 0 to 2 and cascades through several blocks, and the repeated keys give merges that do
not raise the rank. `list` has the same shapes turn by turn. In `shrink` the unsorted part
spans two full batches and a part of a third, and the copy a full batch and a part of one;
one failure at each step is explored. `faults` has the shortest histories that contain two
exceptions with a drop, a collapse and a shrink between them; values are only compared, so that they
may be symmetric. `find_ok` goes up to exactly half
as many items as `IndexT` has values, the limit below which the sum of two positions does not
wrap; `find_overflow` goes beyond. `merge` covers all overlaps of three files with a buffer
dropped full, part full and empty, and every number of units that each of its writes may lose; the
reader uses every sequence of limits 1, 3 (which does not divide the items) and 0 (all). `files` has no bound on the calls: it has lists of three blocks
and a new head, the longest that four keys allow, and a creation, construction, rename or removal that
fails at every point;
four names always leave one free (without failures the instance has no deadlock). Names are only
compared, so that they may be symmetric; the properties are all safety. `stack` has a filter of four
bits for three keys, so that keys share bits and false positives occur, and one shard that two keys
share; three records in a shard are enough for a key to be added, removed and added again. Its
lines are every command on every key and value, and one line for each way to get a command wrong.

**Deadlock.** Runs that stop at a bound on records or calls, when the function they model
has returned, or when the program has ended, say `CHECK_DEADLOCK FALSE`; the comment in the configuration says which. The
others are checked for deadlock.

**Fairness.** Inside a function the code is sequential and nothing can keep it from going on,
so the loops have weak fairness: `MergeHead` and `Return` in `CollapsingList`, `ShrinkStep` in
`ShrinkableStorage`, `Next` in `SortedFind`, and `FileNext` in `MergedFile` (a call of the
constructor and the loop that reads its file). That a client makes another call, or that a file operation fails, is never assumed.
`Supermap`, `SupermapFaults`, `IndexFiles`, `StoreStack`, `CommandLine` and the promises have no
fairness and no liveness property.

### What the violated runs show

* `list_assert`: the assertion in the loop of `append`
  (`BinaryCollapsingSortedStoragesList.hpp:81`) presumes that the loop of the call before has
  reached its end. When a merge throws, two blocks of one rank stay behind, and a later cascade
  that starts below them meets a block of smaller rank than its head. Reads stay right
  (`ImplementsBlockIndex` holds with failures).
* `faults_wrong`: `shrink` renumbers the records (`resetWith`) before it exports the index of the
  new positions. If that export throws, the list of the old positions stays in use, and
  `getValue` reads records of other keys, or behind the end of the file. `faults` shows that this
  is the only such step, and that the next shrink that returns repairs it.
* `find_overflow`: `(firstLeq + lastGt) / 2` wraps when a file has more than half as many items
  as `IndexT` has values; the interval moves back and the search goes on for ever.

Four more observations, none of them the subject of a run. An exception while the RAM index is
dropped loses up to a batch of index entries of calls that had returned, until the next shrink
(`faults` shows that reads may then be stale or empty but never of another key, and that no record is lost). The comment of `append`
says that the rank of its argument must be 0, while `shrinkDataStorage` appends the index of all
the data; this is safe because the list is new. The comment of `Supermap::getValue` speaks of a
`KeyException`, while the function returns `std::nullopt`. The command loop
(`CommandLineInterface.hpp:68`) does not test `getline`: when the input ends without `stop` it goes
round for ever on empty lines (`ReadAfterEnd`); nothing in the repository says that it should end.

## Proofs

The theorems hold for every finite set of keys, every set of values, every batch size and every
threshold. Their assumptions are named in the modules:

* `KeysAssumption`: keys are numbers and finitely many (keys are byte strings of fixed length).
* `BatchAssumption`: a batch is not empty (`getRank` and `shrink` divide by it).
* `Log2Assumption`: the integer logarithm is monotonic, and doubling its argument adds at most
  one. Nothing else about `std::log2` is used.
* `PartAssumption`, `MaxItemsAssumption`, `NoValueAssumption`, `BoundsAssumption`,
  `FaultsAssumption`, `FailuresAssumption`: the constants have their types. The bounds of the model
  are among them: a theorem holds for every value of its bound.
* `NamesAssumption` in `IndexFiles`: no block has the name of another file of the folder. Names of
  blocks end with random letters behind `block-0-`; the other names are fixed.
* `SizeMultiplierAssumption` in `BloomFilter`: a filter has bits for each item.
* `KeysAreNumbers`, `NewerAssumption` in `SortedMerge`: the files merged are sorted.
* `LinesAssumption` in `CommandLine`: a line is a sequence of words.
* `ValuesAssumption`, `ShardsAssumption` in `StoreStack`: `std::nullopt` is no value, there is a
  shard, and hash values are numbers. Nothing is assumed of the hash functions.
* `NoOverflow` in `SortedFindProofs` is a hypothesis of the theorems, not an assumption: no file
  has more than half as many items as `IndexT` has values. `find_overflow` shows that it is needed.
* `Keys # {}` is a hypothesis of `ListIsShort` alone: without keys the bound speaks of the logarithm
  of zero batches, of which `Log2Assumption` says nothing.

| Theorem | Property | Argument |
|---|---|---|
| `SupermapProofs!TypeCorrect` | `TypeOK` | inductive; a drop empties RAM before it can fill, and merges of non-empty blocks are not empty |
| `SupermapProofs!LookupCorrect` | `LookupIsLatest` | from `IndexIsExact`, below |
| `SupermapProofs!Implementation` | `ImplementsKVStore` | an exact index makes `GetValue` a function of the data alone; an append changes the value of one key, a shrink of none |
| `SupermapProofs!RanksAlwaysIncrease` | `RanksIncrease` | the collapse stops before a block of larger rank; the tail is untouched |
| `SupermapProofs!ListIsShort` | `FewBlocks` | strictly increasing ranks are an injection into the ranks there are (`RanksBoundLength`) |
| `SupermapProofs!LayersAlwaysAge` | `LayersAgeInOrder` | `LayersInOrder` is inductive, below |
| `SupermapProofs!SpaceIsBounded` | `SpaceBound` | from `SpaceInv`, below |
| `SupermapProofs!ExactAfterExceptions` | `ExactUnlessDropOrExport` | from `FaultInv`, below |
| `SupermapProofs!AgedAfterExceptions` | `AgedUnlessExport` | from `FaultInv` |
| `SupermapProofs!StoreUnlessDropOrExport` | `ActsAsStore` | from `FaultInv`: before and after such a step the index is exact, so that it changes what the data says and nothing else |
| `SupermapProofs!PromiseOfShard` | `ImplementsShard` | from `FaultInv` and `FoundIsStored`, below |
| `CollapsingListProofs!TypeCorrect` | `TypeOK` | inductive |
| `CollapsingListProofs!AssertionHolds` | `AssertionUntilFailure` | from `Inv`, below |
| `CollapsingListProofs!RanksIncreaseBetweenAppends` | `RanksIncreaseWhenIdle` | from `Inv` |
| `CollapsingListProofs!ListImplementsIndex` | `ImplementsBlockIndex` | `Find` over a concatenation; a merge of a prefix keeps what is found in it |
| `CollapsingListProofs!LoopAlwaysComputesCollapse` | `LoopComputesCollapse` | a turn leaves what the collapse amounts to (`TurnCollapses`), and a list that ends the loop is its own collapse, below |
| `ShrinkableStorageProofs!BatchesAlwaysIndexPrefix` | `BatchesIndexPrefix` | the export of a concatenation is the newer part's where it has the key, so that the next batch extends the prefix (`ExportConcat`) |
| `ShrinkableStorageProofs!ShrinkAlwaysKeepsValues` | `ShrinkKeepsValues` | from `Inv`: only the replacement changes the files, and it replaces them by the last record of each key |
| `ShrinkableStorageProofs!Implementation` | `ImplementsDataStorage` | from `Inv`: at the replacement the copy is complete, at the return the index is that of the new file; all other steps stutter |
| `SortedFindProofs!TypeCorrect` | `TypeOK` | from `Inv`: without wrapping the middle lies strictly inside the interval |
| `SortedFindProofs!FindCorrect` | `FindIsExact` | from `Inv`: the pattern, if in the file, lies in the interval |
| `CommandLineProofs!FilterIsSafe` | | inductive: the filter learns a key before the store below does, and never forgets one |
| `CommandLineProofs!Implementation` | `ImplementsRemovableStore` | without false negatives the filter can be left out of `GetValue`; below it a call, returned or thrown, changes the record of its own key, or of none |
| `SortedMergeProofs!TypeCorrect` | `TypeOK` | from `MergeInv`, below |
| `SortedMergeProofs!MergeIsSorted` | `MergedIsSorted` | from `MergeInv`: an item emitted is larger than all that are written |
| `SortedMergeProofs!NewestAlwaysWins` | `NewestWins` | from `MergeInv`: no newer file has the key still before it, or has passed it |
| `SortedMergeProofs!NothingIsEverLost` | `NothingIsLost` | from `MergeInv`: at the end nothing is to come, so that all that is passed is written |
| `CommandLineProofs!DialogueCorrect` | `DialogueIsConsistent` | from `DialogueInv`, below |
| `CommandLineProofs!SizeBoundAlwaysHolds` | `SizeBoundHolds` | from `SizeInv`, below |
| `CommandLineProofs!ProgramIsStack` | `ImplementsRemovableStore`, `SizeBoundHolds` | a command makes one call of the stack, or none (`CommandCalls`) |
| `SortedMergeProofs!WhatWasMergedIsRead` | `ReadsWhatWasMerged` | from `FileInv`, below |
| `IndexFilesProofs!BlocksAlwaysDescribed` | `BlocksAreDescribed` | from `Inv`, below: a description gives the count and denies no key |
| `IndexFilesProofs!FilterIsAlwaysSized` | `FilterIsSized` | a part of `Inv` |
| `IndexFilesProofs!NoFileIsEverLeft` | `NoFileIsLeft` | from `Inv`: between turns the folder is known exactly |
| `IndexFilesProofs!ManagersAlwaysAgree` | `ManagersAgree` | a part of `Inv` |
| `IndexFilesProofs!EntriesAlwaysStayOnDisk` | `EntriesStayOnDisk` | from `Inv`: whenever a file goes or is overwritten, another is known to hold its keys |
| `IndexFilesProofs!DestructorsAlwaysFindTheirFiles` | `DestructorsFindTheirFiles` | from `Inv`: the file that a destructor removes is in the folder, and the folder is empty at the end, so that only `Refused` terminates |

**`IndexIsExact`** (Supermap). A shrink moves every record, so that what `LookupIsLatest` says of
one key cannot be carried through it. The invariant is a statement about the whole: the layered
index, read as one function, is what `exportKeys` would compute from the sorted part followed by
the unsorted part. An append changes that
export at one key, exactly as the RAM index changes; a drop and its collapses leave the function
unchanged by `AppendBlockProperties`; a shrink appends the export of the new file to an empty
list.

**`LayersInOrder`** (Supermap). An append gives its key an index behind all others, and RAM is
the newest layer, so that both halves of the property survive it. A drop moves RAM to the head of
the list and leaves an empty RAM. A merge of neighbours takes the newer entry of the two, so that
what it holds still lies between its neighbours (`AgedMergeFirst`); this is the step that fails if a
merge takes blocks that are not neighbours or prefers the older. A shrink starts again with one
block.

**`SpaceInv`** (Supermap). `SpaceBound` alone is not inductive: a step from a state that just
satisfies it may pass it. What holds after every call is that the unsorted part is empty or below its
share, and the sorted part has one record a key at most; `SpaceBound` follows by arithmetic.

**`FaultInv`** (SupermapFaults). The two halves of Supermap's invariant, each under the condition
that it has survived the exceptions so far: `IndexIsExact` unless a drop or an export has
thrown, and `LayersInOrder` unless an export has. A drop that throws may lose entries of RAM but
can not reorder the layers; a collapse that throws leaves a list whose content is the same. A shrink
that returns establishes both again from `TypeOK` alone, and that is why `thrown` may be emptied.

**`FoundIsStored`** (SupermapFaults). `PromiseOfShard` needs one fact that holds while the index is
wrong: it has positions for stored keys only. A call adds its own key to the index and to the data, and
neither a drop that throws, nor a collapse, nor a shrink of the data alone adds another (`FindsNoMore`,
`StoresByAppend`, `StoresByShrink`). When nothing is lost, `FaultInv` makes the index exact, and the
keys found are those stored.

**`Inv`** (CollapsingList). The assertion needs the ranks behind the head to increase strictly
(`TailIncreases`) while the loop runs and everywhere when it does not. A merge of two blocks of
one rank has at most twice the batches of the larger, so that by `Log2Assumption` its rank grows
by at most one and does not overtake the next block. A new head of at most a batch has the
smallest rank. All of this is claimed as long as `failures = 0`: the first failure makes it void,
and `list_assert` shows that it must.

**`TurnCollapses`** (CollapsingList). `RanksIncreaseBetweenAppends` is proved from the loop, and
Supermap's `RanksIncrease` from the closed form `Collapse`; this lemma shows that the two are one. The
closed form merges the longest prefix in which every block has a rank not larger than that of the
merge of those before it. Merging two blocks first gives the same prefixes, each shorter by one
(`TurnPrefix`, `MergeOfFirst`), so that the least depth at which the collapse stops goes down by one
and the result is the same list. It holds of every list that is not empty (`LoopHasHead`), also of
those that merges that threw have left.

**`Inv`** (ShrinkableStorage). Its parts follow the order of the code. `ReadInv`: while the unsorted
part is read, `BatchesIndexPrefix`, and there is a batch (the index of the sorted part). `CopyInv`:
while the records are copied, the merged index is that of the whole data, and what has been copied is
a prefix of `Shrunk` of it. From the replacement on, the unsorted part is empty and the index to be
returned is computed from the new file. An exception at any step throws the temporaries away and
leaves the data as it is, old or new, so that it needs no invariant of its own.

**`Inv`** (SortedFind). `TypeOK`, and the bracket: the item at `firstLeq` is not larger than the
pattern and the item at `lastGt` is (where these are not the ends of the file), so that by the order
of the file no item outside the interval is the pattern.

**`MergeInv`** (SortedMerge, as a part of `MergedFile`). The properties speak of what is written, and
a step depends on what is not: three facts connect them. `ScanInv`: of the files scanned in this
round, none has a front smaller than that of `min`, and no other has the same. `WrittenBelow`: all
keys to come are larger than all written. `PassedIsWritten`: a key that a file has passed is written,
or a newer file has it to come. The last is the delicate one. A duplicate is passed before
the item it duplicates is emitted, and that item may not be emitted in this round either, when a
smaller one is found later in the scan.

**`Inv`** (IndexFiles). The properties speak of the moments between turns; what happens between
them are the steps of a construction and seven of a merge, each of which leaves the folder in a shape of its
own. `DiskInv` names these shapes (`UnderConstruction`: one file more than the list has, under the name
of the new storage; `AfterMerge`, `AfterMove`, `AfterFirstRename`, `AfterSecondRename`, `AfterSwap`,
`AfterUnlink`, and the stages of the destruction). Each says exactly which names exist, which block's
file is in another place, and where the keys of the two merged files are. `Describes` ties a
count and a filter to the set of keys that they were made from, not to a file: the register of a merged
storage is moved to the older block before the contents are swapped, and in the three steps between,
the block is described by a file under another name. `RamInv` says what the RAM manager, which has
swapped at once, holds in the meantime. With these each step is a calculation on finite functions
(`WithFile`, `Restrict`).

**`DialogueInv`** (CommandLine). The invariant `Inv` of the wrappers, and that the value below the
filter, which is that of the last record, is in `known` (`KnownIsRight`). This holds whether the index
of the shard is intact or not, since a call that throws stores its own pair or nothing; an answer is
taken from it when the index is intact. That a real store keeps its records so is `PromiseOfShard`.

**`SizeInv`** (StoreStack). Each shard counts at least the keys that it holds; a key that may be read
is held by its shard, also when the index is not intact. What is left is that the sum of the counts bounds the union of the keys
(`SumBoundsUnion`). The sum is a fold over the set of shards. That the fold exists (`SumsExist`)
and what it bounds are proved by the least counterexample in the number of shards (`LeastNumber`),
since the induction theorems of the library can not be used. Nothing is assumed of the number of
keys.

**`FileInv`** (MergedFile, over `MergeInv`). `BytesInv`: the file begins with the units of the intact
items, and has nothing behind them as long as nothing was lost. `ReaderInv`: the position is
twice the number of items collected, and each of them is what the file has at its place. The
two never move at once: a step of the merge finds the reader closed, since the file is opened when the
constructor has returned (`NextAppends`). Where the units of an item are in what `writeAll` writes is
`SerializedProperties`, by the least counterexample again.

**Only model-checked.** Liveness (`AppendReturns`, `ShrinkEnds`, `FindReturns`, `MergeEnds`) is out
of the prover's reach. All safety and action properties that the passing runs check
have a theorem.

## Not modelled

* Hash functions, the byte layout of keys and values, the messages of exceptions, tests and the
  benchmark: pure functions and wording.
* The builders as objects: what they put together is the initial state of `StoreStack` and
  `IndexFiles`. `KeyValueStorageBuilder::build` moves its store out, so that a second call returns
  null; no caller makes one.
* `rename` of the RAM file manager: only its own test calls it.
* A record whose `append` to the data file is lost in part without an exception. It is counted all
  the same, and every later record then lies before the position that is stored for it (a position
  is a number of records times their size). `MergedFile` has such writes for the file of a merge;
  `Supermap` appends records whole.
* Two blocks of the same random name (`Supermap.hpp:134`), move construction of `TemporaryFile`
  and its move assignment (nothing uses them), counts that wrap.
* The constructor of a sorted storage from an unsorted range (reverse, stable sort, unique): by its
  result only (`LastPosition`, `KeyAt`).
* A filter that is used before it is reserved or reserved twice, which throws: no caller does.

## Plan

The order follows the importance for a user of the store.

1. *Done*: `BlockList`, `DataFile`, `Supermap` and its refinement of `KVStore`; `CollapsingList`;
   `SortedFind`; `SortedMerge`; `ShrinkableStorage`; `SupermapFaults`; `BloomFilter` and
   `IndexFiles`; `RemovableStore` and `StoreStack`; the theorems above.
2. *Done*: the RAM file manager against the disk manager and the destructors, in `IndexFiles`; the
   file of a merge with its readers and writes that are lost, `MergedFile`.
3. *Done*: the command loop with the end of its input, `CommandLine` over `StoreStack`; the stack over
   shards that lose index entries, and `Shard`, which ties it to `SupermapFaults`.
4. *Done*: proofs of every safety invariant, action property and refinement that the passing runs
   check.
5. What is left: nothing that the prover can reach in these modules; liveness stays with the runs.
