# Multi-Threaded-LSM in TLA+

This directory holds TLA+ models of the key-value store in `src/`, TLC configurations
that check them on small instances, and proofs, checked by TLAPS, of what matters most
about every part. Line numbers refer to the files under `src/`.

## 1. The system

`lsm::DB` is an embedded log-structured merge store. Clients call `put`, `remove` and
`get` from any number of threads; the store runs one writer thread, one flusher thread
and three compactor threads.

| component | state it keeps | operations | talks to |
|---|---|---|---|
| ring buffer (`RingBuffer.h`) | slots, `in`, `out`, two counting semaphores, the next sequence number | `produce`, `consume`, `stop` | clients produce, the writer consumes, the destructor stops |
| writer (`DB.cpp` 208-286, 331-341) | `highest_write_completed`, which memtable is `active` | append to the log, insert, hand a full memtable over, announce completion | flusher: `start_flush`, `resume_writes`, `inactive_flushing`, `writer_waiting` |
| memtables (`Skiplist.cpp`) | two skip lists with a byte counter | `insert`, `search`, iteration, `clear` | writer, flusher and gets, under three shared mutexes |
| write-ahead logs (`WAL.cpp`) | one file per memtable | `open`, `append`, `flush`, `clear`, `recover` | writer opens and appends, flusher clears |
| flusher (`DB.cpp` 63-117) | - | build a table, publish it at level 0, clear memtable and log, wake writer and compactor 0 | all of the above |
| levels (`DB.h` 44) | per level a copy-on-write list of tables | atomic load and store | flusher and compactors write, gets read without a lock |
| compactors (`DB.cpp` 119-205) | `curr_max_level`, a binary semaphore each, role locks | merge the oldest `COMPACTION_TRIGGER` tables of a level into the next | each other, along the levels |
| tables (`SSTable*.cpp`, `helper.cpp`) | immutable sorted files with a sparse index and a Bloom filter | build, look up, read through, merge | flusher, compactors, gets |
| get (`DB.cpp` 300-388) | - | wait until everything enqueued before is applied, then active memtable, inactive memtable, levels | all of the above |
| destructor (`DB.cpp` 28-61) | - | stop writer, flusher, compactors, in this order | all threads |
| recovery (`DB.cpp` 391-477) | - | rebuild lists and memtables from the directory | files |

What is hard here: five kinds of threads share the memtables and the lists with a
different lock, semaphore or ordering argument for nearly every pair of them; several
reads are deliberately done without a lock ("variable active is not going to change",
`DB.cpp:64`; "no need for lock here", `DB.cpp:278`); wake-ups go through semaphores that
count only to one; entries move from place to place while searches walk the same way;
and tombstones may be dropped only when nothing older is left. `PROJECT.json` lists these
hazards at the lines where they bite, each with the properties that would catch it.

What makes each part correct, in words:

- *get*: it returns the newest write of its key as of some moment between its call and
  its return (no lost, stale or resurrected value), and it returns.
- *handover*: one memtable at a time is on its way to the flusher, and it is not touched
  by the writer meanwhile; an entry leaves memory only after a table has it, and every
  applied write is at any moment in a table, in the file of a log or in the buffer of its
  stream; a paused writer is woken up.
- *ring buffer*: the writes are applied once each, in the order of their numbers.
- *compaction*: no update of a list is lost, the lists stay chronological, tombstones
  are only dropped from the oldest data, no wake-up is lost.
- *search through the levels*: newest first, nothing missed, although the lists change.
- *skip list and tables*: both implement a map from keys to the last entry, a table also
  when it is opened again from its file alone.
- *files*: at any moment the logs and tables hold every write that stdio has passed on;
  what recovery builds from files that are in order (section 2, Recovery) serves exactly
  the newest of these writes.

## 2. The modules

| module | models | main source lines |
|---|---|---|
| `KVStore` | what the public interface promises (abstract) | `DB.cpp` 289-329 |
| `MemtableFlush` | writer, flusher, gets, logs, shutdown of writer and flusher | `DB.cpp` 28-117, 208-388; `WAL.cpp` |
| `MemtableFlush_proofs` | theorems about `MemtableFlush` | - |
| `RingBuffer` | the buffer, its producers, the writer's loop around it | `RingBuffer.h`; `DB.cpp` 208-231 |
| `RingBuffer_proofs` | theorems about `RingBuffer` | - |
| `Compaction` | the lists of the levels, flusher's end, compactors, searches | `DB.cpp` 81-112, 119-205, 369-388 |
| `Compaction_proofs` | theorems about `Compaction` | - |
| `SkipList` | the memtable's data structure and its byte counter | `Skiplist.cpp` |
| `SSTable` | builder, file, reader, Bloom filter, merge loop | `SSTableBuilder.cpp`, `SSTableReader.cpp`, `SSTableMerger.cpp`, `helper.cpp` |
| `Recovery` | logs, stdio buffers and table files over several lives: crash, destructors, `DB::recover` | `DB.cpp` 28-205, 331-341, 391-477; `WAL.cpp`; `helper.cpp` 65-92 |
| `LSMStore` | the whole path of a write and of a get, from `put` to the deepest level | `DB.cpp` 63-205, 257-388 |
| `LSMStore_proofs` | theorems about `LSMStore` | - |
| `SkipList_proofs` | theorems about `SkipList` | - |
| `SSTable_proofs` | theorems about `SSTable` | - |
| `Recovery_proofs` | theorems about `Recovery` | - |
| `DataLemmas` | lemmas about numbers: least and greatest elements, induction, division | - |
| `MC*` | instances for TLC | - |

The modules cut the system at interfaces, and each states what another takes for granted:

- `MemtableFlush` lets the writer take the accepted writes in order, a few at a time.
  `RingBuffer!AppliedInOrder` is the justification.
- `MemtableFlush` keeps all the tables as one map, the newest flushed entry of each key.
  `Compaction!SearchMeetsAllInOrder` justifies it: a search through the lists answers
  like that map although compactors rearrange them.
- `Compaction` knows a table by the set of flush generations it holds, and a merge by the
  union. `SSTable!MergeAnswersAsInputs` and `LookupsAreExact` justify that.
- `MemtableFlush` takes a memtable for a map. `SkipList!SearchFindsLastInsert` justifies
  it for every key but the empty one (see section 6).
- `LSMStore` puts `MemtableFlush` and `Compaction` together again, with steps as coarse as
  these two justify: a handover is one step (`OneHandoff`), and so is the replacement of
  a list (`NothingLost`). It has entries of keys where `Compaction` has generations, so
  that a lost or resurrected value shows as such.
- `Recovery` takes from `Compaction` that a compactor removes from a list what it merged
  (`RemovesWhatItMerged`), and from `SSTable` that a file opened again answers as the one
  written (`LookupsAreExact`).

### MemtableFlush

A step is what a thread does between two points at which another can interfere; the
control point of a thread is a variable (`writer`, `flusher`, `reader[r]`, `main`) whose
values are named for what the thread does next. A lock is not a variable: it is held
exactly at some control points, so the operators `HoldsActiveLockShared`, `WriterInserts`,
`FlusherClears`, ... define it, and an acquiring step has the absence of conflicting
holders as its guard. A write is its sequence number and `writes[w]` its key; a remove is
a write like any other, as a get stops at a tombstone as it stops at a value. Sizes are
not modelled: after any insert the memtable may be full (`CheckSize`), which includes
whatever the byte counter makes of it. `release()` on a binary semaphore that already has
its permit is undefined; `Released` allows both outcomes implementations have (the count
goes on, or stays at one).

A log is what its file has (`wal_log`) and what only its stdio stream has (`wal_buffer`).
After each append any prefix of the buffer may have gone to the file, and the rest stays:
`WAL::flush` has its `fflush` commented out (`WAL.cpp:40`). `fclose` writes the rest, in
`clear` and in `~WAL`. The destructor ends with the two logs, the second first
(`DestroyLogs`); a WAL that closes `NULL` or a handle closed before is undefined
behaviour, and either nothing happens or the process is killed and the buffers with it
(`main = "killed"`).

| action | code |
|---|---|
| `Put` | `DB.cpp` 289-298 with `RingBuffer::produce` |
| `Consume`, `StopWriter` | 211-216 |
| `AppendLog`, `WriterLockActive`, `WriterLockMemtable`, `Insert` | 331-338 |
| `CheckSize`, `TestFlushing`, `Resume`, `SwapActive`, `MarkFlushing`, `SignalFlusher`, `OpenLog` | 257-286 |
| `PublishCompleted` | 223-227 |
| `FlusherLoop` ... `WakeWriter` | 66-105 |
| `BeginGet`, `AwaitTarget` | 318-326 |
| `ReaderLockActive` ... `SearchInactive` | 345-367 |
| `SearchTables` | 375-387 |
| `StopWriting`, `StopFlusher`, `FinishShutdown` | 30-46 |
| `DestroyLogs` | `~WAL` (`WAL.cpp` 9-12) of `wal_log[1]`, then of `wal_log[0]` (`DB.h` 51) |

Memory is sequentially consistent in all models. The atomics are partly `relaxed`
(`highest_write_completed`): what a get reads after it is protected by the shared mutexes
it takes next, so the model's interleavings are those of the program as far as the
properties can tell, but this step of the argument is not machine-checked.

### RingBuffer

`BeginPut`, `AcquireEmpty`, `LockProducer`, `NumberItem`, `StoreItem` and `ReleaseFull`
are the lines of `produce`; `AcquireFull`, `CheckStop`, `TakeItem`, `TryMore` and
`GiveBack` those of `consume`. An item is its number and a slot whose item was moved out
is 0. `try_acquire` may fail although there is a permit, as the standard allows. The
extra permit that `stop` releases is modelled, and with it the consume that takes it and
moves out of an empty slot: the container is dropped because `run_writer` was cleared
first, which is what `AppliedInOrder` and `NeverAppliesNothing` depend on.

### Compaction

Loading a list, editing a copy and storing it are separate steps of flusher and
compactors; which mutex covers which of them is as in the code (a level inside a
compactor's own range has none). A table is the set of flush generations it holds, with
the set of those whose tombstones it dropped (`purged`). A search visits one table per
step and remembers what it met.

### SkipList

Nodes are records in a sequence, with a function of next pointers per node; the level of
a new node is any. `Put` is what `DB::put` and `DB::remove` insert, and since `put` has a
public parameter `tombstone` (`DB.h:134`), a tombstone may come with a value. `updateVal`
leaves the old value where it is when it writes a tombstone, and subtracts its size once
more at the next write of the key; `constructNode` counts the value of a tombstone that it
does not store. `byte_counter` has `WordBits` bits. `entries` and `miscounted`, which adds
up these two drifts, are history variables.

### SSTable

A file is the sequence of entries, bookmarks, words of the filter and two offsets that
the builder writes (`File`); `Opened` finds its way back from the end, as
`mmapAndFillIndex` does. The two constructors of the reader differ in the filter: the one
that recovery uses takes it, and its size, from the file. Offsets count entries where the
code counts bytes. The number of a bit is computed in 64 bits and cast to `uint32_t` before
the filter uses it (`Bits`, with `HashWidth` for the 32): of the filters of levels 4 to 7,
which have 2^33 to 2^39 bits (`DB.cpp` 11-16), only the first 2^32 bits are ever set or
asked for. That costs memory and false positives, and no lookup its answer. The merge
loop is modelled table by table (`Examine`), with the slot of each input and the index of
the smallest.

### Recovery

The state is what a crash leaves (`logs`, `sstables`) and what it takes (everything
else). A record goes to the buffer of a stdio stream (`Write`); stdio passes it on when
it likes, whole or in part (`Spill`), and all of it when the file is closed. `WAL::flush`
appears in no action: `fsync` without `fflush` moves nothing from the stream's buffer.
A crash is one of the process: what the kernel has is kept.

| action | code |
|---|---|
| `Write`, `Swap`, `OpenLog` | `DB.cpp` 331-341, 257-286 |
| `CreateTable`, `FinishTable`, `AddTable`, `CloseLog`, `RemoveLog` | 63-117 |
| `StartMerge` ... `RemoveInputs` | 119-205 |
| `Unlink` | `~SSTableReader` (`SSTableReader.cpp` 10-14) |
| `Stop`, `Destroy` | `DB.cpp` 28-61, `~WAL` |
| `Start`, `RecoverTables`, `RecoverLogs`, then `Swap`, `OpenLog`, `RecoverSecond` | 5-20, 391-477 |

`fclose` of a handle that is `NULL` or already closed is undefined: it happens at every
orderly end before the first handover, and after a flush whose slot was not opened again.
`BadClose` has the two outcomes a build can produce: it returns, or it kills the process,
which then ends as in a crash. A record cut short is decoded as some key with a value
nobody wrote (`Junk`). The path of a log and the handle of a log are two variables, since
recovery sets one and not the other.

A number that recovery gives out again (condition 5 below) goes to the first table of the
new life. When a table of level 0 has that number, two readers have one name: the flush
truncates the file, and when a merge is done with the first reader, its destructor unlinks
the file under the second. `mapped` keeps what the second still reads then.

What `DB::recover` builds is right only when the files are in order, which the code does
not ensure. It recovers whatever it finds, and so does the model: no step depends on
`InOrder`, which states when the files are in order. The history variable `trusted` says
whether they were whenever a life ended, and is the antecedent of `ServesNewest`:

1. of two logs the older one comes first as a string, and neither is number 1;
2. no log ends within a record;
3. no log is older than what other files have on top of it (a log left by an earlier
   recovery, or one whose newer records were in the buffer when the table that has them
   was published);
4. the inputs of a merge were unlinked from the oldest on;
5. the highest number of a table is not that of a table of level 0.

`ServesNewest` says nothing of a store that was recovered from files of any other kind,
and could not: without any one of these conditions it fails, as taking out each in turn
showed (for the order of strings with `Radix` = 3). The code loses writes or brings old
ones back then. `DB.h:20` says so in general ("Consider Recover to be non-functional"),
and so the list is the list of what recovery would have to mend, and the hazards that
belong to it are listed in `PROJECT.json` with a note and no property. `RecoveryTest`
is without the antecedent, and fails.

### LSMStore

One step for a handover, one for each replacement of a list, one for each place a get
looks at. Every level has a compactor of its own, which allows more interleavings than
the program's three. A merge computes its table from real entries, tombstones included.

### Operators named "Mutant"

An operator behind a comment that begins with "Mutant" is a wrong version of the
definition after it: the bug that a slip in that line of code would be. No
specification uses it. With the mutant in place of the right definition each property
fails, which shows that it can.

## 3. What is checked

| run | instance | what it shows |
|---|---|---|
| `flush_safety` | 2 keys, 1 reader, 4 slots, 3 writes; 1.7 million states | `TypeOK`, `OneHandoff`, `Recoverable`, `LogLifecycle`, `FreshRead`, `ActiveStableWhileFlushing`, `ClearOnlyPublished` |
| `flush_refinement` | 1 key, 2 readers, 2 slots, 3 writes | `MemtableFlush` implements `KVStore` |
| `flush_liveness` | 1 key, 1 reader, 2 writes | `EveryGetReturns`, `EveryWriteCompletes`, `ShutdownCompletes` |
| `ring` | 2 producers, 4 slots, 7 writes | `AppliedInOrder`, `NoSlotIsShared`, `NeverAppliesNothing`, `EveryPutReturns`, `EveryNumberIsApplied`, `WriterStops` |
| `compaction_tables` | 2 compactors, levels 0-3, batches of 2, 8 flushes | `NothingLost`, `Chronological`, `RemovesWhatItMerged`, `PurgeOnlyOldest`, `NoLostWakeup` |
| `compaction_search` | as above, levels 0-2, 6 flushes, 1 search at a time; 3.5 million states | `SearchMeetsAllInOrder` |
| `compaction_liveness` | levels 0-2, 5 flushes | `LevelsShrink`, `StoppedCompactorEnds` |
| `skiplist` | 3 keys with the empty one, 2 values, 2 levels, a counter of 2 bits, tombstones with and without a value; 330 thousand states, no bound on the number of operations | `TowersAreSorted`, `SearchFindsLastInsert`, `CounterFollowsContent` |
| `sstable` | all triples of tables over 3 keys, blocks of 2, a filter of 16 bits of which a cast to 3 bits leaves 8, and keys that collide by it; 650 thousand states | `MergeKeepsYoungest`, `LookupsAreExact`, `MergeAnswersAsInputs` |
| `recovery` | 1 key, levels 0-1, batches of 2, 3 lives, 1 crash and 3 writes, or 2 lives and 4 writes, any files; 2.3 million states | `TypeOK`, `ServesNewest`, `DataOnDisk` |
| `lsmstore` | 2 keys, 1 reader, levels 0-2, batches of 2, 4 writes; 3.3 million states | `FreshGets` |
| `recovery_test` | 2 keys, 2 writes, 2 lives, no crash, any files | `RecoveryTest` is violated |

The passing runs found no property violated. `recovery_test` asks what `recovery_test` in
`tester.cpp` asks, and shows how it fails without any crash: two writes, with a handover
between them; the process ends before the flusher has begun, leaving `wal_0.log` and
`wal_1.log`; the next process reads the first, opens `wal_1.log` for writing in
`checkAndHandleFlush(true)`, and then reads the second, which is now empty. `DB.h:20`
says "Consider Recover to be non-functional".

Bounds, and why they are enough for the interesting cases:

- `MaxWrites`: a swap can follow every insert, so three writes give up to three handovers;
  two are enough for the writer to find the flusher busy and pause and for the indices to
  be back where they began, three for it to pause while the other log is being cleared, and
  for a slot to be opened, cleared and opened again.
  With a ring of four slots containers of one and of two writes both occur. In the
  liveness run two writes still reach the pause, which is the only place where the writer
  can wait for another thread besides the locks.
- ring: with N = 4 a batch has up to two items; seven writes wrap both indices, with the
  buffer full and empty at several of their positions, and leave room for a second wrap
  to begin. Two producers meet at every semaphore and at the mutex.
- `MaxFlushes`: with batches of two, eight flushes fill level 0 four times, level 1 twice
  and reach level 3; the second compactor then has a level of its own, a boundary with
  the first one and a deeper level, which are the three cases of the code. The third
  compactor of the program is like the second seen from the first.
- skip list: with three keys there is always a node before, at and behind the one that is
  inserted; with two levels a tower may or may not be visible from above.
- recovery: three writes give up to three logs and three tables, so that level 0 is
  merged and a tombstone is purged while a log is left; three lives are needed for a log
  that one recovery leaves and the next one reads. One life ends in a crash and one in
  order, or both in order. Two logs above number 1 with records in both, and a second
  merge of level 0, need a fourth write; `LastWriteBound` (in `MCRecovery`) allows it
  in a first life that is followed by one recovery, as all bounds at once are too many
  states. File names count in a radix of 4 instead of 10, so that the step from one digit
  to two is in reach. Keys do not interact but through the presence of files. The
  theorems of section 4 hold without the bounds.
- store: four flushes with batches of two fill level 0 twice and reach level 2, so that a
  tombstone can be merged above an older value and at the deepest level; 1 key with 5
  writes was checked as well. A merge that purges one level too early is found
  (`PurgesAbove`), as is a get that skips a memtable.
- tables: with three inputs a key can be in any subset, and the merge's inner loop has a
  first, a middle and a last table. `remove_tombstones` takes both values.

Deadlock is checked in every run; the self-loops `Terminated` are the states in
which the destructor has finished or was killed, the merge has, or no further life of the
process is explored.

Fairness: weak fairness of each thread, since the operating system schedules every
runnable thread. Requests for locks that others keep taking have strong fairness: for the
exclusive side of a `std::shared_mutex`, which lets no new reader in while a writer waits
in the implementations the program is built with, and for plain mutexes and the ring's
semaphores, whose waiters are queued; the program itself does nothing to starve a
waiter. Clients need not do anything: `Put`, `BeginGet`, `BeginPut`, `BeginSearch` and the
destructor's first step have no fairness, and neither has the start of a flush.

## 4. What is proved

Each proof module holds for all values of the constants that `ConstantsAssumption` of its
model allows, and assumes nothing else. The theorems meant for a reader are listed in
`PROJECT.json`. None of the invariants they state is inductive, or is provable
from the others alone: each module has one that is inductive (`Inv`, and `SInv`, `MInv`,
`IInv` in the modules about data), proved so in its theorem `Invariance`, and the listed
theorems follow from it. Its parts are the argument one would give in a review.

### MemtableFlush

For any set of keys, any number of readers, any ring of two slots or more and any bound
on the writes:

- `TypeCorrect`, `HandoffIsUnique`, `LogsFollowTheirLifecycle`,
  `AppliedWritesAreRecoverable`, `GetsAreFresh`: the invariants of `flush_safety`;
- `ActiveIsStable`, `ClearedEntriesArePublished`: its two action properties;
- `Refinement`: every behaviour is one of `KVStore` under the mapping in `MemtableFlush`.

The parts of the invariant:

- `HandoffInv` says where the baton is. From the swap on it is with the writer
  (`mark`, `signal`), then it is the permit of `start_flush`, then the flusher has it
  until `reset`; `inactive_flushing` is true exactly meanwhile. A paused writer is
  registered in `writer_waiting` or already has its permit. This is what makes the
  unlocked reads of `active` harmless.
- `LogInv`: until the destructor closes them (`Closing`), the active log is open except
  between a swap and `OpenLog`, and the other one is open exactly while its memtable waits
  or is being flushed.
- `StoreInv` has four parts: entries are applied writes of their key (`EntryInv`); the
  newest applied write of a key is in the active memtable, else in the inactive one, else
  in the tables (`CoverInv`); the active memtable is newer than the inactive one and that
  one newer than the tables (`OrderInv`); and what the flusher built is the
  inactive memtable, published before it is cleared (`FlushInv`).
- `LoggedInv`: an applied write is in a table or in a log (its file or its buffer), and
  what a log has is in the memtable of the same index or in a table, so that a log may
  go when its memtable is empty.
- `ReaderInv`: a reader past a place it found empty still has all that it must see in
  front of it. The delicate case is the flusher that publishes and clears
  while the reader has seen only the active memtable: `FlushInv` and the order
  "publish, then clear" carry it.

For `Refinement` the only steps that do not stutter are `Put`, `BeginGet` and the three
ways a get returns; `ReaderInv` provides the length of the prefix of writes for which the
answer is the newest.

### RingBuffer

For any set of producers, any capacity of one slot or more and any bound on the writes:
`TypeCorrect`, `WritesAreAppliedInOrder`, `SlotsAreNotShared` and `NothingIsAppliedEmpty`,
the invariants of `ring`.

The argument counts. `Stored` items were put into slots and `Consumed` items were taken
out; both are functions of the state (`sequence_number`, what was applied, the container).
`PermitInv` says that each semaphore is what these two numbers leave, corrected by the
threads that are between two steps, so a producer about to store has
`Stored - Consumed < N` and the writer about to take has `Stored > Consumed`. Since
`produce` and `consume` have no lock in common, this is all that keeps them apart.
`SlotInv` turns it into places: item `k` is `k - Consumed - 1` slots after `out`, wrapped
once, and every other slot is empty. `OrderInv` then says that what the writer takes
continues what it has applied. `CallInv` bounds the numbers by the calls, and
`StopInv` says why the counts may be given up once the destructor has released a permit
without an item: no put is in progress then, and what the writer takes is dropped.
`HoldingSlot` and `Unnumbered` are finite sets by invariant, so that the number of
producers need not be assumed finite.

### Compaction

For any number of compactors, levels (at least as many) and searches, any trigger of two
or more and any bound on the flushes:

- `TypeCorrect`, `NoTableGetsLost`, `ListsAreChronological`, `ErasesWhatItMerged`,
  `PurgesAreSafe`, `PermitsAreNotLost`, `SearchesAreComplete`: the invariants of
  `compaction_tables` and `compaction_search`;
- `MaxLevelGrows`: `curr_max_level` never goes back, although it is compared in one step
  and stored in another by several threads. It follows from `DepthInv`; no run repeats it.

The parts of the invariant, each of which rests on those before it:

- `LevelInv`: which levels a compactor is on at which control point; two working
  compactors are never on the same one. `LockInv`: whoever is about to store an appended
  list excludes whoever is about to store a shortened one, where their levels meet.
- `CopyInv`: a copy that is about to be stored is still the current list plus its own
  change. This is the lost update in one formula; `LockInv` keeps it at shared levels, and
  `LevelInv` at those inside a compactor's own range, which have no lock.
- `FilesInv`, `MergedInv`: the tables being merged are the oldest of their list, and the
  merged table has their generations. Others only append meanwhile.
- `DepthInv`: no level below `curr_max_level` has a table, except the first table of the
  next level while the compactor that put it there has not written the new value yet.
  Without it "this is the deepest level" (`DB.cpp:150`) could be a stale answer.
- `CoverInv`, `OrderInv`, `FlightInv`: every published generation is in a table that is
  not an input whose output is in place; those tables are in order; below the inputs of
  such a merge a table has all of their generations or none, and nothing newer.
- `PurgeInv`: a table that dropped tombstones of a generation has all older ones, also
  before it is published. From `DepthInv`, `CoverInv` and `OrderInv`.
- `NoLostWakeup` is inductive with `LockInv` and `CopyInv`.
- `ReaderInv` (`Searching`): of the generations that were published when the search
  began, each one not met yet is in what is left of the list the search has loaded, or in
  a list from the next level down, and whatever is met before is newer. A table moves
  down only by being in the deeper list before it leaves the upper one, which is why a
  search that goes down can meet it twice and never miss it.

### LSMStore

For any sets of keys and of gets, any number of levels, any trigger of two or more and any
bound on the writes: `TypeCorrect`, and `GetsAreFresh`, the property of `lsmstore` and the
promise of the store as a whole. A get returns what was the newest write of its key at
some moment between call and return, or nothing if that was a tombstone, while any number
of handovers, flushes and merges move that key and may drop the tombstone for good.

The argument follows a search. `Serves(k, l, x)` says that a search for `k` from level `l`
on would, in this state, answer as if it found `x`: it finds `x`, or finds nothing and `x`
is a tombstone.

- `EntryInv`: what any place has under a key is a write of that key.
- `DepthInv`: a merge has its inputs, and no list below `curr_max_level` has a table but
  for one that its compactor has just put there.
- `MergeInv`, `FlightInv`: a merged table has what comes first in its inputs, unless that
  is a tombstone with nothing below (`DepthInv` gives that at the deepest level, and no
  later step puts anything there while the merge is under way); once it is in place a
  search that would have met an input is served from the next level on. So the lemma
  `FindsStep`: a step keeps what a search from level `l` serves, unless it puts a
  table exactly at level `l`.
- `CoverInv`: the newest applied write of a key is in the active memtable, else in the
  inactive one, else a search from level 0 serves it; `FlushInv`: when the inactive
  memtable is cleared, a search from level 0 serves all it has.
- `ReaderInv` is about a get with target `n`, where `v` is the newest write of its key
  among the first `n`. Nothing in the places behind it is older than `v`, so whatever
  comes from there into the places ahead is not older either; ahead of it a search finds
  something not older than `v`, or nothing, and then a tombstone was the newest at a
  moment since the call (`Ahead`). Of the list it has loaded, what is left has this,
  or the levels below do.

Freshness does not need the loaded list to be current, nor the tables of a level to be
replaced in one step with those of the next: it needs that a table is put at the lower
level before its inputs are erased, that a get reads a level's list only after it has left
the level above, and that a tombstone is only dropped when every level below is empty.

### SkipList

For any set of keys (ranks, the empty one 0), any values, any highest level and any width
of the counter (that `2^WordBits` is a positive number is assumed, since the provers do
not know powers): `TypeCorrect`, `Sorted`, `FindsLastInsert` and `CounterIsRight`, the
invariants of `skiplist`.

- `Structure`: no two nodes have the same key, and `TowersAreSorted`.
- `Contents`: a node that is not a tombstone has a value, no two nodes share one, and a
  node has what was last inserted under its key (the history variable `entries`).
- `CounterFollowsContent` as it is.

`getPredecessors` is a recursive walk. What it returns is fixed without following it: on a
level there is exactly one node before the key whose next node is not (`LastExists`,
`LastIsUnique`), and the walk can only end at such a node (`WalkEnds`: keys grow
along the walk, so that of the nodes from which it failed the last would have a later one;
`PredecessorsAreLast`, by induction over the levels). The rest of the proof uses that
property and not the walk. For the counter,
`SumOf` of a sequence in which one element changes is shown to change by the same amount
(`SumOfUpdate`), and that `%` may be applied at each step or once at the end (`ModAdd`).

### SSTable

For any finite set of keys, any number and contents of tables, any size of block, any
filter size that is a power of two and a multiple of the word, any width of the cast that
a bit's number goes through, and any two hash functions: `TypeCorrect`, `KeepsYoungest`,
`LookupsExact` and `AnswersAsInputs`, the invariants of
`sstable`.

- A file: `WellBuilt` says what a builder has written so far (ascending entries, an index
  that begins with the first entry, ascends and leads to entries of its keys, and a filter
  that has the bits of every key).
  `WriteEntryKeeps` shows that a builder stays so, `FlushBuilds` that a memtable's copy is;
  `OpenedFacts` that the file is found again from its two offsets at the end, and that the
  filter packed into words comes back as it was; `FindKeyIsExact` that filter, binary
  search of the index and walk through one block then find a key exactly if it is there.
- A merge: `RoundInv` is about the loop over the tables (no table that was looked at has
  anything before the smallest entry known, and an equal key only in the same place);
  `YoungerRemain` says that no entry is merged before the older ones of its key;
  `MergedInv` says that what was written is the youngest entry of each key that survives
  and is not pending, and comes before all that is pending.

That `word_size` divides `table_size` is what makes `table_size / word_size` words enough
(`helper.cpp` 138-208), and holds of the sizes that the code computes.

### Recovery

For any keys, any number of levels, any trigger of two or more, any radix of the numbers
in file names, either outcome of a bad `fclose`, and any bound on writes, lives and
crashes:

- `DataStaysOnDisk`: `DataOnDisk`;
- `NewestIsServed`: `ServesNewest`, in the first life and after any number of recoveries
  for as long as the files were `InOrder` whenever a life ended (`trusted`). That is a
  condition in the property and not on the steps: recoveries from other files are steps
  of `Spec`, and after one of them the theorem promises nothing. It could not:
  `recovery_test` and section 6 show what the code does then;
- `TypesHold`: `TypeOK`, under the same condition or in the first life.

The invariant `IInv` says that `AllInv` holds in the first life and as long as `trusted`.
The parts of `AllInv`, besides types:

- `FreshInv`: a process that has not read its logs has what `FreshMemory` gave it.
- The tables. `CounterInv`: the next number is new; right after a recovery it may be that
  of a table below level 0, until the first flush has taken it. `ListInv`: lists ascend,
  every file is in a list, doomed, or being written; the doomed of a level are its oldest
  and those being written its youngest. `OutputInv`: what a flush or a merge has written
  is what it read. `PurgeInv`: a purging merge has nothing below it. `RemovedInv`: once
  the output of a merge is in its list, a search from there on answers what the inputs
  would. `DoomedInv`: as long as the tables of a level are unlinked from the oldest on,
  those that are left answer no search differently (hence condition 4).
- The logs. `LogInv`: the records of an older log are older, nothing is twice in the logs
  and buffers, and what is there was not lost. `FileInv`, `PathInv`: which handle is open when, and
  that the path a flusher will remove is not that of the other open log. `Log2Inv`: the same between
  the two logs of a recovery, where a path is missing.
- `MemInv`: a memtable has the newest record of its log for each key. `ServeInv` is the
  property, with the second log still to be read counted in. `NextInv`: what is newer than
  the memtable being flushed is in the log that follows.
- `DurableInv`: if no log that stays has anything of a key, the tables answer with the
  newest write that has left the buffers. This is what both theorems about data rest on:
  a crash leaves exactly the logs that stay, and a recovery asks the tables exactly for
  keys the logs do not have. `FirstInv` makes it enough for `DataOnDisk`: in the first
  life no log is older than a flushed memtable.
- `DownInv`: what `InOrder` says of the files between two lives, turned into what
  `RecoverTables` and the reading of the logs need; `DiskInv` keeps `DataOnDisk` then.

An end of a life takes `DurableInv` to `DownInv` (`LiveEndStep`), a recovery takes it back
(`OneLog`, `TwoLogs`, `RecoverSecondStep`); `SortsBeforeIsStrict` shows from the recursive
`Digits` that no two logs each come before the other as strings.

The proof found one error in the model: `TypeOK` used to demand the file of a merge's
output as long as the merge was not idle. That holds on the checked instance, but a
compactor of the next level can merge and unlink that very table before the first merge
has removed its inputs, which
needs a third level and more writes than the instance has. `TypeOK` now demands it until
the table is in its list. The code does nothing wrong there: it no longer uses the file.

### What stays with TLC

- Liveness (`EveryGetReturns`, `EveryPutReturns`, `EveryNumberIsApplied`, `WriterStops`,
  `EveryWriteCompletes`, `ShutdownCompletes`, `LevelsShrink`, `StoppedCompactorEnds`): it
  rests on fairness and `ENABLED`, which none of the installed provers treats.
- `RecoveryTest`, which does not hold.

Every safety property of a passing run is proved. Where a definition is recursive (a
function of numbers or of nodes), its proof goes by induction over a set of numbers
(`DataLemmas`): the provers cannot instantiate the library's induction theorems, which
take a predicate, but a set of the numbers for which it holds does as well.

## 5. What is not modelled

- A crash of the machine: files have what was written to them, synced or not, and a
  table is whole once it is written.
- A crash or an orderly end while a failed recovery is under way, and what a client sees
  of the exceptions that end the constructor (state "failed").
- Byte layouts (`encode`, `decode`, table files, arena), MurmurHash, wording, timing.
- Failing system calls, which throw out of a thread and end the program.
- What `mmapAndFillIndex` makes of a file cut short: an empty one fails to open, and of a
  longer one the last bytes are taken for offsets. Both are the state "failed".
- What a search sees of a file that is truncated under its mapping, which happens only
  when a number is given out twice (condition 5 above).

## 6. Observations

The one finding is `RecoveryTest`, above. None of the following contradicts a statement
in the repository; a maintainer may want to know them.

- A write is announced as completed while it is in a stdio buffer only, so that a crash
  loses it: the newest writes, and of a memtable whose flush has not begun as well.
- Worse, a crash between the publication of a table and the removal of its log
  (`DB.cpp:88` to 96) can take an overwritten value back: the log's file has the older
  record, the newer one is in the table, and recovery puts the log on top.
- Once recovery has read two logs, neither number 1, the files of both stay for good, and
  `wal_1.log` and later logs join them: the next recovery finds three or more and throws.
- A crash between the creation of a table file and its last write leaves a file that the
  next recovery cannot open. One between `RemoveLog` and the writer's `OpenLog` leaves no
  log at all, and `wal_files[0]` is out of range.

- `start_compactor` may be released while it has a permit (`DB.cpp` 111, 133, 200), and
  `start_flush` at shutdown while a flush is pending (`DB.cpp` 42). The standard leaves
  that undefined; with either outcome the properties hold.
- A clean shutdown drops writes that were accepted and not consumed, and the container
  just consumed. A pending flush is abandoned; its memtable survives in the log
  (`Recoverable`), unless a bad `fclose` ends the process first: `~WAL` of a log that was
  never opened, which precedes that of `wal_log[0]`, calls `fclose(NULL)`.
- Freshness does not need `active_lock` to be held from the first memtable to the second:
  `FlushInv` shows what does the work.
- The byte counter subtracts the size of a value hidden by a tombstone again at each later
  write of the key, and can wrap below zero, which triggers a flush of a small memtable.
  The other way round, `put(k, v, true)` of a new key counts `v`, which is not stored.
- The filters of levels 4 to 7 are allocated with 2^33 to 2^39 bits, of which the cast to
  `uint32_t` (`helper.cpp` 165, 178, 189) leaves the first 2^32 in use.
- The empty key is lost when it is the first key put into an empty memtable.
- `curr_max_level` is compared and stored in two steps by three threads; levels are
  reached in order, so that the late store changes nothing that matters
  (`PurgeOnlyOldest`).

## 7. State of the project

All components of section 1 are modelled, all safety properties of the passing runs are
proved for every value of the constants, and liveness is model-checked. Hashing
(`MurmurHash3`) and the test harness are not modelled. What could come next: that
`LSMStore` is implemented by `MemtableFlush`, `Compaction`, `SkipList` and `SSTable`
together, which today is an argument in words (section 2) about properties that are each
proved; and what the second life would need for `DataOnDisk` to hold in it too.
