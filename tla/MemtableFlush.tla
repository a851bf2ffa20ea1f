---------------------------- MODULE MemtableFlush ----------------------------
(***************************************************************************)
(* The in-memory half of lsm::DB: the writer thread, the two memtables and *)
(* their write-ahead logs, the flusher thread that turns the full memtable *)
(* into a table, the threads that call get, and the destructor that stops  *)
(* writer and flusher.  The control flow of DB::writer, DB::insert,        *)
(* DB::checkAndHandleFlush, DB::memtableFlush, DB::get, DB::search and     *)
(* DB::searchInMemtable is modelled step by step, a step being what runs   *)
(* between two points at which another thread can interfere.               *)
(*                                                                         *)
(* Data.  A write is its sequence number; writes[w] is its key.  A remove  *)
(* is a write whose value is a tombstone: for everything modelled here it  *)
(* behaves as any other write (a get that meets it stops).  A memtable     *)
(* keeps, as the skip list does, one entry per key: the newest write of    *)
(* that key inserted, or 0 when there is none.  All the tables on disk     *)
(* are one function, the newest flushed write of each key; how a search    *)
(* through the levels finds it while compactors run is module Compaction.  *)
(*                                                                         *)
(* Locks.  A lock is held exactly at certain control points, so it is the  *)
(* set of threads that stand at them: see the operators named Holds...     *)
(***************************************************************************)
EXTENDS Integers, Sequences

CONSTANTS Keys,              (* the keys clients use                       *)
          Readers,           (* the threads that call get                  *)
          RING_BUFFER_SIZE,  (* capacity of writer_buffer                  *)
          MaxWrites          (* bound: how many writes clients make        *)

ASSUME ConstantsAssumption ==
  /\ RING_BUFFER_SIZE \in Nat /\ RING_BUFFER_SIZE >= 2
  /\ MaxWrites \in Nat

VARIABLES
  (* what the clients did *)
  writes,                  (* the key of every write accepted by put       *)
  (* the writer thread *)
  writer,                  (* its control point                            *)
  job,                     (* the next write it inserts                    *)
  last,                    (* the last write of its container              *)
  highest_write_completed,
  (* memtables, logs, tables *)
  active,                  (* the index of the active memtable and log     *)
  memtable,                (* index -> key -> newest write inserted        *)
  wal_file,                (* index -> state of the log's FILE handle      *)
  wal_log,                 (* index -> the writes in the log file          *)
  wal_buffer,              (* index -> the writes only stdio has           *)
  tables,                  (* key -> newest write in a published table     *)
  (* the flusher thread and what it shares with the writer *)
  flusher,                 (* its control point                            *)
  built,                   (* the table it is writing                      *)
  start_flush,             (* permits of the semaphore                     *)
  resume_writes,           (* permits of the semaphore                     *)
  inactive_flushing,
  writer_waiting,
  (* the threads in get *)
  reader,                  (* control point of each                        *)
  key, target, result,     (* argument, highest write to wait for, answer  *)
  (* the destructor *)
  main,                    (* its control point                            *)
  run_writer, run_memtable_flusher

writerVars  == <<writer, job, last, highest_write_completed>>
walVars     == <<wal_file, wal_log, wal_buffer>>
dataVars    == <<active, memtable, walVars, tables>>
flusherVars == <<flusher, built>>
syncVars    == <<start_flush, resume_writes, inactive_flushing, writer_waiting>>
readerVars  == <<reader, key, target, result>>
mainVars    == <<main, run_writer, run_memtable_flusher>>
vars == <<writes, writerVars, dataVars, flusherVars, syncVars, readerVars, mainVars>>

highest_write_received == Len(writes)
Empty == [k \in Keys |-> 0]

-----------------------------------------------------------------------------
(* The locks.  Here and below, an operator set apart by a comment that     *)
(* begins with "Mutant" is a deliberately wrong version of the definition  *)
(* after it; no specification uses it.                                     *)

HoldsActiveLockShared(r) ==
  reader[r] \in {"lock_memtable", "search_active", "lock_inactive", "search_inactive"}
WriterHoldsActiveLock == writer \in {"lock_memtable", "insert"}
WriterHoldsActiveLockUnique == writer = "mark"

ReadsActive(r)   == reader[r] = "search_active"     (* active_memtable_lock, shared   *)
WriterInserts    == writer = "insert"               (* active_memtable_lock, unique   *)
ReadsInactive(r) == reader[r] = "search_inactive"   (* inactive_memtable_lock, shared *)
FlusherClears    == flusher = "clear"               (* inactive_memtable_lock, unique *)

FlusherHoldsWriterFlusher == flusher = "wake"       (* the mutex writer_flusher       *)

(* release() on a binary_semaphore: beyond one permit the standard leaves  *)
(* it undefined; an implementation counts on or stays at one.              *)
Released(sem) == IF sem = 0 THEN {1} ELSE {sem, sem + 1}

-----------------------------------------------------------------------------
Init ==
  /\ writes = <<>>
  /\ writer = "consume" /\ job = 1 /\ last = 0 /\ highest_write_completed = 0
  /\ active = 0
  /\ memtable = [i \in {0, 1} |-> Empty]
  /\ wal_file = [i \in {0, 1} |-> IF i = 0 THEN "open" ELSE "null"]
  /\ wal_log = [i \in {0, 1} |-> {}] /\ wal_buffer = [i \in {0, 1} |-> {}]
  /\ tables = Empty
  /\ flusher = "loop" /\ built = Empty
  /\ start_flush = 0 /\ resume_writes = 0
  /\ inactive_flushing = FALSE /\ writer_waiting = FALSE
  /\ reader = [r \in Readers |-> "idle"]
  /\ key \in [Readers -> Keys]
  /\ target = [r \in Readers |-> 0]
  /\ result = [r \in Readers |-> 0]
  /\ main = "running" /\ run_writer = TRUE /\ run_memtable_flusher = TRUE

-----------------------------------------------------------------------------
(* DB::put and DB::remove: the write takes the next sequence number and a  *)
(* slot of writer_buffer, whose slots are the writes not yet consumed.     *)
Put(k) ==
  /\ main = "running"
  /\ Len(writes) < MaxWrites
  /\ Len(writes) - last < RING_BUFFER_SIZE
  /\ writes' = Append(writes, k)
  /\ UNCHANGED <<writerVars, dataVars, flusherVars, syncVars, readerVars, mainVars>>

-----------------------------------------------------------------------------
(* The writer thread.                                                      *)

WriterAt(from, to) == writer = from /\ writer' = to

(* Mutant: consume does not wait for full slots.                           *)
TakenWithoutWaiting == 1..(RING_BUFFER_SIZE \div 2)

(* writer_buffer.consume takes at least one and at most half a buffer of   *)
(* the writes that wait, in order.                                         *)
Taken == {n \in 1..(RING_BUFFER_SIZE \div 2) : last + n <= highest_write_received}

Consume ==
  /\ WriterAt("consume", "append")
  /\ run_writer
  /\ \E n \in Taken : last' = last + n
  /\ UNCHANGED <<writes, job, highest_write_completed, dataVars, flusherVars,
                 syncVars, readerVars, mainVars>>

(* The loop ends at its head or at the test after consume, which drops the *)
(* container it just took: either way no further write is applied.         *)
StopWriter ==
  /\ WriterAt("consume", "stopped")
  /\ ~run_writer
  /\ UNCHANGED <<writes, job, last, highest_write_completed, dataVars, flusherVars,
                 syncVars, readerVars, mainVars>>

(* WAL::append writes to a stdio stream, which passes on to the file any   *)
(* part of what it holds, oldest first.  WAL::flush leaves the rest where  *)
(* it is: its fflush is commented out.                                     *)
AppendLog ==
  /\ WriterAt("append", "lock_active")
  /\ LET held == wal_buffer[active] \union {job} IN
     \E n \in held \union {0} :
       /\ wal_log' = [wal_log EXCEPT ![active] = @ \union {w \in held : w <= n}]
       /\ wal_buffer' = [wal_buffer EXCEPT ![active] = {w \in held : w > n}]
  /\ UNCHANGED <<writes, job, last, highest_write_completed, active, memtable,
                 wal_file, tables, flusherVars, syncVars, readerVars, mainVars>>

WriterLockActive ==
  /\ WriterAt("lock_active", "lock_memtable")
  /\ UNCHANGED <<writes, job, last, highest_write_completed, dataVars, flusherVars,
                 syncVars, readerVars, mainVars>>

WriterLockMemtable ==
  /\ WriterAt("lock_memtable", "insert")
  /\ \A r \in Readers : ~ReadsActive(r)
  /\ UNCHANGED <<writes, job, last, highest_write_completed, dataVars, flusherVars,
                 syncVars, readerVars, mainVars>>

Insert ==
  /\ WriterAt("insert", "check")
  /\ memtable' = [memtable EXCEPT ![active][writes[job]] = job]
  /\ job' = job + 1
  /\ UNCHANGED <<writes, last, highest_write_completed, active, walVars,
                 tables, flusherVars, syncVars, readerVars, mainVars>>

(* checkAndHandleFlush finds the memtable full or not: sizes of keys and   *)
(* values are not modelled, so after any insert it may be either.          *)
CheckSize ==
  /\ writer = "check"
  /\ writer' \in {"test", IF job <= last THEN "append" ELSE "publish"}
  /\ UNCHANGED <<writes, job, last, highest_write_completed, dataVars, flusherVars,
                 syncVars, readerVars, mainVars>>

(* Mutant: a permit the flusher has not taken stands for a pending flush.  *)
MustWaitForPermit == start_flush > 0

MustWait == inactive_flushing

TestFlushing ==
  /\ ~FlusherHoldsWriterFlusher
  /\ IF MustWait
     THEN WriterAt("test", "pause") /\ writer_waiting' = TRUE
     ELSE WriterAt("test", "swap") /\ UNCHANGED writer_waiting
  /\ UNCHANGED <<writes, job, last, highest_write_completed, dataVars, flusherVars,
                 start_flush, resume_writes, inactive_flushing, readerVars, mainVars>>

Resume ==
  /\ WriterAt("pause", "swap")
  /\ resume_writes > 0
  /\ resume_writes' = resume_writes - 1
  /\ UNCHANGED <<writes, job, last, highest_write_completed, dataVars, flusherVars,
                 start_flush, inactive_flushing, writer_waiting, readerVars, mainVars>>

SwapActive ==
  /\ WriterAt("swap", "mark")
  /\ \A r \in Readers : ~HoldsActiveLockShared(r)
  /\ active' = 1 - active
  /\ UNCHANGED <<writes, job, last, highest_write_completed, memtable, walVars,
                 tables, flusherVars, syncVars, readerVars, mainVars>>

MarkFlushing ==
  /\ WriterAt("mark", "signal")
  /\ inactive_flushing' = TRUE
  /\ UNCHANGED <<writes, job, last, highest_write_completed, dataVars, flusherVars,
                 start_flush, resume_writes, writer_waiting, readerVars, mainVars>>

SignalFlusher ==
  /\ WriterAt("signal", "open")
  /\ start_flush' \in Released(start_flush)
  /\ UNCHANGED <<writes, job, last, highest_write_completed, dataVars, flusherVars,
                 resume_writes, inactive_flushing, writer_waiting, readerVars, mainVars>>

(* Mutant: the log of the memtable being flushed is opened again.          *)
OpenInactiveLog ==
  /\ WriterAt("open", IF job <= last THEN "append" ELSE "publish")
  /\ wal_file' = [wal_file EXCEPT ![1 - active] = "open"]
  /\ wal_log' = [wal_log EXCEPT ![1 - active] = {}]
  /\ wal_buffer' = [wal_buffer EXCEPT ![1 - active] = {}]
  /\ UNCHANGED <<writes, job, last, highest_write_completed, active, memtable,
                 tables, flusherVars, syncVars, readerVars, mainVars>>

(* WAL::open creates a file under a fresh number.                          *)
OpenLog ==
  /\ WriterAt("open", IF job <= last THEN "append" ELSE "publish")
  /\ wal_file' = [wal_file EXCEPT ![active] = "open"]
  /\ wal_log' = [wal_log EXCEPT ![active] = {}]
  /\ wal_buffer' = [wal_buffer EXCEPT ![active] = {}]
  /\ UNCHANGED <<writes, job, last, highest_write_completed, active, memtable,
                 tables, flusherVars, syncVars, readerVars, mainVars>>

(* Mutant: the last job of the container is not counted.                   *)
HighestCompletedButOne == job - 2

HighestCompleted == job - 1

PublishCompleted ==
  /\ WriterAt("publish", "consume")
  /\ highest_write_completed' = HighestCompleted
  /\ UNCHANGED <<writes, job, last, dataVars, flusherVars, syncVars, readerVars, mainVars>>

Writer ==
  \/ Consume \/ StopWriter \/ AppendLog \/ WriterLockActive \/ WriterLockMemtable
  \/ Insert \/ CheckSize \/ TestFlushing \/ Resume \/ SwapActive \/ MarkFlushing
  \/ SignalFlusher \/ OpenLog \/ PublishCompleted

-----------------------------------------------------------------------------
(* The flusher thread.                                                     *)

FlusherAt(from, to) == flusher = from /\ flusher' = to

FlusherLoop ==
  /\ FlusherAt("loop", IF run_memtable_flusher THEN "acquire" ELSE "stopped")
  /\ UNCHANGED <<writes, writerVars, dataVars, built, syncVars, readerVars, mainVars>>

AcquireFlush ==
  /\ FlusherAt("acquire", "woken")
  /\ start_flush > 0
  /\ start_flush' = start_flush - 1
  /\ UNCHANGED <<writes, writerVars, dataVars, built, resume_writes,
                 inactive_flushing, writer_waiting, readerVars, mainVars>>

FlusherWoken ==
  /\ FlusherAt("woken", IF run_memtable_flusher THEN "build" ELSE "stopped")
  /\ UNCHANGED <<writes, writerVars, dataVars, built, syncVars, readerVars, mainVars>>

(* Mutant: the memtable the writer fills is written out.                   *)
FlushedActive == memtable[active]

Flushed == memtable[1 - active]

(* SSTableBuilder::flush reads the inactive memtable without a lock.       *)
BuildTable ==
  /\ FlusherAt("build", "add")
  /\ built' = Flushed
  /\ UNCHANGED <<writes, writerVars, dataVars, syncVars, readerVars, mainVars>>

(* Mutant: the new table is put before the older ones.                     *)
TablesWithOldestFirst == [k \in Keys |-> IF tables[k] # 0 THEN tables[k] ELSE built[k]]

(* The new table goes behind the older ones of level 0 and is searched     *)
(* before them.                                                            *)
TablesWithBuilt == [k \in Keys |-> IF built[k] # 0 THEN built[k] ELSE tables[k]]

AddTable ==
  /\ FlusherAt("add", "lock_inactive")
  /\ tables' = TablesWithBuilt
  /\ UNCHANGED <<writes, writerVars, active, memtable, walVars, built,
                 syncVars, readerVars, mainVars>>

FlusherLockInactive ==
  /\ FlusherAt("lock_inactive", "clear")
  /\ \A r \in Readers : ~ReadsInactive(r)
  /\ UNCHANGED <<writes, writerVars, dataVars, built, syncVars, readerVars, mainVars>>

ClearMemtable ==
  /\ FlusherAt("clear", "clear_log")
  /\ memtable' = [memtable EXCEPT ![1 - active] = Empty]
  /\ UNCHANGED <<writes, writerVars, active, walVars, tables, built,
                 syncVars, readerVars, mainVars>>

(* WAL::clear closes the file, into which fclose writes the rest of the    *)
(* buffer, and removes it, but keeps the handle.                           *)
ClearLog ==
  /\ FlusherAt("clear_log", "reset")
  /\ IF wal_file[1 - active] = "null"
     THEN UNCHANGED walVars
     ELSE /\ wal_file' = [wal_file EXCEPT ![1 - active] = "closed"]
          /\ wal_log' = [wal_log EXCEPT ![1 - active] = {}]
          /\ wal_buffer' = [wal_buffer EXCEPT ![1 - active] = {}]
  /\ UNCHANGED <<writes, writerVars, active, memtable, tables, built, syncVars,
                 readerVars, mainVars>>

ResetFlushing ==
  /\ FlusherAt("reset", "wake")
  /\ inactive_flushing' = FALSE
  /\ UNCHANGED <<writes, writerVars, dataVars, built, start_flush, resume_writes,
                 writer_waiting, readerVars, mainVars>>

(* Mutant: the flag that was just reset decides.                           *)
MustWakeIfFlushing == inactive_flushing

MustWake == writer_waiting

WakeWriter ==
  /\ FlusherAt("wake", "loop")
  /\ IF MustWake
     THEN writer_waiting' = FALSE /\ resume_writes' \in Released(resume_writes)
     ELSE UNCHANGED <<writer_waiting, resume_writes>>
  /\ UNCHANGED <<writes, writerVars, dataVars, built, start_flush,
                 inactive_flushing, readerVars, mainVars>>

Flusher ==
  \/ FlusherLoop \/ AcquireFlush \/ FlusherWoken \/ BuildTable \/ AddTable
  \/ FlusherLockInactive \/ ClearMemtable \/ ClearLog \/ ResetFlushing \/ WakeWriter

-----------------------------------------------------------------------------
(* A thread in DB::get.                                                    *)

ReaderAt(r, from, to) == reader[r] = from /\ reader' = [reader EXCEPT ![r] = to]

BeginGet(r, k) ==
  /\ main = "running"
  /\ ReaderAt(r, "idle", "await")
  /\ key' = [key EXCEPT ![r] = k]
  /\ target' = [target EXCEPT ![r] = highest_write_received]
  /\ UNCHANGED <<writes, writerVars, dataVars, flusherVars, syncVars, result, mainVars>>

(* Mutant: a get does not wait for the last write before it.               *)
AppliedButOne(r) == highest_write_completed + 1 >= target[r]

Applied(r) == highest_write_completed >= target[r]

AwaitTarget(r) ==
  /\ ReaderAt(r, "await", "lock_active")
  /\ Applied(r)
  /\ UNCHANGED <<writes, writerVars, dataVars, flusherVars, syncVars, key, target,
                 result, mainVars>>

ReaderLockActive(r) ==
  /\ ReaderAt(r, "lock_active", "lock_memtable")
  /\ ~WriterHoldsActiveLockUnique
  /\ UNCHANGED <<writes, writerVars, dataVars, flusherVars, syncVars, key, target,
                 result, mainVars>>

ReaderLockMemtable(r) ==
  /\ ReaderAt(r, "lock_memtable", "search_active")
  /\ ~WriterInserts
  /\ UNCHANGED <<writes, writerVars, dataVars, flusherVars, syncVars, key, target,
                 result, mainVars>>

(* get returns the entry it found, and with it every lock it holds.        *)
Found(r, w) ==
  /\ w # 0
  /\ reader' = [reader EXCEPT ![r] = "idle"]
  /\ result' = [result EXCEPT ![r] = w]

SearchActive(r) ==
  /\ reader[r] = "search_active"
  /\ LET w == memtable[active][key[r]] IN
       \/ Found(r, w)
       \/ w = 0 /\ ReaderAt(r, "search_active", "lock_inactive") /\ UNCHANGED result
  /\ UNCHANGED <<writes, writerVars, dataVars, flusherVars, syncVars, key, target, mainVars>>

ReaderLockInactive(r) ==
  /\ ReaderAt(r, "lock_inactive", "search_inactive")
  /\ ~FlusherClears
  /\ UNCHANGED <<writes, writerVars, dataVars, flusherVars, syncVars, key, target,
                 result, mainVars>>

SearchInactive(r) ==
  /\ reader[r] = "search_inactive"
  /\ LET w == memtable[1 - active][key[r]] IN
       \/ Found(r, w)
       \/ w = 0 /\ ReaderAt(r, "search_inactive", "tables") /\ UNCHANGED result
  /\ UNCHANGED <<writes, writerVars, dataVars, flusherVars, syncVars, key, target, mainVars>>

SearchTables(r) ==
  /\ ReaderAt(r, "tables", "idle")
  /\ result' = [result EXCEPT ![r] = tables[key[r]]]
  /\ UNCHANGED <<writes, writerVars, dataVars, flusherVars, syncVars, key, target, mainVars>>

Reader(r) ==
  \/ AwaitTarget(r) \/ ReaderLockActive(r) \/ ReaderLockMemtable(r) \/ SearchActive(r)
  \/ ReaderLockInactive(r) \/ SearchInactive(r) \/ SearchTables(r)

-----------------------------------------------------------------------------
(* DB::~DB, run by the owner of the database once no get is in progress.   *)

MainAt(from, to) == main = from /\ main' = to

StopWriting ==
  /\ MainAt("running", "join_writer")
  /\ \A r \in Readers : reader[r] = "idle"
  /\ run_writer' = FALSE
  /\ UNCHANGED <<writes, writerVars, dataVars, flusherVars, syncVars, readerVars,
                 run_memtable_flusher>>

(* Mutant: the flusher is not woken up.                                    *)
StopFlusherSilently ==
  /\ MainAt("join_writer", "join_flusher")
  /\ writer = "stopped"
  /\ run_memtable_flusher' = FALSE
  /\ UNCHANGED <<writes, writerVars, dataVars, flusherVars, syncVars, readerVars, run_writer>>

StopFlusher ==
  /\ MainAt("join_writer", "join_flusher")
  /\ writer = "stopped"
  /\ run_memtable_flusher' = FALSE
  /\ start_flush' \in Released(start_flush)
  /\ UNCHANGED <<writes, writerVars, dataVars, flusherVars, resume_writes,
                 inactive_flushing, writer_waiting, readerVars, run_writer>>

FinishShutdown ==
  /\ MainAt("join_flusher", "close_1")
  /\ flusher = "stopped"
  /\ UNCHANGED <<writes, writerVars, dataVars, flusherVars, syncVars, readerVars,
                 run_writer, run_memtable_flusher>>

(* The members are destroyed in reverse order.  ~WAL closes its handle     *)
(* whatever it is: that of an open file, whose buffer is written, but also *)
(* NULL or one that is closed already, which may return or kill the        *)
(* process and with it the buffer of the other log.                        *)
DestroyLog(i, next) ==
  /\ \/ /\ main' = next
        /\ wal_file' = [wal_file EXCEPT ![i] = "closed"]
        /\ wal_log' = [wal_log EXCEPT ![i] = @ \union wal_buffer[i]]
        /\ wal_buffer' = [wal_buffer EXCEPT ![i] = {}]
     \/ /\ wal_file[i] # "open" /\ main' = "killed"
        /\ wal_buffer' = [j \in {0, 1} |-> {}] /\ UNCHANGED <<wal_file, wal_log>>
  /\ UNCHANGED <<writes, writerVars, active, memtable, tables, flusherVars, syncVars, readerVars,
                 run_writer, run_memtable_flusher>>

DestroyLogs ==
  \/ main = "close_1" /\ DestroyLog(1, "close_0")
  \/ main = "close_0" /\ DestroyLog(0, "destroyed")

Terminated == main \in {"destroyed", "killed"} /\ UNCHANGED vars

-----------------------------------------------------------------------------
Next ==
  \/ \E k \in Keys : Put(k)
  \/ Writer
  \/ Flusher
  \/ \E r \in Readers, k \in Keys : BeginGet(r, k)
  \/ \E r \in Readers : Reader(r)
  \/ StopWriting \/ StopFlusher \/ FinishShutdown \/ DestroyLogs
  \/ Terminated

Spec == Init /\ [][Next]_vars

(* Every thread that can take a step eventually does.  Waiting for a lock  *)
(* that readers keep taking and releasing needs more: std::shared_mutex    *)
(* lets no new reader in while a writer waits, so the exclusive requests   *)
(* are strongly fair, and so are the requests a mutex queues.              *)
Fairness ==
  /\ WF_vars(Writer) /\ SF_vars(WriterLockMemtable) /\ SF_vars(SwapActive)
  /\ WF_vars(Flusher) /\ SF_vars(FlusherLockInactive)
  /\ SF_vars(TestFlushing)
  /\ \A r \in Readers :
       /\ WF_vars(Reader(r))
       /\ SF_vars(ReaderLockActive(r)) /\ SF_vars(ReaderLockMemtable(r))
       /\ SF_vars(ReaderLockInactive(r))
  /\ WF_vars(StopFlusher) /\ WF_vars(FinishShutdown) /\ WF_vars(DestroyLogs)

FairSpec == Spec /\ Fairness

-----------------------------------------------------------------------------
(* Types.                                                                  *)

Writes == 1..Len(writes)
Memtable == [Keys -> 0..Len(writes)]

WriterTypeOK ==
  /\ writes \in Seq(Keys) /\ Len(writes) <= MaxWrites
  /\ writer \in {"consume", "append", "lock_active", "lock_memtable", "insert", "check",
                 "test", "pause", "swap", "mark", "signal", "open", "publish", "stopped"}
  /\ job \in 1..(Len(writes) + 1) /\ last \in 0..Len(writes)
  /\ highest_write_completed \in 0..Len(writes)

DataTypeOK ==
  /\ active \in {0, 1}
  /\ memtable \in [{0, 1} -> Memtable]
  /\ wal_file \in [{0, 1} -> {"null", "open", "closed"}]
  /\ wal_log \in [{0, 1} -> SUBSET Writes] /\ wal_buffer \in [{0, 1} -> SUBSET Writes]
  /\ tables \in Memtable /\ built \in Memtable

SyncTypeOK ==
  /\ flusher \in {"loop", "acquire", "woken", "build", "add", "lock_inactive", "clear",
                  "clear_log", "reset", "wake", "stopped"}
  /\ start_flush \in Nat /\ resume_writes \in Nat
  /\ inactive_flushing \in BOOLEAN /\ writer_waiting \in BOOLEAN
  /\ main \in {"running", "join_writer", "join_flusher", "close_1", "close_0", "destroyed", "killed"}
  /\ run_writer \in BOOLEAN /\ run_memtable_flusher \in BOOLEAN

ReaderTypeOK ==
  /\ reader \in [Readers -> {"idle", "await", "lock_active", "lock_memtable", "search_active",
                             "lock_inactive", "search_inactive", "tables"}]
  /\ key \in [Readers -> Keys]
  /\ target \in [Readers -> 0..Len(writes)]
  /\ result \in [Readers -> 0..Len(writes)]

TypeOK == WriterTypeOK /\ DataTypeOK /\ SyncTypeOK /\ ReaderTypeOK

-----------------------------------------------------------------------------
(* Properties.                                                             *)

(* The control points at which the flusher works on a memtable handed to   *)
(* it, from taking the permit to clearing inactive_flushing.               *)
FlushWindow == {"woken", "build", "add", "lock_inactive", "clear", "clear_log", "reset"}

(* A memtable is handed over to the flusher through at most one of: the    *)
(* writer about to signal, a permit, the flusher at work (DB.cpp:278       *)
(* "only one memtable is flushed at a time").  Neither binary semaphore    *)
(* the two threads share ever holds a second permit before the destructor  *)
(* runs.                                                                   *)
OneHandoff ==
  /\ (main = "running") =>
       /\ start_flush <= 1 /\ resume_writes <= 1
       /\ ~(start_flush = 1 /\ flusher \in FlushWindow)
  /\ writer \in {"swap", "mark", "signal"} => start_flush = 0 /\ flusher \notin FlushWindow

(* The flusher evaluates 1 - active again and again, without a lock: its   *)
(* value never changes while the flusher works (DB.cpp:64).                *)
ActiveStableWhileFlushing ==
  [][(flusher \in FlushWindow) => (active' = active)]_vars

(* An entry leaves a memtable only when a newer write of the key replaces  *)
(* it or when a table that a get can reach already holds it.               *)
ClearOnlyPublished ==
  [][\A i \in {0, 1}, k \in Keys :
       memtable'[i][k] = memtable[i][k] \/ memtable'[i][k] > memtable[i][k]
         \/ tables[k] >= memtable[i][k]]_vars

(* Every write applied to a memtable is superseded or kept by a published  *)
(* table, or it is in a log that was not removed, be it in the file or     *)
(* still in the buffer of its stream: a crash loses the latter and nothing *)
(* else.  When the destructor is done, no buffer holds anything: a         *)
(* memtable that it left unflushed is in the files, unless the process was *)
(* killed by a WAL that closed what was not open.                          *)
Recoverable ==
  /\ main # "killed" =>
       \A w \in 1..(job - 1) :
         tables[writes[w]] >= w \/ \E i \in {0, 1} : w \in wal_log[i] \union wal_buffer[i]
  /\ main = "destroyed" => \A i \in {0, 1} : wal_buffer[i] = {}

(* The writer appends to an open log, opens a log only when its previous   *)
(* file was closed, and the flusher closes an open one.                    *)
LogLifecycle ==
  /\ writer = "append" => wal_file[active] = "open"
  /\ writer = "open" => wal_file[active] # "open"
  /\ flusher = "clear_log" => wal_file[1 - active] = "open"

(* A get that returned found the newest of all writes of its key that were *)
(* accepted before it was called (tester.cpp:246).                         *)
FreshRead ==
  \A r \in Readers : reader[r] = "idle" =>
    \A w \in 1..target[r] : writes[w] = key[r] => result[r] >= w

(* The detailed store implements the abstract one: gets answer as if they  *)
(* looked at a prefix of the accepted writes current during the call.      *)
KV == INSTANCE KVStore WITH
        Clients <- Readers, log <- writes,
        pending <- {r \in Readers : reader[r] # "idle"},
        asked <- key, low <- target, answer <- result
ImplementsKVStore == KV!Spec

(* Every get returns, although writer and flusher keep taking the locks.   *)
EveryGetReturns == \A r \in Readers : (reader[r] # "idle") ~> (reader[r] = "idle")

(* Every accepted write is applied and announced unless the destructor     *)
(* stops the writer first.                                                 *)
EveryWriteCompletes ==
  \A n \in 1..MaxWrites :
    (Len(writes) >= n) ~> (highest_write_completed >= n \/ ~run_writer)

(* Once the destructor started, it stops both threads and ends, or is      *)
(* killed by the logs it closes.                                           *)
ShutdownCompletes == (main # "running") ~> (main \in {"destroyed", "killed"})
=============================================================================
