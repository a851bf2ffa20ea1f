------------------------- MODULE MemtableFlush_proofs -------------------------
(***************************************************************************)
(* Proofs about MemtableFlush, for every set of keys and of readers, every *)
(* capacity of the ring buffer and every number of writes.                 *)
(*                                                                         *)
(* Inv is the inductive invariant.  Its parts are, in the order in which   *)
(* they rest on each other: types and the writer's progress through its    *)
(* container (TypeInv), the protocol by which writer and flusher hand a    *)
(* memtable over (HandoffInv), the life of the two log files (LogInv),     *)
(* where an applied write can be found and in which order (StoreInv), what *)
(* the logs and their buffers hold (LoggedInv), and what a get has         *)
(* established at each of its control points (ReaderInv).                  *)
(***************************************************************************)
EXTENDS MemtableFlush, TLAPS

Active == memtable[active]
Inactive == memtable[1 - active]

(* The container holds the writes up to last, of which those before job    *)
(* are applied and those up to highest_write_completed are announced.      *)
JobInv ==
  /\ job <= last + 1
  /\ highest_write_completed < job
  /\ writer \in {"append", "lock_active", "lock_memtable", "insert"} => job <= last
  /\ writer \in {"consume", "publish", "stopped"} => job = last + 1

TypeInv == TypeOK /\ JobInv

(* inactive_flushing says whether a memtable is handed over; it is so from *)
(* MarkFlushing to ResetFlushing, and exactly one of the writer, a permit  *)
(* and the flusher then carries it, until the destructor adds a permit of  *)
(* its own.  A writer that waits has said so and will be given its permit. *)
HandoffInv ==
  /\ ~run_memtable_flusher => writer = "stopped"
  /\ main = "running" => run_memtable_flusher
  /\ main \notin {"running", "join_writer"} => ~run_memtable_flusher
  /\ main \notin {"running", "join_writer", "join_flusher"} => flusher = "stopped"
  /\ run_memtable_flusher =>
       /\ start_flush <= 1
       /\ inactive_flushing <=> (writer = "signal" \/ start_flush = 1 \/ flusher \in FlushWindow)
       /\ ~(start_flush = 1 /\ flusher \in FlushWindow)
  /\ writer = "signal" => start_flush = 0 /\ flusher \notin FlushWindow
  /\ flusher \in FlushWindow \ {"woken"} => inactive_flushing
  /\ flusher = "wake" => ~inactive_flushing /\ writer \notin {"swap", "mark", "signal"}
  /\ writer \in {"swap", "mark"} => ~inactive_flushing
  /\ writer # "pause" => ~writer_waiting /\ resume_writes = 0
  /\ writer = "pause" =>
       \/ writer_waiting /\ resume_writes = 0 /\ (inactive_flushing \/ flusher = "wake")
       \/ ~writer_waiting /\ resume_writes = 1 /\ ~inactive_flushing /\ flusher # "wake"

(* The control points of the destructor from which a log is destroyed.     *)
Closing == {"close_0", "destroyed", "killed"}

(* The log of the active memtable is open but for the moment between the   *)
(* swap and OpenLog, that of the inactive one until the flusher closed it. *)
HandlesInv ==
  /\ (wal_file[active] = "open") <=> (writer \notin {"mark", "signal", "open"})
  /\ (wal_file[1 - active] = "open") <=>
       (writer = "mark" \/ (inactive_flushing /\ flusher # "reset"))

LogInv == main \notin Closing => HandlesInv

(* An entry is an applied write of its key.                                *)
EntryInv ==
  /\ \A i \in {0, 1}, k \in Keys :
       memtable[i][k] # 0 => memtable[i][k] < job /\ writes[memtable[i][k]] = k
  /\ \A k \in Keys : tables[k] # 0 => tables[k] < job /\ writes[tables[k]] = k

(* Every applied write is somewhere, or a newer one of its key is.         *)
CoverInv ==
  \A w \in 1..(job - 1) :
    Active[writes[w]] >= w \/ Inactive[writes[w]] >= w \/ tables[writes[w]] >= w

(* Of the entries of a key the one of the active memtable is the newest,   *)
(* then comes the one of the inactive memtable, then that of the tables.   *)
OrderInv ==
  \A k \in Keys :
    /\ Active[k] # 0 => Active[k] >= Inactive[k] /\ Active[k] >= tables[k]
    /\ Inactive[k] # 0 => Inactive[k] >= tables[k]

(* The writer starts on an empty memtable, because the flusher left it so; *)
(* the flusher clears one only when the tables cover it.                   *)
FlushInv ==
  /\ writer \in {"mark", "signal", "open"} => Active = Empty
  /\ (~inactive_flushing /\ writer # "mark") \/ flusher \in {"clear_log", "reset"}
       => Inactive = Empty
  /\ flusher = "add" => built = Inactive
  /\ flusher \in {"lock_inactive", "clear"} => \A k \in Keys : Inactive[k] <= tables[k]

StoreInv == EntryInv /\ CoverInv /\ OrderInv /\ FlushInv

(* What was appended to a log: its file and the buffer of its stream.      *)
Logged(i) == wal_log[i] \union wal_buffer[i]

(* Where the writer is with a write that is logged and not yet inserted.   *)
InsertPath == {"lock_active", "lock_memtable", "insert"}

(* Every applied write is in a table or in a log; what is in a log is in   *)
(* its memtable or in a table, but for the write being inserted, so that a *)
(* log can go when its memtable is empty; a log that is not open has       *)
(* nothing, and one that is destroyed nothing in its buffer.               *)
LoggedInv ==
  /\ main # "killed" =>
       \A w \in 1..(job - 1) : tables[writes[w]] >= w \/ \E i \in {0, 1} : w \in Logged(i)
  /\ writer \in InsertPath => job \in Logged(active)
  /\ \A i \in {0, 1} : \A w \in Logged(i) :
       \/ w < job /\ (memtable[i][writes[w]] >= w \/ tables[writes[w]] >= w)
       \/ w = job /\ i = active /\ writer \in InsertPath
  /\ main \notin Closing => \A i \in {0, 1} : wal_file[i] # "open" => Logged(i) = {}
  /\ main \in {"close_0", "destroyed"} => wal_buffer[1] = {}
  /\ main = "destroyed" => wal_buffer[0] = {}

(* Entry e is at least as new as every write that the get of r awaited.    *)
CoversTarget(r, e) == \A w \in 1..target[r] : writes[w] = key[r] => e >= w

(* What a get has yet to search covers every write of its key up to its    *)
(* target.                                                                 *)
GetInv(r) ==
  /\ reader[r] \notin {"idle", "await"} => target[r] < job
  /\ reader[r] \in {"lock_inactive", "search_inactive"} =>
       CoversTarget(r, Inactive[key[r]]) \/ CoversTarget(r, tables[key[r]])
  /\ reader[r] = "tables" => CoversTarget(r, tables[key[r]])
  /\ reader[r] = "idle" => CoversTarget(r, result[r])

ReaderInv == \A r \in Readers : GetInv(r)

Inv == TypeInv /\ HandoffInv /\ LogInv /\ StoreInv /\ LoggedInv /\ ReaderInv

-----------------------------------------------------------------------------
(* What a step of each thread leaves alone.                                *)

(* The variables of the logs are always meant one by one.                  *)
USE DEF walVars

(* The writer leaves everything of the other threads but the shared flags  *)
(* alone.                                                                  *)
LEMMA WriterFrame == Writer => UNCHANGED <<writes, flusherVars, readerVars, mainVars>>
  BY DEF Writer, Consume, StopWriter, AppendLog, WriterLockActive, WriterLockMemtable,
    Insert, CheckSize, TestFlushing, Resume, SwapActive, MarkFlushing, SignalFlusher,
    OpenLog, PublishCompleted

(* So does the flusher.                                                    *)
LEMMA FlusherFrame == Flusher => UNCHANGED <<writes, writerVars, readerVars, mainVars>>
  BY DEF Flusher, FlusherLoop, AcquireFlush, FlusherWoken, BuildTable, AddTable,
    FlusherLockInactive, ClearMemtable, ClearLog, ResetFlushing, WakeWriter

(* A get changes only its own variables.                                   *)
LEMMA ReaderFrame ==
  ASSUME NEW r \in Readers, Reader(r) \/ \E k \in Keys : BeginGet(r, k)
  PROVE  UNCHANGED <<writes, writerVars, dataVars, flusherVars, syncVars, mainVars>>
  BY DEF Reader, AwaitTarget, ReaderLockActive, ReaderLockMemtable, SearchActive,
    ReaderLockInactive, SearchInactive, SearchTables, BeginGet

(* The destructor changes only its own variables and start_flush.          *)
LEMMA MainFrame ==
  StopWriting \/ StopFlusher \/ FinishShutdown \/ Terminated
    => UNCHANGED <<writes, writerVars, dataVars, flusherVars, readerVars,
                   resume_writes, inactive_flushing, writer_waiting>>
  BY DEF StopWriting, StopFlusher, FinishShutdown, Terminated, vars, syncVars

(* Its last steps change the logs and its own control point only.          *)
LEMMA DestroyFrame ==
  DestroyLogs
    => /\ UNCHANGED <<writes, writerVars, active, memtable, tables, flusherVars, syncVars,
                      readerVars, run_writer, run_memtable_flusher>>
       /\ main \in {"close_1", "close_0"} /\ main' \in Closing
  BY DEF DestroyLogs, DestroyLog, Closing

-----------------------------------------------------------------------------
(* Types.                                                                  *)

(* An entry is the number of a write or 0.                                 *)
LEMMA EntryTypes ==
  ASSUME WriterTypeOK, DataTypeOK, NEW k \in Keys
  PROVE  /\ Active[k] \in 0..Len(writes) /\ Inactive[k] \in 0..Len(writes)
         /\ tables[k] \in 0..Len(writes) /\ built[k] \in 0..Len(writes)
  <1>1. active \in {0, 1} /\ 1 - active \in {0, 1}
    BY DEF DataTypeOK
  <1> QED
    BY <1>1 DEF DataTypeOK, Memtable, Active, Inactive

(* A release leaves at least one permit, and exactly one when there was    *)
(* none.                                                                   *)
LEMMA ReleasedNat ==
  ASSUME NEW n \in Nat, NEW m \in Released(n)
  PROVE  m \in Nat /\ m >= 1 /\ (n = 0 => m = 1)
  BY DEF Released

(* The writer's variables keep their types, and job stays within the       *)
(* container.                                                              *)
LEMMA WriterTypeStep ==
  ASSUME ConstantsAssumption, WriterTypeOK, JobInv, Next
  PROVE  WriterTypeOK' /\ JobInv'
<1>1. CASE UNCHANGED <<writes, writerVars>>
  BY <1>1 DEF WriterTypeOK, JobInv, writerVars
<1>2. ASSUME NEW k \in Keys, Put(k)
      PROVE  WriterTypeOK' /\ JobInv'
  <2>1. writes' = Append(writes, k) /\ Len(writes) < MaxWrites
    BY <1>2 DEF Put
  <2>2. writes' \in Seq(Keys) /\ Len(writes') = Len(writes) + 1
    BY <2>1 DEF WriterTypeOK
  <2> QED
    BY <1>2, <2>1, <2>2 DEF Put, WriterTypeOK, JobInv, writerVars,
      ConstantsAssumption
<1>3. CASE Consume
  BY <1>3 DEF Consume, WriterAt, Taken, highest_write_received, WriterTypeOK,
    JobInv, writerVars
<1>4. CASE StopWriter
  BY <1>4 DEF StopWriter, WriterAt, WriterTypeOK, JobInv, writerVars
<1>5. CASE AppendLog
  BY <1>5 DEF AppendLog, WriterAt, WriterTypeOK, JobInv, writerVars
<1>6. CASE WriterLockActive
  BY <1>6 DEF WriterLockActive, WriterAt, WriterTypeOK, JobInv, writerVars
<1>7. CASE WriterLockMemtable
  BY <1>7 DEF WriterLockMemtable, WriterAt, ReadsActive, WriterTypeOK, JobInv,
    writerVars
<1>8. CASE Insert
  BY <1>8 DEF Insert, WriterAt, WriterTypeOK, JobInv, writerVars
<1>9. CASE CheckSize
  BY <1>9 DEF CheckSize, WriterTypeOK, JobInv, writerVars
<1>10. CASE TestFlushing
  BY <1>10 DEF TestFlushing, WriterAt, MustWait, FlusherHoldsWriterFlusher,
    WriterTypeOK, JobInv, writerVars
<1>11. CASE Resume
  BY <1>11 DEF Resume, WriterAt, WriterTypeOK, JobInv, writerVars
<1>12. CASE SwapActive
  BY <1>12 DEF SwapActive, WriterAt, HoldsActiveLockShared, WriterTypeOK,
    JobInv, writerVars
<1>13. CASE MarkFlushing
  BY <1>13 DEF MarkFlushing, WriterAt, WriterTypeOK, JobInv, writerVars
<1>14. CASE SignalFlusher
  BY <1>14 DEF SignalFlusher, WriterAt, Released, WriterTypeOK, JobInv,
    writerVars
<1>15. CASE OpenLog
  BY <1>15 DEF OpenLog, WriterAt, WriterTypeOK, JobInv, writerVars
<1>16. CASE PublishCompleted
  BY <1>16 DEF PublishCompleted, WriterAt, HighestCompleted, WriterTypeOK,
    JobInv, writerVars
<1>17. QED
  BY <1>1, <1>2, <1>3, <1>4, <1>5, <1>6, <1>7, <1>8, <1>9, <1>10, <1>11,
    <1>12, <1>13, <1>14, <1>15, <1>16, FlusherFrame, ReaderFrame, MainFrame,
    DestroyFrame DEF Next, Writer, writerVars

(* Memtables, logs and tables keep their types.                            *)
LEMMA DataTypeStep ==
  ASSUME WriterTypeOK, JobInv, DataTypeOK, Next
  PROVE  DataTypeOK'
<1>1. CASE UNCHANGED <<writes, dataVars, built>>
  BY <1>1 DEF DataTypeOK, Writes, Memtable, dataVars, flusherVars
<1>2. ASSUME NEW k \in Keys, Put(k)
      PROVE  DataTypeOK'
  <2>1. writes' = Append(writes, k) /\ Len(writes) < MaxWrites
    BY <1>2 DEF Put
  <2>2. writes' \in Seq(Keys) /\ Len(writes') = Len(writes) + 1
    BY <2>1 DEF WriterTypeOK
  <2>3. Len(writes) \in Nat /\ 0..Len(writes) \subseteq 0..Len(writes')
    BY <2>2 DEF WriterTypeOK
  <2>4. Memtable \subseteq Memtable' /\ Writes \subseteq Writes'
    BY <2>2, <2>3 DEF Memtable, Writes
  <2>5. UNCHANGED <<active, memtable, walVars, tables, built>>
    BY <1>2 DEF Put, dataVars, flusherVars
  <2> QED
    BY <2>4, <2>5 DEF DataTypeOK
<1>3. CASE AppendLog
  <2> DEFINE held == wal_buffer[active] \union {job}
  <2>1. active \in {0, 1} /\ held \subseteq Writes
    BY <1>3 DEF AppendLog, WriterAt, WriterTypeOK, DataTypeOK, JobInv, Writes
  <2>2. PICK n \in held \union {0} :
          /\ wal_log' = [wal_log EXCEPT ![active] = @ \union {w \in held : w <= n}]
          /\ wal_buffer' = [wal_buffer EXCEPT ![active] = {w \in held : w > n}]
    BY <1>3 DEF AppendLog
  <2>3. UNCHANGED <<writes, active, memtable, wal_file, tables, built>>
    BY <1>3 DEF AppendLog, flusherVars
  <2>4. {w \in held : w <= n} \subseteq Writes /\ {w \in held : w > n} \subseteq Writes
    BY <2>1
  <2>5. wal_log' \in [{0, 1} -> SUBSET Writes] /\ wal_buffer' \in [{0, 1} -> SUBSET Writes]
    BY <2>1, <2>2, <2>4 DEF DataTypeOK
  <2> QED
    BY <2>3, <2>5 DEF DataTypeOK, Writes, Memtable
<1>4. CASE Insert
  <2>1. job \in 0..Len(writes) /\ writes[job] \in Keys
    BY <1>4 DEF Insert, WriterAt, WriterTypeOK, JobInv
  <2>2. /\ memtable' = [memtable EXCEPT ![active][writes[job]] = job]
        /\ UNCHANGED <<writes, active, walVars, tables, built>>
    BY <1>4 DEF Insert, flusherVars
  <2>3. memtable' \in [{0, 1} -> Memtable]
    BY <2>1, <2>2 DEF DataTypeOK, Memtable
  <2> QED
    BY <2>2, <2>3 DEF DataTypeOK, Writes, Memtable
<1>5. CASE SwapActive
  BY <1>5 DEF SwapActive, WriterAt, HoldsActiveLockShared, flusherVars,
    DataTypeOK, Writes, Memtable, dataVars
<1>6. CASE OpenLog
  BY <1>6 DEF OpenLog, WriterAt, flusherVars, DataTypeOK, Writes, Memtable,
    dataVars
<1>7. CASE BuildTable
  BY <1>7 DEF BuildTable, FlusherAt, Flushed, dataVars, DataTypeOK, Writes,
    Memtable, flusherVars
<1>8. CASE AddTable
  BY <1>8 DEF AddTable, FlusherAt, TablesWithBuilt, DataTypeOK, Writes,
    Memtable, dataVars, flusherVars
<1>9. CASE ClearMemtable
  <2>1. /\ memtable' = [memtable EXCEPT ![1 - active] = Empty]
        /\ UNCHANGED <<writes, active, walVars, tables, built>>
    BY <1>9 DEF ClearMemtable
  <2>2. Empty \in Memtable
    BY DEF WriterTypeOK, Empty, Memtable
  <2>3. memtable' \in [{0, 1} -> Memtable]
    BY <2>1, <2>2 DEF DataTypeOK, Memtable
  <2> QED
    BY <2>1, <2>3 DEF DataTypeOK, Writes, Memtable
<1>10. CASE ClearLog
  BY <1>10 DEF ClearLog, FlusherAt, DataTypeOK, Writes, Memtable, dataVars,
    flusherVars
<1>11. CASE DestroyLogs
  <2>1. UNCHANGED <<writes, active, memtable, tables, built>>
    BY <1>11, DestroyFrame DEF flusherVars
  <2>2. /\ wal_file' \in [{0, 1} -> {"null", "open", "closed"}]
        /\ wal_log' \in [{0, 1} -> SUBSET Writes]
        /\ wal_buffer' \in [{0, 1} -> SUBSET Writes]
    BY <1>11 DEF DestroyLogs, DestroyLog, DataTypeOK
  <2> QED
    BY <2>1, <2>2 DEF DataTypeOK, Writes, Memtable
<1>12. QED
  BY <1>1, <1>2, <1>3, <1>4, <1>5, <1>6, <1>7, <1>8, <1>9, <1>10, <1>11, ReaderFrame,
    MainFrame DEF Next, Writer, Flusher, Consume, StopWriter,
    WriterLockActive, WriterLockMemtable, CheckSize, TestFlushing, Resume,
    MarkFlushing, SignalFlusher, PublishCompleted, FlusherLoop, AcquireFlush,
    FlusherWoken, FlusherLockInactive, ResetFlushing, WakeWriter, dataVars,
    flusherVars

(* The flusher's and the destructor's variables and the flags keep their   *)
(* types.                                                                  *)
LEMMA SyncTypeStep ==
  ASSUME SyncTypeOK, Next
  PROVE  SyncTypeOK'
<1>1. CASE UNCHANGED <<flusher, syncVars, mainVars>>
  BY <1>1 DEF SyncTypeOK, syncVars, mainVars, flusherVars
<1>2. CASE TestFlushing
  BY <1>2 DEF TestFlushing, WriterAt, MustWait, FlusherHoldsWriterFlusher,
    flusherVars, mainVars, SyncTypeOK, syncVars
<1>3. CASE Resume
  BY <1>3 DEF Resume, WriterAt, flusherVars, mainVars, SyncTypeOK, syncVars
<1>4. CASE MarkFlushing
  BY <1>4 DEF MarkFlushing, WriterAt, flusherVars, mainVars, SyncTypeOK,
    syncVars
<1>5. CASE SignalFlusher
  BY <1>5 DEF SignalFlusher, WriterAt, Released, flusherVars, mainVars,
    SyncTypeOK, syncVars
<1>6. CASE FlusherLoop
  BY <1>6 DEF FlusherLoop, FlusherAt, syncVars, mainVars, SyncTypeOK,
    flusherVars
<1>7. CASE AcquireFlush
  BY <1>7 DEF AcquireFlush, FlusherAt, mainVars, SyncTypeOK, syncVars,
    flusherVars
<1>8. CASE FlusherWoken
  BY <1>8 DEF FlusherWoken, FlusherAt, syncVars, mainVars, SyncTypeOK,
    flusherVars
<1>9. CASE BuildTable
  BY <1>9 DEF BuildTable, FlusherAt, Flushed, syncVars, mainVars, SyncTypeOK,
    flusherVars
<1>10. CASE AddTable
  BY <1>10 DEF AddTable, FlusherAt, TablesWithBuilt, syncVars, mainVars,
    SyncTypeOK, flusherVars
<1>11. CASE FlusherLockInactive
  BY <1>11 DEF FlusherLockInactive, FlusherAt, ReadsInactive, syncVars,
    mainVars, SyncTypeOK, flusherVars
<1>12. CASE ClearMemtable
  BY <1>12 DEF ClearMemtable, FlusherAt, syncVars, mainVars, SyncTypeOK,
    flusherVars
<1>13. CASE ClearLog
  BY <1>13 DEF ClearLog, FlusherAt, syncVars, mainVars, SyncTypeOK,
    flusherVars
<1>14. CASE ResetFlushing
  BY <1>14 DEF ResetFlushing, FlusherAt, mainVars, SyncTypeOK, syncVars,
    flusherVars
<1>15. CASE WakeWriter
  <2>1. resume_writes' \in Nat
    BY <1>15, ReleasedNat DEF WakeWriter, MustWake, SyncTypeOK
  <2> QED
    BY <1>15, <2>1 DEF WakeWriter, FlusherAt, mainVars, SyncTypeOK
<1>16. CASE StopWriting
  BY <1>16 DEF StopWriting, MainAt, flusherVars, syncVars, SyncTypeOK,
    mainVars
<1>17. CASE StopFlusher
  <2>1. start_flush' \in Nat
    BY <1>17, ReleasedNat DEF StopFlusher, SyncTypeOK
  <2> QED
    BY <1>17, <2>1 DEF StopFlusher, MainAt, flusherVars, SyncTypeOK
<1>18. CASE FinishShutdown
  BY <1>18 DEF FinishShutdown, MainAt, flusherVars, syncVars, SyncTypeOK,
    mainVars
<1>19. CASE DestroyLogs
  BY <1>19, DestroyFrame DEF Closing, SyncTypeOK, syncVars, flusherVars
<1>20. QED
  BY <1>1, <1>2, <1>3, <1>4, <1>5, <1>6, <1>7, <1>8, <1>9, <1>10, <1>11,
    <1>12, <1>13, <1>14, <1>15, <1>16, <1>17, <1>18, <1>19, ReaderFrame DEF Next,
    Writer, Flusher, Consume, StopWriter, AppendLog, WriterLockActive,
    WriterLockMemtable, Insert, CheckSize, SwapActive, OpenLog,
    PublishCompleted, Terminated, vars, Put, syncVars, mainVars, flusherVars

(* The variables of the gets keep their types.                             *)
LEMMA ReaderTypeStep ==
  ASSUME WriterTypeOK, DataTypeOK, ReaderTypeOK, Next
  PROVE  ReaderTypeOK'
<1>1. CASE UNCHANGED <<writes, readerVars>>
  BY <1>1 DEF ReaderTypeOK, readerVars
<1>2. ASSUME NEW k \in Keys, Put(k)
      PROVE  ReaderTypeOK'
  <2>1. writes' = Append(writes, k) /\ Len(writes) < MaxWrites
    BY <1>2 DEF Put
  <2>2. writes' \in Seq(Keys) /\ Len(writes') = Len(writes) + 1
    BY <2>1 DEF WriterTypeOK
  <2> QED
    BY <1>2, <2>1, <2>2 DEF Put, ReaderTypeOK, WriterTypeOK, readerVars
<1>3. ASSUME NEW r \in Readers, NEW k \in Keys, BeginGet(r, k)
      PROVE  ReaderTypeOK'
  BY <1>3 DEF BeginGet, ReaderAt, highest_write_received, ReaderTypeOK,
    readerVars
<1>4. ASSUME NEW r \in Readers, AwaitTarget(r)
      PROVE  ReaderTypeOK'
  BY <1>4 DEF AwaitTarget, ReaderAt, Applied, ReaderTypeOK, readerVars
<1>5. ASSUME NEW r \in Readers, ReaderLockActive(r)
      PROVE  ReaderTypeOK'
  BY <1>5 DEF ReaderLockActive, ReaderAt, WriterHoldsActiveLockUnique,
    ReaderTypeOK, readerVars
<1>6. ASSUME NEW r \in Readers, ReaderLockMemtable(r)
      PROVE  ReaderTypeOK'
  BY <1>6 DEF ReaderLockMemtable, ReaderAt, WriterInserts, ReaderTypeOK,
    readerVars
<1>7. ASSUME NEW r \in Readers, SearchActive(r)
      PROVE  ReaderTypeOK'
  <2>1. key[r] \in Keys
    BY DEF ReaderTypeOK
  <2>2. result' \in [Readers -> 0..Len(writes)]
    BY <1>7, <2>1, EntryTypes DEF SearchActive, Found, Active, ReaderTypeOK
  <2>3. reader' = [reader EXCEPT ![r] = "idle"] \/ reader' = [reader EXCEPT ![r] = "lock_inactive"]
    BY <1>7 DEF SearchActive, ReaderAt, Found
  <2> QED
    BY <1>7, <2>2, <2>3 DEF SearchActive, ReaderTypeOK
<1>8. ASSUME NEW r \in Readers, ReaderLockInactive(r)
      PROVE  ReaderTypeOK'
  BY <1>8 DEF ReaderLockInactive, ReaderAt, FlusherClears, ReaderTypeOK,
    readerVars
<1>9. ASSUME NEW r \in Readers, SearchInactive(r)
      PROVE  ReaderTypeOK'
  <2>1. key[r] \in Keys
    BY DEF ReaderTypeOK
  <2>2. result' \in [Readers -> 0..Len(writes)]
    BY <1>9, <2>1, EntryTypes DEF SearchInactive, Found, Inactive, ReaderTypeOK
  <2>3. reader' = [reader EXCEPT ![r] = "idle"] \/ reader' = [reader EXCEPT ![r] = "tables"]
    BY <1>9 DEF SearchInactive, ReaderAt, Found
  <2> QED
    BY <1>9, <2>2, <2>3 DEF SearchInactive, ReaderTypeOK
<1>10. ASSUME NEW r \in Readers, SearchTables(r)
      PROVE  ReaderTypeOK'
  <2>1. key[r] \in Keys
    BY DEF ReaderTypeOK
  <2>2. result' \in [Readers -> 0..Len(writes)]
    BY <1>10, <2>1, EntryTypes DEF SearchTables, ReaderAt, ReaderTypeOK
  <2>3. reader' = [reader EXCEPT ![r] = "idle"] \/ reader' = [reader EXCEPT ![r] = "idle"]
    BY <1>10 DEF SearchTables, ReaderAt, Found
  <2> QED
    BY <1>10, <2>2, <2>3 DEF SearchTables, ReaderTypeOK
<1>11. QED
  BY <1>1, <1>2, <1>3, <1>4, <1>5, <1>6, <1>7, <1>8, <1>9, <1>10, WriterFrame,
    FlusherFrame, MainFrame, DestroyFrame DEF Next, Reader, readerVars

-----------------------------------------------------------------------------
(* The handoff and the logs.                                               *)

(* Every step keeps the handoff protocol.                                  *)
LEMMA HandoffStep ==
  ASSUME SyncTypeOK, HandoffInv, Next
  PROVE  HandoffInv'
<1>1. CASE UNCHANGED <<writer, flusher, syncVars, mainVars>>
  BY <1>1 DEF HandoffInv, FlushWindow, SyncTypeOK, syncVars, mainVars,
    writerVars, flusherVars
<1>2. CASE Consume
  BY <1>2 DEF Consume, WriterAt, Taken, flusherVars, syncVars, mainVars,
    highest_write_received, HandoffInv, FlushWindow, SyncTypeOK, writerVars
<1>3. CASE StopWriter
  BY <1>3 DEF StopWriter, WriterAt, flusherVars, syncVars, mainVars,
    HandoffInv, FlushWindow, SyncTypeOK, writerVars
<1>4. CASE AppendLog
  BY <1>4 DEF AppendLog, WriterAt, flusherVars, syncVars, mainVars,
    HandoffInv, FlushWindow, SyncTypeOK, writerVars
<1>5. CASE WriterLockActive
  BY <1>5 DEF WriterLockActive, WriterAt, flusherVars, syncVars, mainVars,
    HandoffInv, FlushWindow, SyncTypeOK, writerVars
<1>6. CASE WriterLockMemtable
  BY <1>6 DEF WriterLockMemtable, WriterAt, ReadsActive, flusherVars,
    syncVars, mainVars, HandoffInv, FlushWindow, SyncTypeOK, writerVars
<1>7. CASE Insert
  BY <1>7 DEF Insert, WriterAt, flusherVars, syncVars, mainVars, HandoffInv,
    FlushWindow, SyncTypeOK, writerVars
<1>8. CASE CheckSize
  BY <1>8 DEF CheckSize, flusherVars, syncVars, mainVars, HandoffInv,
    FlushWindow, SyncTypeOK, writerVars
<1>9. CASE TestFlushing
  BY <1>9 DEF TestFlushing, WriterAt, MustWait, FlusherHoldsWriterFlusher,
    flusherVars, mainVars, HandoffInv, FlushWindow, SyncTypeOK, syncVars,
    writerVars
<1>10. CASE Resume
  BY <1>10 DEF Resume, WriterAt, flusherVars, mainVars, HandoffInv,
    FlushWindow, SyncTypeOK, syncVars, writerVars
<1>11. CASE SwapActive
  BY <1>11 DEF SwapActive, WriterAt, HoldsActiveLockShared, flusherVars,
    syncVars, mainVars, HandoffInv, FlushWindow, SyncTypeOK, writerVars
<1>12. CASE MarkFlushing
  BY <1>12 DEF MarkFlushing, WriterAt, flusherVars, mainVars, HandoffInv,
    FlushWindow, SyncTypeOK, syncVars, writerVars
<1>13. CASE SignalFlusher
  BY <1>13 DEF SignalFlusher, WriterAt, Released, flusherVars, mainVars,
    HandoffInv, FlushWindow, SyncTypeOK, syncVars, writerVars
<1>14. CASE OpenLog
  BY <1>14 DEF OpenLog, WriterAt, flusherVars, syncVars, mainVars, HandoffInv,
    FlushWindow, SyncTypeOK, writerVars
<1>15. CASE PublishCompleted
  BY <1>15 DEF PublishCompleted, WriterAt, HighestCompleted, flusherVars,
    syncVars, mainVars, HandoffInv, FlushWindow, SyncTypeOK, writerVars
<1>16. CASE FlusherLoop
  BY <1>16 DEF FlusherLoop, FlusherAt, writerVars, syncVars, mainVars,
    HandoffInv, FlushWindow, SyncTypeOK, flusherVars
<1>17. CASE AcquireFlush
  BY <1>17 DEF AcquireFlush, FlusherAt, writerVars, mainVars, HandoffInv,
    FlushWindow, SyncTypeOK, syncVars, flusherVars
<1>18. CASE FlusherWoken
  BY <1>18 DEF FlusherWoken, FlusherAt, writerVars, syncVars, mainVars,
    HandoffInv, FlushWindow, SyncTypeOK, flusherVars
<1>19. CASE BuildTable
  BY <1>19 DEF BuildTable, FlusherAt, Flushed, writerVars, syncVars, mainVars,
    HandoffInv, FlushWindow, SyncTypeOK, flusherVars
<1>20. CASE AddTable
  BY <1>20 DEF AddTable, FlusherAt, TablesWithBuilt, writerVars, syncVars,
    mainVars, HandoffInv, FlushWindow, SyncTypeOK, flusherVars
<1>21. CASE FlusherLockInactive
  BY <1>21 DEF FlusherLockInactive, FlusherAt, ReadsInactive, writerVars,
    syncVars, mainVars, HandoffInv, FlushWindow, SyncTypeOK, flusherVars
<1>22. CASE ClearMemtable
  BY <1>22 DEF ClearMemtable, FlusherAt, writerVars, syncVars, mainVars,
    HandoffInv, FlushWindow, SyncTypeOK, flusherVars
<1>23. CASE ClearLog
  BY <1>23 DEF ClearLog, FlusherAt, writerVars, syncVars, mainVars,
    HandoffInv, FlushWindow, SyncTypeOK, flusherVars
<1>24. CASE ResetFlushing
  BY <1>24 DEF ResetFlushing, FlusherAt, writerVars, mainVars, HandoffInv,
    FlushWindow, SyncTypeOK, syncVars, flusherVars
<1>25. CASE WakeWriter
  BY <1>25 DEF WakeWriter, FlusherAt, MustWake, Released, writerVars,
    mainVars, HandoffInv, FlushWindow, SyncTypeOK, syncVars, flusherVars
<1>26. CASE StopWriting
  BY <1>26 DEF StopWriting, MainAt, writerVars, flusherVars, syncVars,
    HandoffInv, FlushWindow, SyncTypeOK, mainVars
<1>27. CASE StopFlusher
  BY <1>27 DEF StopFlusher, MainAt, Released, writerVars, flusherVars,
    HandoffInv, FlushWindow, SyncTypeOK, syncVars, mainVars
<1>28. CASE FinishShutdown
  BY <1>28 DEF FinishShutdown, MainAt, writerVars, flusherVars, syncVars,
    HandoffInv, FlushWindow, SyncTypeOK, mainVars
<1>29. CASE DestroyLogs
  BY <1>29, DestroyFrame DEF Closing, HandoffInv, SyncTypeOK, writerVars, syncVars, flusherVars
<1>30. QED
  BY <1>1, <1>2, <1>3, <1>4, <1>5, <1>6, <1>7, <1>8, <1>9, <1>10, <1>11,
    <1>12, <1>13, <1>14, <1>15, <1>16, <1>17, <1>18, <1>19, <1>20, <1>21,
    <1>22, <1>23, <1>24, <1>25, <1>26, <1>27, <1>28, <1>29, ReaderFrame DEF Next,
    Writer, Flusher, Terminated, vars, Put, syncVars, mainVars, writerVars,
    flusherVars

(* Every step keeps the life cycle of the two log files.                   *)
LEMMA LogStep ==
  ASSUME DataTypeOK, SyncTypeOK, HandoffInv, LogInv, Next
  PROVE  LogInv'
<1> SUFFICES ASSUME main' \notin Closing
             PROVE  HandlesInv'
  BY DEF LogInv
<1>0. ~DestroyLogs /\ HandlesInv
  <2>1. ~DestroyLogs
    BY DestroyFrame
  <2>2. main \notin Closing
    BY <2>1, WriterFrame, FlusherFrame, ReaderFrame DEF Next, Put, mainVars, StopWriting,
      StopFlusher, FinishShutdown, MainAt, Terminated, vars, Closing
  <2> QED
    BY <2>1, <2>2 DEF LogInv
<1>1. CASE UNCHANGED <<writer, flusher, active, wal_file, inactive_flushing>>
  BY <1>0, <1>1 DEF HandlesInv, HandoffInv, FlushWindow, DataTypeOK, SyncTypeOK,
    syncVars, dataVars, writerVars, flusherVars
<1>2. CASE Consume
  BY <1>0, <1>2 DEF Consume, WriterAt, Taken, dataVars, flusherVars, syncVars,
    highest_write_received, HandlesInv, HandoffInv, FlushWindow, DataTypeOK,
    SyncTypeOK, writerVars
<1>3. CASE StopWriter
  BY <1>0, <1>3 DEF StopWriter, WriterAt, dataVars, flusherVars, syncVars, HandlesInv,
    HandoffInv, FlushWindow, DataTypeOK, SyncTypeOK, writerVars
<1>4. CASE AppendLog
  BY <1>0, <1>4 DEF AppendLog, WriterAt, flusherVars, syncVars, HandlesInv, HandoffInv,
    FlushWindow, DataTypeOK, SyncTypeOK, dataVars, writerVars
<1>5. CASE WriterLockActive
  BY <1>0, <1>5 DEF WriterLockActive, WriterAt, dataVars, flusherVars, syncVars,
    HandlesInv, HandoffInv, FlushWindow, DataTypeOK, SyncTypeOK, writerVars
<1>6. CASE WriterLockMemtable
  BY <1>0, <1>6 DEF WriterLockMemtable, WriterAt, ReadsActive, dataVars,
    flusherVars, syncVars, HandlesInv, HandoffInv, FlushWindow, DataTypeOK,
    SyncTypeOK, writerVars
<1>7. CASE Insert
  BY <1>0, <1>7 DEF Insert, WriterAt, flusherVars, syncVars, HandlesInv, HandoffInv,
    FlushWindow, DataTypeOK, SyncTypeOK, dataVars, writerVars
<1>8. CASE CheckSize
  BY <1>0, <1>8 DEF CheckSize, dataVars, flusherVars, syncVars, HandlesInv, HandoffInv,
    FlushWindow, DataTypeOK, SyncTypeOK, writerVars
<1>9. CASE TestFlushing
  BY <1>0, <1>9 DEF TestFlushing, WriterAt, MustWait, FlusherHoldsWriterFlusher,
    dataVars, flusherVars, HandlesInv, HandoffInv, FlushWindow, DataTypeOK,
    SyncTypeOK, syncVars, writerVars
<1>10. CASE Resume
  BY <1>0, <1>10 DEF Resume, WriterAt, dataVars, flusherVars, HandlesInv, HandoffInv,
    FlushWindow, DataTypeOK, SyncTypeOK, syncVars, writerVars
<1>11. CASE SwapActive
  BY <1>0, <1>11 DEF SwapActive, WriterAt, HoldsActiveLockShared, flusherVars,
    syncVars, HandlesInv, HandoffInv, FlushWindow, DataTypeOK, SyncTypeOK,
    dataVars, writerVars
<1>12. CASE MarkFlushing
  BY <1>0, <1>12 DEF MarkFlushing, WriterAt, dataVars, flusherVars, HandlesInv,
    HandoffInv, FlushWindow, DataTypeOK, SyncTypeOK, syncVars, writerVars
<1>13. CASE SignalFlusher
  BY <1>0, <1>13 DEF SignalFlusher, WriterAt, Released, dataVars, flusherVars,
    HandlesInv, HandoffInv, FlushWindow, DataTypeOK, SyncTypeOK, syncVars,
    writerVars
<1>14. CASE OpenLog
  BY <1>0, <1>14 DEF OpenLog, WriterAt, flusherVars, syncVars, HandlesInv, HandoffInv,
    FlushWindow, DataTypeOK, SyncTypeOK, dataVars, writerVars
<1>15. CASE PublishCompleted
  BY <1>0, <1>15 DEF PublishCompleted, WriterAt, HighestCompleted, dataVars,
    flusherVars, syncVars, HandlesInv, HandoffInv, FlushWindow, DataTypeOK,
    SyncTypeOK, writerVars
<1>16. CASE FlusherLoop
  BY <1>0, <1>16 DEF FlusherLoop, FlusherAt, writerVars, dataVars, syncVars, HandlesInv,
    HandoffInv, FlushWindow, DataTypeOK, SyncTypeOK, flusherVars
<1>17. CASE AcquireFlush
  BY <1>0, <1>17 DEF AcquireFlush, FlusherAt, writerVars, dataVars, HandlesInv,
    HandoffInv, FlushWindow, DataTypeOK, SyncTypeOK, syncVars, flusherVars
<1>18. CASE FlusherWoken
  BY <1>0, <1>18 DEF FlusherWoken, FlusherAt, writerVars, dataVars, syncVars,
    HandlesInv, HandoffInv, FlushWindow, DataTypeOK, SyncTypeOK, flusherVars
<1>19. CASE BuildTable
  BY <1>0, <1>19 DEF BuildTable, FlusherAt, Flushed, writerVars, dataVars, syncVars,
    HandlesInv, HandoffInv, FlushWindow, DataTypeOK, SyncTypeOK, flusherVars
<1>20. CASE AddTable
  BY <1>0, <1>20 DEF AddTable, FlusherAt, TablesWithBuilt, writerVars, syncVars,
    HandlesInv, HandoffInv, FlushWindow, DataTypeOK, SyncTypeOK, dataVars,
    flusherVars
<1>21. CASE FlusherLockInactive
  BY <1>0, <1>21 DEF FlusherLockInactive, FlusherAt, ReadsInactive, writerVars,
    dataVars, syncVars, HandlesInv, HandoffInv, FlushWindow, DataTypeOK,
    SyncTypeOK, flusherVars
<1>22. CASE ClearMemtable
  BY <1>0, <1>22 DEF ClearMemtable, FlusherAt, writerVars, syncVars, HandlesInv,
    HandoffInv, FlushWindow, DataTypeOK, SyncTypeOK, dataVars, flusherVars
<1>23. CASE ClearLog
  BY <1>0, <1>23 DEF ClearLog, FlusherAt, writerVars, syncVars, HandlesInv, HandoffInv,
    FlushWindow, DataTypeOK, SyncTypeOK, dataVars, flusherVars
<1>24. CASE ResetFlushing
  BY <1>0, <1>24 DEF ResetFlushing, FlusherAt, writerVars, dataVars, HandlesInv,
    HandoffInv, FlushWindow, DataTypeOK, SyncTypeOK, syncVars, flusherVars
<1>25. CASE WakeWriter
  BY <1>0, <1>25 DEF WakeWriter, FlusherAt, MustWake, Released, writerVars,
    dataVars, HandlesInv, HandoffInv, FlushWindow, DataTypeOK, SyncTypeOK,
    syncVars, flusherVars
<1>26. QED
  BY <1>0, <1>1, <1>2, <1>3, <1>4, <1>5, <1>6, <1>7, <1>8, <1>9, <1>10, <1>11,
    <1>12, <1>13, <1>14, <1>15, <1>16, <1>17, <1>18, <1>19, <1>20, <1>21,
    <1>22, <1>23, <1>24, <1>25, ReaderFrame, MainFrame DEF Next, Writer,
    Flusher, Put, syncVars, dataVars, writerVars, flusherVars

-----------------------------------------------------------------------------
(* The data.                                                               *)

(* Every step keeps the applied writes where a search finds them, the      *)
(* newest first.                                                           *)
LEMMA StoreStep ==
  ASSUME WriterTypeOK, JobInv, DataTypeOK, SyncTypeOK, HandoffInv, StoreInv, Next
  PROVE  StoreInv'
<1>1. CASE UNCHANGED <<writes, writer, job, flusher, active, memtable, tables, built, inactive_flushing>>
  BY <1>1 DEF StoreInv, EntryInv, CoverInv, OrderInv, FlushInv, Active,
    Inactive, Empty, syncVars, dataVars, writerVars, flusherVars
<1>2. ASSUME NEW k \in Keys, Put(k)
      PROVE  StoreInv'
  <2>1. writes' = Append(writes, k)
    BY <1>2 DEF Put
  <2>2. /\ UNCHANGED <<writer, job, active, memtable, tables, built, flusher, inactive_flushing>>
        /\ UNCHANGED <<Active, Inactive>>
    BY <1>2 DEF Put, writerVars, dataVars, flusherVars, syncVars, Active, Inactive
  <2>3. \A w \in 1..Len(writes) : writes'[w] = writes[w]
    BY <2>1 DEF WriterTypeOK
  <2>4. job - 1 \in 0..Len(writes)
    BY DEF WriterTypeOK, JobInv
  <2>5. EntryInv'
    <3>1. \A i \in {0, 1}, x \in Keys : memtable[i][x] \in 0..Len(writes) /\ tables[x] \in 0..Len(writes)
      BY DEF DataTypeOK, Memtable
    <3> QED
      BY <2>2, <2>3, <3>1 DEF StoreInv, EntryInv, WriterTypeOK
  <2>6. CoverInv'
    <3>1. \A w \in 1..(job - 1) : writes'[w] = writes[w]
      BY <2>3, <2>4 DEF WriterTypeOK
    <3> QED
      BY <2>2, <3>1 DEF StoreInv, CoverInv
  <2>7. OrderInv' /\ FlushInv'
    BY <2>2 DEF StoreInv, OrderInv, FlushInv, Empty
  <2> QED
    BY <2>5, <2>6, <2>7 DEF StoreInv
<1>3. CASE Consume
  BY <1>3 DEF Consume, WriterAt, Taken, dataVars, flusherVars, syncVars,
    highest_write_received, StoreInv, EntryInv, CoverInv, OrderInv, FlushInv,
    Active, Inactive, Empty, writerVars
<1>4. CASE StopWriter
  BY <1>4 DEF StopWriter, WriterAt, dataVars, flusherVars, syncVars, StoreInv,
    EntryInv, CoverInv, OrderInv, FlushInv, Active, Inactive, Empty,
    writerVars
<1>5. CASE AppendLog
  BY <1>5 DEF AppendLog, WriterAt, flusherVars, syncVars, StoreInv, EntryInv,
    CoverInv, OrderInv, FlushInv, Active, Inactive, Empty, dataVars,
    writerVars
<1>6. CASE WriterLockActive
  BY <1>6 DEF WriterLockActive, WriterAt, dataVars, flusherVars, syncVars,
    StoreInv, EntryInv, CoverInv, OrderInv, FlushInv, Active, Inactive, Empty,
    writerVars
<1>7. CASE WriterLockMemtable
  BY <1>7 DEF WriterLockMemtable, WriterAt, ReadsActive, dataVars,
    flusherVars, syncVars, StoreInv, EntryInv, CoverInv, OrderInv, FlushInv,
    Active, Inactive, Empty, writerVars
<1>8. CASE Insert
  <2> DEFINE k == writes[job]
  <2>1. job \in 1..Len(writes) /\ k \in Keys /\ job' = job + 1
    BY <1>8 DEF Insert, WriterAt, WriterTypeOK, JobInv
  <2>2. /\ memtable' = [memtable EXCEPT ![active][k] = job]
        /\ UNCHANGED <<writes, active, tables, built, flusher, inactive_flushing>>
        /\ writer' = "check"
    BY <1>8 DEF Insert, WriterAt, flusherVars, syncVars
  <2>3. active \in {0, 1} /\ 1 - active \in {0, 1} /\ active # 1 - active
    BY DEF DataTypeOK
  <2>4. Active' = [Active EXCEPT ![k] = job] /\ Inactive' = Inactive
    BY <2>2, <2>3 DEF Active, Inactive, DataTypeOK, Memtable
  <2>5. Active \in Memtable /\ Inactive \in Memtable /\ tables \in Memtable
    BY <2>3 DEF DataTypeOK, Active, Inactive
  <2>6. \A x \in Keys : Inactive[x] < job /\ tables[x] < job
    BY <2>1, <2>3 DEF StoreInv, EntryInv, Inactive
  <2>7. EntryInv'
    <3>1. ASSUME NEW i \in {0, 1}, NEW x \in Keys, memtable'[i][x] # 0
          PROVE  memtable'[i][x] < job' /\ writes'[memtable'[i][x]] = x
      <4>1. memtable'[i][x] = IF i = active /\ x = k THEN job ELSE memtable[i][x]
        BY <2>2, <2>1 DEF DataTypeOK, Memtable
      <4>2. memtable[i][x] \in Nat
        BY DEF DataTypeOK, WriterTypeOK, Memtable
      <4> QED
        BY <3>1, <4>1, <4>2, <2>1, <2>2 DEF StoreInv, EntryInv
    <3>2. \A x \in Keys : tables[x] \in Nat
      BY DEF DataTypeOK, WriterTypeOK, Memtable
    <3> QED
      BY <2>1, <2>2, <3>1, <3>2 DEF StoreInv, EntryInv
  <2>8. CoverInv'
    <3>1. ASSUME NEW w \in 1..job
          PROVE  Active'[writes[w]] >= w \/ Inactive[writes[w]] >= w \/ tables[writes[w]] >= w
      <4>1. CASE w = job
        BY <4>1, <2>1, <2>4, <2>5 DEF Memtable
      <4>2. CASE w # job
        <5>1. w \in 1..(job - 1) /\ writes[w] \in Keys
          BY <4>2, <2>1 DEF WriterTypeOK
        <5>2. Active'[writes[w]] = IF writes[w] = k THEN job ELSE Active[writes[w]]
          BY <5>1, <2>4, <2>5 DEF Memtable
        <5> QED
          BY <5>1, <5>2, <2>1 DEF StoreInv, CoverInv
      <4> QED
        BY <4>1, <4>2
    <3> QED
      BY <3>1, <2>1, <2>2, <2>4 DEF CoverInv
  <2>9. OrderInv'
    <3>1. ASSUME NEW x \in Keys, Active'[x] # 0
          PROVE  Active'[x] >= Inactive[x] /\ Active'[x] >= tables[x]
      <4>1. Active'[x] = IF x = k THEN job ELSE Active[x]
        BY <2>4, <2>5 DEF Memtable
      <4>2. Inactive[x] \in Nat /\ tables[x] \in Nat
        BY <2>5 DEF Memtable, WriterTypeOK
      <4> QED
        BY <3>1, <4>1, <4>2, <2>1, <2>6 DEF StoreInv, OrderInv
    <3> QED
      BY <3>1, <2>2, <2>4 DEF StoreInv, OrderInv
  <2>10. FlushInv'
    BY <1>8, <2>2, <2>4 DEF Insert, WriterAt, StoreInv, FlushInv
  <2> QED
    BY <2>7, <2>8, <2>9, <2>10 DEF StoreInv
<1>9. CASE CheckSize
  BY <1>9 DEF CheckSize, dataVars, flusherVars, syncVars, StoreInv, EntryInv,
    CoverInv, OrderInv, FlushInv, Active, Inactive, Empty, writerVars
<1>10. CASE TestFlushing
  BY <1>10 DEF TestFlushing, WriterAt, MustWait, FlusherHoldsWriterFlusher,
    dataVars, flusherVars, StoreInv, EntryInv, CoverInv, OrderInv, FlushInv,
    Active, Inactive, Empty, syncVars, writerVars
<1>11. CASE Resume
  BY <1>11 DEF Resume, WriterAt, dataVars, flusherVars, StoreInv, EntryInv,
    CoverInv, OrderInv, FlushInv, Active, Inactive, Empty, syncVars,
    writerVars
<1>12. CASE SwapActive
  <2>1. /\ writer = "swap" /\ writer' = "mark" /\ active' = 1 - active
        /\ UNCHANGED <<writes, job, memtable, tables, built, flusher, inactive_flushing>>
    BY <1>12 DEF SwapActive, WriterAt, flusherVars, syncVars
  <2>2. Active' = Inactive /\ Inactive' = Active
    BY <2>1 DEF Active, Inactive, DataTypeOK
  <2>3. ~inactive_flushing /\ flusher \notin {"add", "lock_inactive", "clear", "clear_log", "reset"}
    BY <2>1 DEF HandoffInv, FlushWindow
  <2>4. Inactive = Empty
    BY <2>1, <2>3 DEF StoreInv, FlushInv
  <2>5. EntryInv' /\ CoverInv'
    BY <2>1, <2>2 DEF StoreInv, EntryInv, CoverInv
  <2>6. OrderInv'
    BY <2>1, <2>2, <2>4 DEF StoreInv, OrderInv, Empty
  <2>7. FlushInv'
    BY <2>1, <2>2, <2>3, <2>4 DEF FlushInv, Empty
  <2> QED
    BY <2>5, <2>6, <2>7 DEF StoreInv
<1>13. CASE MarkFlushing
  BY <1>13 DEF MarkFlushing, WriterAt, dataVars, flusherVars, StoreInv,
    EntryInv, CoverInv, OrderInv, FlushInv, Active, Inactive, Empty, syncVars,
    writerVars
<1>14. CASE SignalFlusher
  BY <1>14 DEF SignalFlusher, WriterAt, Released, dataVars, flusherVars,
    StoreInv, EntryInv, CoverInv, OrderInv, FlushInv, Active, Inactive, Empty,
    syncVars, writerVars
<1>15. CASE OpenLog
  BY <1>15 DEF OpenLog, WriterAt, flusherVars, syncVars, StoreInv, EntryInv,
    CoverInv, OrderInv, FlushInv, Active, Inactive, Empty, dataVars,
    writerVars
<1>16. CASE PublishCompleted
  BY <1>16 DEF PublishCompleted, WriterAt, HighestCompleted, dataVars,
    flusherVars, syncVars, StoreInv, EntryInv, CoverInv, OrderInv, FlushInv,
    Active, Inactive, Empty, writerVars
<1>17. CASE FlusherLoop
  BY <1>17 DEF FlusherLoop, FlusherAt, writerVars, dataVars, syncVars,
    StoreInv, EntryInv, CoverInv, OrderInv, FlushInv, Active, Inactive, Empty,
    flusherVars
<1>18. CASE AcquireFlush
  BY <1>18 DEF AcquireFlush, FlusherAt, writerVars, dataVars, StoreInv,
    EntryInv, CoverInv, OrderInv, FlushInv, Active, Inactive, Empty, syncVars,
    flusherVars
<1>19. CASE FlusherWoken
  BY <1>19 DEF FlusherWoken, FlusherAt, writerVars, dataVars, syncVars,
    StoreInv, EntryInv, CoverInv, OrderInv, FlushInv, Active, Inactive, Empty,
    flusherVars
<1>20. CASE BuildTable
  BY <1>20 DEF BuildTable, FlusherAt, Flushed, writerVars, dataVars, syncVars,
    StoreInv, EntryInv, CoverInv, OrderInv, FlushInv, Active, Inactive, Empty,
    flusherVars
<1>21. CASE AddTable
  <2>1. /\ flusher = "add" /\ flusher' = "lock_inactive"
        /\ tables' = TablesWithBuilt
        /\ UNCHANGED <<writes, writer, job, active, memtable, inactive_flushing>>
        /\ UNCHANGED <<Active, Inactive>>
    BY <1>21 DEF AddTable, FlusherAt, writerVars, syncVars, Active, Inactive
  <2>2. built = Inactive /\ inactive_flushing
    BY <2>1 DEF StoreInv, FlushInv, HandoffInv, FlushWindow
  <2>3. \A k \in Keys : tables'[k] = IF Inactive[k] # 0 THEN Inactive[k] ELSE tables[k]
    BY <2>1, <2>2 DEF TablesWithBuilt
  <2>4. \A k \in Keys : tables'[k] >= tables[k] /\ tables'[k] >= Inactive[k]
    BY <2>3, EntryTypes DEF StoreInv, OrderInv, WriterTypeOK
  <2>5. EntryInv'
    BY <2>1, <2>3 DEF StoreInv, EntryInv, Inactive, DataTypeOK
  <2>6. CoverInv'
    <3>1. ASSUME NEW w \in 1..(job - 1)
          PROVE  Active[writes[w]] >= w \/ Inactive[writes[w]] >= w \/ tables'[writes[w]] >= w
      <4>1. writes[w] \in Keys
        BY DEF WriterTypeOK, JobInv
      <4> QED
        BY <4>1, <2>3, <2>4, EntryTypes DEF StoreInv, CoverInv, WriterTypeOK
    <3> QED
      BY <3>1, <2>1 DEF CoverInv
  <2>7. OrderInv'
    BY <2>1, <2>3, EntryTypes DEF StoreInv, OrderInv, WriterTypeOK
  <2>8. FlushInv'
    BY <2>1, <2>2, <2>4 DEF StoreInv, FlushInv, HandoffInv, Empty
  <2> QED
    BY <2>5, <2>6, <2>7, <2>8 DEF StoreInv
<1>22. CASE FlusherLockInactive
  BY <1>22 DEF FlusherLockInactive, FlusherAt, ReadsInactive, writerVars,
    dataVars, syncVars, StoreInv, EntryInv, CoverInv, OrderInv, FlushInv,
    Active, Inactive, Empty, flusherVars
<1>23. CASE ClearMemtable
  <2>1. /\ flusher = "clear" /\ flusher' = "clear_log"
        /\ memtable' = [memtable EXCEPT ![1 - active] = Empty]
        /\ UNCHANGED <<writes, writer, job, active, tables, inactive_flushing>>
    BY <1>23 DEF ClearMemtable, FlusherAt, writerVars, syncVars
  <2>2. Active' = Active /\ Inactive' = Empty
    BY <2>1 DEF Active, Inactive, DataTypeOK
  <2>3. \A k \in Keys : Inactive[k] <= tables[k]
    BY <2>1 DEF StoreInv, FlushInv
  <2>4. EntryInv'
    <3>1. \A i \in {0, 1}, k \in Keys : memtable'[i][k] \in {0, memtable[i][k]}
      BY <2>1 DEF DataTypeOK, Empty
    <3> QED
      BY <3>1, <2>1 DEF StoreInv, EntryInv
  <2>5. CoverInv'
    <3>1. ASSUME NEW w \in 1..(job - 1)
          PROVE  Active[writes[w]] >= w \/ tables[writes[w]] >= w
      <4>1. writes[w] \in Keys
        BY DEF WriterTypeOK, JobInv
      <4> QED
        BY <4>1, <2>3, EntryTypes DEF StoreInv, CoverInv, WriterTypeOK
    <3> QED
      BY <3>1, <2>1, <2>2 DEF CoverInv
  <2>6. OrderInv'
    BY <2>1, <2>2, EntryTypes DEF StoreInv, OrderInv, Empty, WriterTypeOK
  <2>7. FlushInv'
    BY <2>1, <2>2 DEF StoreInv, FlushInv, Empty
  <2> QED
    BY <2>4, <2>5, <2>6, <2>7 DEF StoreInv
<1>24. CASE ClearLog
  BY <1>24 DEF ClearLog, FlusherAt, writerVars, syncVars, StoreInv, EntryInv,
    CoverInv, OrderInv, FlushInv, Active, Inactive, Empty, dataVars,
    flusherVars
<1>25. CASE ResetFlushing
  BY <1>25 DEF ResetFlushing, FlusherAt, writerVars, dataVars, StoreInv,
    EntryInv, CoverInv, OrderInv, FlushInv, Active, Inactive, Empty, syncVars,
    flusherVars
<1>26. CASE WakeWriter
  BY <1>26 DEF WakeWriter, FlusherAt, MustWake, Released, writerVars,
    dataVars, StoreInv, EntryInv, CoverInv, OrderInv, FlushInv, Active,
    Inactive, Empty, syncVars, flusherVars
<1>27. QED
  BY <1>1, <1>2, <1>3, <1>4, <1>5, <1>6, <1>7, <1>8, <1>9, <1>10, <1>11,
    <1>12, <1>13, <1>14, <1>15, <1>16, <1>17, <1>18, <1>19, <1>20, <1>21,
    <1>22, <1>23, <1>24, <1>25, <1>26, ReaderFrame, MainFrame, DestroyFrame DEF Next,
    Writer, Flusher, syncVars, dataVars, writerVars, flusherVars

(* The new table never makes the tables answer with an older write.        *)
LEMMA TablesGrow ==
  ASSUME WriterTypeOK, DataTypeOK, StoreInv, AddTable
  PROVE  \A k \in Keys : tables'[k] >= tables[k] /\ tables'[k] \in Nat
<1>1. built = Inactive /\ tables' = TablesWithBuilt
  BY DEF AddTable, FlusherAt, StoreInv, FlushInv
<1> QED
  BY <1>1, EntryTypes DEF TablesWithBuilt, StoreInv, OrderInv, WriterTypeOK

(* Every step keeps the applied writes in tables and logs.                 *)
LEMMA LoggedStep ==
  ASSUME WriterTypeOK, JobInv, DataTypeOK, SyncTypeOK, HandoffInv, LogInv, StoreInv,
         LoggedInv, Next
  PROVE  LoggedInv'
<1>1. /\ active \in {0, 1} /\ 1 - active \in {0, 1} /\ active # 1 - active
      /\ job \in Nat /\ job - 1 \in 0..Len(writes)
      /\ \A i \in {0, 1} : Logged(i) \subseteq 1..Len(writes)
  BY DEF DataTypeOK, WriterTypeOK, JobInv, Logged, Writes
<1>2. \A w \in 1..Len(writes) : writes[w] \in Keys
  BY DEF WriterTypeOK
<1>3. \A k \in Keys : tables[k] \in Nat /\ \A i \in {0, 1} : memtable[i][k] \in Nat
  BY DEF DataTypeOK, Memtable, WriterTypeOK
<1>4. main \in Closing => writer = "stopped" /\ flusher = "stopped"
  BY DEF HandoffInv, Closing
(* Most steps: logs, memtables and tables stay.                            *)
<1>5. ASSUME UNCHANGED <<writes, job, active, memtable, walVars, tables>>,
             writer' \in InsertPath <=> writer \in InsertPath,
             main' = main \/ (main \notin Closing /\ main' \notin Closing)
      PROVE  LoggedInv'
  BY <1>5 DEF LoggedInv, Logged, Closing
<1>6. ASSUME NEW k \in Keys, Put(k)
      PROVE  LoggedInv'
  <2>1. /\ writes' = Append(writes, k)
        /\ UNCHANGED <<writer, job, active, memtable, walVars, tables, main>>
    BY <1>6 DEF Put, writerVars, dataVars, mainVars
  <2>2. \A w \in 1..Len(writes) : writes'[w] = writes[w]
    BY <2>1 DEF WriterTypeOK
  <2>3. \A i : Logged(i)' = Logged(i)
    BY <2>1 DEF Logged
  <2>4. \A w \in 1..(job - 1) : w \in 1..Len(writes)
    BY <1>1 DEF WriterTypeOK
  <2> QED
    BY <1>1, <2>1, <2>2, <2>3, <2>4 DEF LoggedInv
<1>7. CASE AppendLog
  <2> DEFINE held == wal_buffer[active] \union {job}
  <2>1. PICK n \in held \union {0} :
          /\ wal_log' = [wal_log EXCEPT ![active] = @ \union {w \in held : w <= n}]
          /\ wal_buffer' = [wal_buffer EXCEPT ![active] = {w \in held : w > n}]
    BY <1>7 DEF AppendLog
  <2>2. /\ writer = "append" /\ writer' = "lock_active"
        /\ UNCHANGED <<writes, job, active, memtable, wal_file, tables, main>>
    BY <1>7 DEF AppendLog, WriterAt, mainVars
  <2>3. main \notin Closing /\ wal_file[active] = "open"
    BY <1>4, <2>2 DEF LogInv, HandlesInv
  <2>4. \A w \in held \union {0} : w \in Int
    BY <1>1 DEF Logged, WriterTypeOK
  <2>5. /\ Logged(active)' = Logged(active) \union {job}
        /\ Logged(1 - active)' = Logged(1 - active)
    <3>1. /\ wal_log'[active] = wal_log[active] \union {w \in held : w <= n}
          /\ wal_buffer'[active] = {w \in held : w > n}
          /\ wal_log'[1 - active] = wal_log[1 - active]
          /\ wal_buffer'[1 - active] = wal_buffer[1 - active]
      BY <1>1, <2>1 DEF DataTypeOK
    <3>2. {w \in held : w <= n} \union {w \in held : w > n} = held
      BY <2>4
    <3> QED
      BY <2>2, <3>1, <3>2 DEF Logged
  <2>6. \A i \in {0, 1} : i = active \/ i = 1 - active
    BY <1>1
  <2> QED
    BY <1>1, <2>2, <2>3, <2>5, <2>6 DEF LoggedInv, InsertPath, Closing
<1>8. CASE Insert
  <2> DEFINE k == writes[job]
  <2>1. /\ writer = "insert" /\ writer' = "check" /\ job' = job + 1
        /\ memtable' = [memtable EXCEPT ![active][k] = job]
        /\ UNCHANGED <<writes, active, walVars, tables, main>>
    BY <1>8 DEF Insert, WriterAt, mainVars
  <2>2. \A i : Logged(i)' = Logged(i)
    BY <2>1 DEF Logged
  <2>3. job \in Logged(active) /\ k \in Keys
    BY <1>1, <1>2, <2>1 DEF LoggedInv, InsertPath
  <2>4. ASSUME NEW i \in {0, 1}, NEW w \in Logged(i)
        PROVE  w < job + 1 /\ (memtable'[i][writes[w]] >= w \/ tables[writes[w]] >= w)
    <3>1. writes[w] \in Keys /\ w \in Nat
      BY <1>1, <1>2
    <3>2. memtable'[i][writes[w]] =
            IF i = active /\ writes[w] = k THEN job ELSE memtable[i][writes[w]]
      BY <2>1, <2>3, <3>1 DEF DataTypeOK, Memtable
    <3> QED
      BY <1>1, <3>1, <3>2 DEF LoggedInv
  <2>5. main # "killed" =>
          \A w \in 1..job : tables[writes[w]] >= w \/ \E i \in {0, 1} : w \in Logged(i)
    BY <1>1, <2>3 DEF LoggedInv
  <2> QED
    BY <1>1, <2>1, <2>2, <2>4, <2>5 DEF LoggedInv, InsertPath
<1>9. CASE SwapActive
  <2>1. /\ writer = "swap" /\ writer' = "mark"
        /\ UNCHANGED <<writes, job, memtable, walVars, tables, main>>
    BY <1>9 DEF SwapActive, WriterAt, mainVars
  <2> QED
    BY <2>1 DEF LoggedInv, Logged, InsertPath
<1>10. CASE OpenLog
  <2>1. /\ writer = "open" /\ writer' \in {"append", "publish"}
        /\ wal_file' = [wal_file EXCEPT ![active] = "open"]
        /\ wal_log' = [wal_log EXCEPT ![active] = {}]
        /\ wal_buffer' = [wal_buffer EXCEPT ![active] = {}]
        /\ UNCHANGED <<writes, job, active, memtable, tables, main>>
    BY <1>10 DEF OpenLog, WriterAt, mainVars
  <2>2. main \notin Closing /\ wal_file[active] # "open"
    BY <1>4, <2>1 DEF LogInv, HandlesInv
  <2>3. Logged(active) = {}
    BY <1>1, <2>2 DEF LoggedInv
  <2>4. \A i \in {0, 1} : Logged(i)' = Logged(i)
    BY <1>1, <2>1, <2>3 DEF Logged, DataTypeOK
  <2>5. \A i \in {0, 1} : wal_file'[i] # "open" => wal_file[i] # "open"
    BY <1>1, <2>1 DEF DataTypeOK
  <2> QED
    BY <2>1, <2>2, <2>4, <2>5 DEF LoggedInv, InsertPath, Closing
<1>11. CASE AddTable
  <2>1. UNCHANGED <<writes, writer, job, active, memtable, walVars, main>>
    BY <1>11 DEF AddTable, writerVars, mainVars
  <2>2. \A i : Logged(i)' = Logged(i)
    BY <2>1 DEF Logged
  <2>3. \A w \in 1..Len(writes) : tables[writes[w]] >= w => tables'[writes[w]] >= w
    BY <1>2, <1>3, <1>11, TablesGrow DEF WriterTypeOK
  <2>4. \A w \in 1..(job - 1) : w \in 1..Len(writes)
    BY <1>1 DEF WriterTypeOK
  <2> QED
    BY <1>1, <2>1, <2>2, <2>3, <2>4 DEF LoggedInv
<1>12. CASE ClearMemtable
  <2>1. /\ flusher = "clear" /\ memtable' = [memtable EXCEPT ![1 - active] = Empty]
        /\ UNCHANGED <<writes, writer, job, active, walVars, tables, main>>
    BY <1>12 DEF ClearMemtable, FlusherAt, writerVars, mainVars
  <2>2. \A i : Logged(i)' = Logged(i)
    BY <2>1 DEF Logged
  <2>3. \A k \in Keys : Inactive[k] <= tables[k]
    BY <2>1 DEF StoreInv, FlushInv
  <2>4. ASSUME NEW i \in {0, 1}, NEW w \in Logged(i), memtable[i][writes[w]] >= w
        PROVE  memtable'[i][writes[w]] >= w \/ tables[writes[w]] >= w
    <3>1. writes[w] \in Keys /\ w \in Nat
      BY <1>1, <1>2
    <3>2. CASE i = active
      BY <1>1, <2>1, <2>4, <3>2 DEF DataTypeOK
    <3>3. CASE i = 1 - active
      BY <1>3, <2>3, <2>4, <3>1, <3>3 DEF Inactive
    <3> QED
      BY <1>1, <3>2, <3>3
  <2> QED
    BY <2>1, <2>2, <2>4 DEF LoggedInv
<1>13. CASE ClearLog
  <2>1. /\ flusher = "clear_log"
        /\ UNCHANGED <<writes, writer, job, active, memtable, tables, main>>
    BY <1>13 DEF ClearLog, FlusherAt, writerVars, mainVars
  <2>2. main \notin Closing /\ Inactive = Empty
    BY <1>4, <2>1 DEF StoreInv, FlushInv
  <2>3. CASE wal_file[1 - active] = "null"
    BY <1>5, <1>13, <2>1, <2>3 DEF ClearLog
  <2>4. CASE wal_file[1 - active] # "null"
    <3>1. /\ Logged(active)' = Logged(active) /\ Logged(1 - active)' = {}
          /\ wal_file'[active] = wal_file[active]
      BY <1>1, <1>13, <2>1, <2>4 DEF ClearLog, Logged, DataTypeOK
    <3>2. ASSUME NEW w \in Logged(1 - active)
          PROVE  tables[writes[w]] >= w
      <4>1. writes[w] \in Keys /\ w \in Nat /\ w >= 1
        BY <1>1, <1>2
      <4>2. ~(memtable[1 - active][writes[w]] >= w)
        BY <2>2, <4>1 DEF Inactive, Empty
      <4> QED
        BY <1>1, <4>2 DEF LoggedInv
    <3>3. \A i \in {0, 1} : i = active \/ i = 1 - active
      BY <1>1
    <3>4. \A i \in {0, 1} : Logged(i)' \subseteq Logged(i)
      BY <2>1, <3>1, <3>3 DEF Logged
    <3>5. main # "killed" =>
            \A w \in 1..(job - 1) :
              tables[writes[w]] >= w \/ \E i \in {0, 1} : w \in Logged(i)'
      BY <1>1, <2>1, <3>1, <3>2, <3>3 DEF LoggedInv, Logged
    <3>6. writer \in InsertPath => job \in Logged(active)'
      BY <3>1 DEF LoggedInv
    <3>7. \A i \in {0, 1} : wal_file'[i] # "open" => Logged(i)' = {}
      BY <2>1, <2>2, <3>1, <3>3 DEF LoggedInv, Logged
    <3> QED
      BY <2>1, <2>2, <3>4, <3>5, <3>6, <3>7 DEF LoggedInv, Closing
  <2> QED
    BY <2>3, <2>4
<1>14. CASE DestroyLogs
  <2>1. /\ UNCHANGED <<writes, writer, job, active, memtable, tables>>
        /\ main \in {"close_1", "close_0"} /\ main' \in Closing
    BY <1>14, DestroyFrame DEF writerVars
  <2>2. writer = "stopped"
    BY <2>1 DEF HandoffInv
  <2>3. CASE main' = "killed"
    <3>1. \A i \in {0, 1} : Logged(i)' \subseteq Logged(i)
      BY <1>14, <2>3 DEF DestroyLogs, DestroyLog, Logged, DataTypeOK
    <3> QED
      BY <2>1, <2>2, <2>3, <3>1 DEF LoggedInv, InsertPath, Closing
  <2>4. CASE main' # "killed"
    <3>1. PICK i \in {0, 1} :
            /\ main = IF i = 1 THEN "close_1" ELSE "close_0"
            /\ main' = IF i = 1 THEN "close_0" ELSE "destroyed"
            /\ wal_log' = [wal_log EXCEPT ![i] = @ \union wal_buffer[i]]
            /\ wal_buffer' = [wal_buffer EXCEPT ![i] = {}]
      BY <1>14, <2>4 DEF DestroyLogs, DestroyLog
    <3>2. \A j \in {0, 1} : Logged(j)' = Logged(j)
      BY <3>1 DEF Logged, DataTypeOK
    <3>3. /\ main' \in {"close_0", "destroyed"} => wal_buffer'[1] = {}
          /\ main' = "destroyed" => wal_buffer'[0] = {}
      BY <3>1 DEF LoggedInv, DataTypeOK
    <3> QED
      BY <1>1, <2>1, <2>2, <3>1, <3>2, <3>3 DEF LoggedInv, InsertPath, Closing
  <2> QED
    BY <2>3, <2>4
<1>15. CASE \/ Consume \/ StopWriter \/ WriterLockActive \/ WriterLockMemtable \/ CheckSize
            \/ TestFlushing \/ Resume \/ MarkFlushing \/ SignalFlusher \/ PublishCompleted
  <2>1. /\ UNCHANGED <<writes, job, active, memtable, walVars, tables, main>>
        /\ writer' \in InsertPath <=> writer \in InsertPath
    BY <1>15 DEF Consume, StopWriter, WriterLockActive, WriterLockMemtable, CheckSize,
      TestFlushing, Resume, MarkFlushing, SignalFlusher, PublishCompleted, WriterAt,
      dataVars, mainVars, InsertPath
  <2> QED
    BY <1>5, <2>1
<1>16. CASE \/ FlusherLoop \/ AcquireFlush \/ FlusherWoken \/ BuildTable
            \/ FlusherLockInactive \/ ResetFlushing \/ WakeWriter
  <2>1. UNCHANGED <<writes, writer, job, active, memtable, walVars, tables, main>>
    BY <1>16 DEF FlusherLoop, AcquireFlush, FlusherWoken, BuildTable, FlusherLockInactive,
      ResetFlushing, WakeWriter, writerVars, dataVars, mainVars
  <2> QED
    BY <1>5, <2>1
<1>17. ASSUME NEW r \in Readers, Reader(r) \/ \E k \in Keys : BeginGet(r, k)
       PROVE  LoggedInv'
  <2>1. UNCHANGED <<writes, writer, job, active, memtable, walVars, tables, main>>
    BY <1>17, ReaderFrame DEF writerVars, dataVars, mainVars
  <2> QED
    BY <1>5, <2>1
<1>18. CASE StopWriting \/ StopFlusher \/ FinishShutdown \/ Terminated
  <2>1. UNCHANGED <<writes, writer, job, active, memtable, walVars, tables>>
    BY <1>18, MainFrame DEF writerVars, dataVars
  <2>2. main' = main \/ (main \notin Closing /\ main' \notin Closing)
    BY <1>18 DEF StopWriting, StopFlusher, FinishShutdown, MainAt, Terminated, vars, mainVars,
      Closing
  <2> QED
    BY <1>5, <2>1, <2>2
<1> QED
  BY <1>6, <1>7, <1>8, <1>9, <1>10, <1>11, <1>12, <1>13, <1>14, <1>15, <1>16, <1>17, <1>18
    DEF Next, Writer, Flusher

-----------------------------------------------------------------------------
(* The gets.                                                               *)

(* The first entry of a key in the order active memtable, inactive         *)
(* memtable, tables is at least as new as every applied write of the key.  *)
LEMMA FirstIsNewest ==
  ASSUME WriterTypeOK, JobInv, DataTypeOK, StoreInv,
         NEW k \in Keys, NEW w \in 1..(job - 1), writes[w] = k
  PROVE  /\ Active[k] # 0 => Active[k] >= w
         /\ Active[k] = 0 /\ Inactive[k] # 0 => Inactive[k] >= w
         /\ Active[k] = 0 /\ Inactive[k] = 0 => tables[k] >= w
  <1>1. Active[k] >= w \/ Inactive[k] >= w \/ tables[k] >= w
    BY DEF StoreInv, CoverInv
  <1>2. /\ Active[k] # 0 => Active[k] >= Inactive[k] /\ Active[k] >= tables[k]
        /\ Inactive[k] # 0 => Inactive[k] >= tables[k]
    BY DEF StoreInv, OrderInv
  <1> QED
    BY <1>1, <1>2, EntryTypes DEF WriterTypeOK

(* What a search of a memtable establishes, with an entry and without.     *)
LEMMA SearchedActive ==
  ASSUME WriterTypeOK, JobInv, DataTypeOK, ReaderTypeOK, StoreInv, ReaderInv,
         NEW r \in Readers, reader[r] = "search_active"
  PROVE  /\ Active[key[r]] # 0 => CoversTarget(r, Active[key[r]])
         /\ Active[key[r]] = 0 =>
              CoversTarget(r, Inactive[key[r]]) \/ CoversTarget(r, tables[key[r]])
<1>1. key[r] \in Keys /\ target[r] \in Nat /\ target[r] < job
  <2>1. target[r] < job
    BY DEF ReaderInv, GetInv
  <2> QED
    BY <2>1 DEF ReaderTypeOK, WriterTypeOK
<1>2. \A w \in 1..target[r] : w \in 1..(job - 1)
  BY <1>1 DEF WriterTypeOK
<1> QED
  BY <1>1, <1>2, FirstIsNewest DEF CoversTarget

LEMMA SearchedInactive ==
  ASSUME WriterTypeOK, JobInv, DataTypeOK, ReaderTypeOK, StoreInv, ReaderInv,
         NEW r \in Readers, reader[r] = "search_inactive"
  PROVE  /\ Inactive[key[r]] # 0 => CoversTarget(r, Inactive[key[r]])
         /\ Inactive[key[r]] = 0 => CoversTarget(r, tables[key[r]])
<1> DEFINE k == key[r]
<1>1. k \in Keys /\ target[r] \in Nat
  BY DEF ReaderTypeOK, WriterTypeOK
<1>2. CoversTarget(r, Inactive[k]) \/ CoversTarget(r, tables[k])
  BY DEF ReaderInv, GetInv
<1>3. Inactive[k] \in Nat /\ tables[k] \in Nat
  BY <1>1, EntryTypes DEF WriterTypeOK
<1>4. Inactive[k] # 0 => Inactive[k] >= tables[k]
  BY <1>1 DEF StoreInv, OrderInv
<1> QED
  BY <1>1, <1>2, <1>3, <1>4 DEF CoversTarget

(* Every step keeps what the gets have established.                        *)
LEMMA ReaderStep ==
  ASSUME WriterTypeOK, JobInv, DataTypeOK, ReaderTypeOK, StoreInv, ReaderInv, Next
  PROVE  ReaderInv'
<1>1. CASE UNCHANGED <<writes, job, active, memtable, tables, readerVars>>
  BY <1>1 DEF ReaderInv, GetInv, CoversTarget, Inactive, DataTypeOK, dataVars,
    readerVars, writerVars
<1>2. ASSUME NEW k \in Keys, Put(k)
      PROVE  ReaderInv'
  <2>1. /\ writes' = Append(writes, k)
        /\ UNCHANGED <<job, tables, reader, key, target, result>> /\ UNCHANGED Inactive
    BY <1>2 DEF Put, writerVars, dataVars, readerVars, Inactive
  <2>2. \A w \in 1..Len(writes) : writes'[w] = writes[w]
    BY <2>1 DEF WriterTypeOK
  <2>3. ASSUME NEW r \in Readers, NEW e, CoversTarget(r, e)
        PROVE  CoversTarget(r, e)'
    BY <2>1, <2>2, <2>3 DEF CoversTarget, ReaderTypeOK, WriterTypeOK
  <2> QED
    BY <2>1, <2>3 DEF ReaderInv, GetInv, CoversTarget
<1>3. CASE Insert
  <2>1. /\ job' = job + 1
        /\ memtable' = [memtable EXCEPT ![active][writes[job]] = job]
        /\ UNCHANGED <<writes, active, tables, reader, key, target, result>>
    BY <1>3 DEF Insert, readerVars
  <2>2. Inactive' = Inactive
    BY <2>1 DEF Inactive, DataTypeOK
  <2> QED
    BY <2>1, <2>2 DEF ReaderInv, GetInv, CoversTarget, ReaderTypeOK, WriterTypeOK
<1>4. CASE SwapActive
  <2>1. /\ \A r \in Readers : reader[r] \notin {"lock_inactive", "search_inactive"}
        /\ UNCHANGED <<writes, job, tables, reader, key, target, result>>
    BY <1>4 DEF SwapActive, HoldsActiveLockShared, readerVars
  <2> QED
    BY <2>1 DEF ReaderInv, GetInv, CoversTarget
<1>5. CASE AddTable
  <2>1. /\ flusher = "add" /\ tables' = TablesWithBuilt
        /\ UNCHANGED <<writes, job, reader, key, target, result>> /\ UNCHANGED Inactive
    BY <1>5 DEF AddTable, FlusherAt, writerVars, readerVars, Inactive
  <2>2. built = Inactive
    BY <2>1 DEF StoreInv, FlushInv
  <2>3. \A k \in Keys : tables'[k] >= tables[k] /\ tables'[k] \in Nat
    BY <2>1, <2>2, EntryTypes DEF TablesWithBuilt, StoreInv, OrderInv, WriterTypeOK
  <2>4. ASSUME NEW r \in Readers, CoversTarget(r, tables[key[r]])
        PROVE  CoversTarget(r, tables[key[r]])'
    <3>1. key[r] \in Keys /\ target[r] \in Nat
      BY DEF ReaderTypeOK, WriterTypeOK
    <3> QED
      BY <3>1, <2>1, <2>3, <2>4, EntryTypes DEF CoversTarget, WriterTypeOK
  <2>5. ASSUME NEW r \in Readers, NEW e, CoversTarget(r, e)
        PROVE  CoversTarget(r, e)'
    BY <2>1, <2>5 DEF CoversTarget
  <2> QED
    BY <2>1, <2>4, <2>5 DEF ReaderInv, GetInv, CoversTarget
<1>6. CASE ClearMemtable
  <2>1. /\ flusher = "clear"
        /\ UNCHANGED <<writes, job, tables, reader, key, target, result>>
    BY <1>6 DEF ClearMemtable, FlusherAt, writerVars, readerVars
  <2>2. ASSUME NEW r \in Readers, CoversTarget(r, Inactive[key[r]])
        PROVE  CoversTarget(r, tables[key[r]])
    <3>1. key[r] \in Keys /\ target[r] \in Nat
      BY DEF ReaderTypeOK, WriterTypeOK
    <3>2. Inactive[key[r]] <= tables[key[r]]
      BY <2>1, <3>1 DEF StoreInv, FlushInv
    <3> QED
      BY <2>2, <3>1, <3>2, EntryTypes DEF CoversTarget, WriterTypeOK
  <2> QED
    BY <2>1, <2>2 DEF ReaderInv, GetInv, CoversTarget
<1>7. ASSUME NEW r \in Readers, NEW k \in Keys, BeginGet(r, k)
      PROVE  ReaderInv'
  <2>1. /\ UNCHANGED <<writes, job, tables>> /\ UNCHANGED Inactive
        /\ \A s \in Readers \ {r} : reader'[s] = reader[s] /\ key'[s] = key[s]
                                    /\ target'[s] = target[s] /\ result'[s] = result[s]
    BY <1>7 DEF BeginGet, ReaderAt, writerVars, dataVars, ReaderTypeOK, Inactive
  <2>2. ASSUME NEW s \in Readers, s # r
        PROVE  GetInv(s)'
    BY <2>1, <2>2 DEF ReaderInv, GetInv, CoversTarget
  <2>3. reader'[r] = "await"
    BY <1>7 DEF BeginGet, ReaderAt, ReaderTypeOK
  <2> QED
    BY <2>2, <2>3 DEF ReaderInv, GetInv
<1>8. ASSUME NEW r \in Readers, AwaitTarget(r)
      PROVE  ReaderInv'
  <2>1. /\ UNCHANGED <<writes, job, tables>> /\ UNCHANGED Inactive
        /\ \A s \in Readers \ {r} : reader'[s] = reader[s] /\ key'[s] = key[s]
                                    /\ target'[s] = target[s] /\ result'[s] = result[s]
    BY <1>8 DEF AwaitTarget, ReaderAt, writerVars, dataVars, ReaderTypeOK, Inactive
  <2>2. ASSUME NEW s \in Readers, s # r
        PROVE  GetInv(s)'
    BY <2>1, <2>2 DEF ReaderInv, GetInv, CoversTarget
  <2>3. /\ reader'[r] = "lock_active" /\ target' = target
        /\ highest_write_completed >= target[r]
    BY <1>8 DEF AwaitTarget, ReaderAt, Applied, ReaderTypeOK
  <2>4. target[r] \in Nat
    BY DEF ReaderTypeOK, WriterTypeOK
  <2>5. target'[r] < job'
    BY <2>1, <2>3, <2>4 DEF JobInv, WriterTypeOK
  <2> QED
    BY <2>2, <2>3, <2>5 DEF ReaderInv, GetInv
<1>9. ASSUME NEW r \in Readers, ReaderLockActive(r)
      PROVE  ReaderInv'
  BY <1>9 DEF ReaderLockActive, ReaderAt, WriterHoldsActiveLockUnique,
    writerVars, dataVars, ReaderInv, GetInv, CoversTarget, Inactive,
    DataTypeOK, readerVars
<1>10. ASSUME NEW r \in Readers, ReaderLockMemtable(r)
      PROVE  ReaderInv'
  BY <1>10 DEF ReaderLockMemtable, ReaderAt, WriterInserts, writerVars,
    dataVars, ReaderInv, GetInv, CoversTarget, Inactive, DataTypeOK,
    readerVars
<1>11. ASSUME NEW r \in Readers, SearchActive(r)
      PROVE  ReaderInv'
  <2>1. /\ UNCHANGED <<writes, job, tables>> /\ UNCHANGED Inactive
        /\ \A s \in Readers \ {r} : reader'[s] = reader[s] /\ key'[s] = key[s]
                                    /\ target'[s] = target[s] /\ result'[s] = result[s]
    BY <1>11 DEF SearchActive, ReaderAt, Found, writerVars, dataVars, ReaderTypeOK, Inactive
  <2>2. ASSUME NEW s \in Readers, s # r
        PROVE  GetInv(s)'
    BY <2>1, <2>2 DEF ReaderInv, GetInv, CoversTarget
  <2>3. reader[r] = "search_active" /\ UNCHANGED <<key, target>>
    BY <1>11 DEF SearchActive
  <2>4. \/ Active[key[r]] # 0 /\ reader'[r] = "idle" /\ result'[r] = Active[key[r]]
        \/ Active[key[r]] = 0 /\ reader'[r] = "lock_inactive"
    BY <1>11 DEF SearchActive, Found, ReaderAt, ReaderTypeOK, Active
  <2>5. target[r] < job
    BY <2>3 DEF ReaderInv, GetInv
  <2>6. GetInv(r)'
    BY <2>1, <2>3, <2>4, <2>5, SearchedActive DEF GetInv, CoversTarget
  <2> QED
    BY <2>2, <2>6 DEF ReaderInv
<1>12. ASSUME NEW r \in Readers, ReaderLockInactive(r)
      PROVE  ReaderInv'
  BY <1>12 DEF ReaderLockInactive, ReaderAt, FlusherClears, writerVars,
    dataVars, ReaderInv, GetInv, CoversTarget, Inactive, DataTypeOK,
    readerVars
<1>13. ASSUME NEW r \in Readers, SearchInactive(r)
      PROVE  ReaderInv'
  <2>1. /\ UNCHANGED <<writes, job, tables>> /\ UNCHANGED Inactive
        /\ \A s \in Readers \ {r} : reader'[s] = reader[s] /\ key'[s] = key[s]
                                    /\ target'[s] = target[s] /\ result'[s] = result[s]
    BY <1>13 DEF SearchInactive, ReaderAt, Found, writerVars, dataVars, ReaderTypeOK, Inactive
  <2>2. ASSUME NEW s \in Readers, s # r
        PROVE  GetInv(s)'
    BY <2>1, <2>2 DEF ReaderInv, GetInv, CoversTarget
  <2>3. reader[r] = "search_inactive" /\ UNCHANGED <<key, target>>
    BY <1>13 DEF SearchInactive
  <2>4. \/ Inactive[key[r]] # 0 /\ reader'[r] = "idle" /\ result'[r] = Inactive[key[r]]
        \/ Inactive[key[r]] = 0 /\ reader'[r] = "tables"
    BY <1>13 DEF SearchInactive, Found, ReaderAt, ReaderTypeOK, Inactive
  <2>5. target[r] < job
    BY <2>3 DEF ReaderInv, GetInv
  <2>6. GetInv(r)'
    BY <2>1, <2>3, <2>4, <2>5, SearchedInactive DEF GetInv, CoversTarget
  <2> QED
    BY <2>2, <2>6 DEF ReaderInv
<1>14. ASSUME NEW r \in Readers, SearchTables(r)
      PROVE  ReaderInv'
  <2>1. /\ UNCHANGED <<writes, job, tables>> /\ UNCHANGED Inactive
        /\ \A s \in Readers \ {r} : reader'[s] = reader[s] /\ key'[s] = key[s]
                                    /\ target'[s] = target[s] /\ result'[s] = result[s]
    BY <1>14 DEF SearchTables, ReaderAt, Found, writerVars, dataVars, ReaderTypeOK, Inactive
  <2>2. ASSUME NEW s \in Readers, s # r
        PROVE  GetInv(s)'
    BY <2>1, <2>2 DEF ReaderInv, GetInv, CoversTarget
  <2>3. /\ reader[r] = "tables" /\ UNCHANGED <<key, target>>
        /\ reader'[r] = "idle" /\ result'[r] = tables[key[r]]
    BY <1>14 DEF SearchTables, ReaderAt, ReaderTypeOK
  <2>4. CoversTarget(r, result[r])'
    BY <2>1, <2>3 DEF ReaderInv, GetInv, CoversTarget
  <2> QED
    BY <2>2, <2>3, <2>4 DEF ReaderInv, GetInv
<1>15. QED
  BY <1>1, <1>2, <1>3, <1>4, <1>5, <1>6, <1>7, <1>8, <1>9, <1>10, <1>11,
    <1>12, <1>13, <1>14, MainFrame, DestroyFrame DEF Next, Writer, Flusher, Reader, Consume,
    StopWriter, AppendLog, WriterLockActive, WriterLockMemtable, CheckSize,
    TestFlushing, Resume, MarkFlushing, SignalFlusher, OpenLog,
    PublishCompleted, FlusherLoop, AcquireFlush, FlusherWoken, BuildTable,
    FlusherLockInactive, ClearLog, ResetFlushing, WakeWriter, dataVars,
    readerVars, writerVars

-----------------------------------------------------------------------------
(* The invariant holds initially.                                          *)
LEMMA InitInv == Init => Inv
<1> SUFFICES ASSUME Init
             PROVE  Inv
  OBVIOUS
<1>1. Empty \in [Keys -> {0}] /\ Len(writes) = 0
  BY DEF Init, Empty
<1>2. Active = Empty /\ Inactive = Empty
  BY DEF Init, Active, Inactive
<1>3. TypeInv
  <2>1. WriterTypeOK /\ JobInv
    BY <1>1, ConstantsAssumption DEF Init, WriterTypeOK, JobInv
  <2>2. DataTypeOK
    BY <1>1 DEF Init, DataTypeOK, Memtable, Writes
  <2>3. SyncTypeOK
    BY DEF Init, SyncTypeOK
  <2>4. ReaderTypeOK
    BY <1>1 DEF Init, ReaderTypeOK
  <2> QED
    BY <2>1, <2>2, <2>3, <2>4 DEF TypeInv, TypeOK
<1>4. HandoffInv /\ LogInv
  BY DEF Init, HandoffInv, FlushWindow, LogInv, HandlesInv
<1>5. StoreInv /\ LoggedInv
  BY <1>1, <1>2 DEF Init, StoreInv, EntryInv, CoverInv, OrderInv, FlushInv, LoggedInv, Logged,
    InsertPath
<1>6. ReaderInv
  BY DEF Init, ReaderInv, GetInv, CoversTarget
<1> QED
  BY <1>3, <1>4, <1>5, <1>6 DEF Inv

(* Every step preserves the invariant.                                     *)
LEMMA InvStep == Inv /\ [Next]_vars => Inv'
<1> SUFFICES ASSUME Inv, [Next]_vars
             PROVE  Inv'
  OBVIOUS
<1>1. CASE Next
  <2>1. /\ WriterTypeOK /\ DataTypeOK /\ SyncTypeOK /\ ReaderTypeOK /\ JobInv
        /\ HandoffInv /\ LogInv /\ StoreInv /\ LoggedInv /\ ReaderInv
    BY DEF Inv, TypeInv, TypeOK
  <2>2. WriterTypeOK' /\ DataTypeOK' /\ SyncTypeOK' /\ ReaderTypeOK' /\ JobInv'
    BY <1>1, <2>1, ConstantsAssumption, WriterTypeStep, DataTypeStep, SyncTypeStep,
      ReaderTypeStep
  <2>3. HandoffInv' /\ LogInv' /\ StoreInv'
    BY <1>1, <2>1, HandoffStep, LogStep, StoreStep
  <2>4. LoggedInv' /\ ReaderInv'
    BY <1>1, <2>1, LoggedStep, ReaderStep
  <2> QED
    BY <2>2, <2>3, <2>4 DEF Inv, TypeInv, TypeOK
<1>2. CASE UNCHANGED vars
  <2> USE <1>2 DEF vars, writerVars, dataVars, flusherVars, syncVars, readerVars, mainVars
  <2>1. TypeInv'
    <3>1. WriterTypeOK' /\ JobInv'
      BY DEF Inv, TypeInv, TypeOK, WriterTypeOK, JobInv
    <3>2. DataTypeOK'
      BY DEF Inv, TypeInv, TypeOK, DataTypeOK, Memtable, Writes
    <3>3. SyncTypeOK' /\ ReaderTypeOK'
      BY DEF Inv, TypeInv, TypeOK, SyncTypeOK, ReaderTypeOK
    <3> QED
      BY <3>1, <3>2, <3>3 DEF TypeInv, TypeOK
  <2>2. HandoffInv' /\ LogInv'
    BY DEF Inv, HandoffInv, FlushWindow, LogInv, HandlesInv
  <2>3. StoreInv' /\ LoggedInv'
    BY DEF Inv, StoreInv, EntryInv, CoverInv, OrderInv, FlushInv, LoggedInv, Logged,
      Active, Inactive, Empty
  <2>4. ReaderInv'
    BY DEF Inv, ReaderInv, GetInv, CoversTarget, Inactive
  <2> QED
    BY <2>1, <2>2, <2>3, <2>4 DEF Inv
<1> QED
  BY <1>1, <1>2

(* The invariant always holds: what DB.cpp does in any interleaving of     *)
(* writer, flusher, gets and destructor.                                   *)
THEOREM Invariance == Spec => []Inv
  BY InitInv, InvStep, PTL DEF Spec

-----------------------------------------------------------------------------
(* The properties the runs check.                                          *)

(* Every variable always has its type.                                     *)
THEOREM TypeCorrect == Spec => []TypeOK
<1>1. Inv => TypeOK
  BY DEF Inv, TypeInv
<1> QED
  BY <1>1, Invariance, PTL

(* Writer and flusher hand over one memtable at a time, and neither        *)
(* semaphore between them gets a second permit before the destructor runs. *)
THEOREM HandoffIsUnique == Spec => []OneHandoff
<1>1. Inv => OneHandoff
  BY DEF Inv, HandoffInv, OneHandoff, FlushWindow, TypeInv, TypeOK, SyncTypeOK
<1> QED
  BY <1>1, Invariance, PTL

(* active does not change while the flusher works on 1 - active.           *)
THEOREM ActiveIsStable == Spec => ActiveStableWhileFlushing
<1>1. Inv /\ [Next]_vars => [(flusher \in FlushWindow) => (active' = active)]_vars
  <2> SUFFICES ASSUME Inv, Next, flusher \in FlushWindow
               PROVE  active' = active
    BY DEF vars
  <2>1. ASSUME SwapActive
        PROVE  FALSE
    BY <2>1 DEF SwapActive, WriterAt, Inv, HandoffInv, FlushWindow
  <2>2. ASSUME Writer
        PROVE  active' = active
    BY <2>1, <2>2 DEF Writer, Consume, StopWriter, AppendLog, WriterLockActive,
      WriterLockMemtable, Insert, CheckSize, TestFlushing, Resume, MarkFlushing,
      SignalFlusher, OpenLog, PublishCompleted, dataVars
  <2>3. ASSUME Flusher
        PROVE  active' = active
    BY <2>3 DEF Flusher, FlusherLoop, AcquireFlush, FlusherWoken, BuildTable, AddTable,
      FlusherLockInactive, ClearMemtable, ClearLog, ResetFlushing, WakeWriter, dataVars
  <2> QED
    BY <2>2, <2>3, ReaderFrame, MainFrame, DestroyFrame DEF Next, Put, dataVars
<1> QED
  BY <1>1, Invariance, PTL DEF Spec, ActiveStableWhileFlushing

(* No entry leaves the memtables before a table that a get reaches has it. *)
THEOREM ClearedEntriesArePublished == Spec => ClearOnlyPublished
<1>1. Inv /\ [Next]_vars =>
        [\A i \in {0, 1}, k \in Keys :
           memtable'[i][k] = memtable[i][k] \/ memtable'[i][k] > memtable[i][k]
             \/ tables[k] >= memtable[i][k]]_vars
  <2> SUFFICES ASSUME Inv, Next, NEW i \in {0, 1}, NEW k \in Keys
               PROVE  \/ memtable'[i][k] = memtable[i][k]
                      \/ memtable'[i][k] > memtable[i][k]
                      \/ tables[k] >= memtable[i][k]
    BY DEF vars
  <2>1. CASE UNCHANGED memtable
    BY <2>1
  <2>2. CASE Insert
    <3>1. memtable' = [memtable EXCEPT ![active][writes[job]] = job] /\ writes[job] \in Keys
      BY <2>2 DEF Insert, WriterAt, Inv, TypeInv, TypeOK, WriterTypeOK, JobInv
    <3>2. memtable[i][k] \in Nat /\ job \in Nat /\ (memtable[i][k] # 0 => memtable[i][k] < job)
      BY DEF Inv, TypeInv, TypeOK, DataTypeOK, WriterTypeOK, Memtable, StoreInv, EntryInv
    <3>3. memtable'[i][k] = IF i = active /\ k = writes[job] THEN job ELSE memtable[i][k]
      BY <3>1 DEF Inv, TypeInv, TypeOK, DataTypeOK, Memtable
    <3>4. job >= 1
      BY DEF Inv, TypeInv, TypeOK, WriterTypeOK
    <3> QED
      BY <3>2, <3>3, <3>4
  <2>3. CASE ClearMemtable
    <3>1. /\ flusher = "clear" /\ memtable' = [memtable EXCEPT ![1 - active] = Empty]
          /\ active \in {0, 1}
      BY <2>3 DEF ClearMemtable, FlusherAt, Inv, TypeInv, TypeOK, DataTypeOK
    <3>2. CASE i = 1 - active
      <4>1. Inactive[k] <= tables[k]
        BY <3>1 DEF Inv, StoreInv, FlushInv
      <4>2. memtable[i][k] = Inactive[k] /\ Inactive[k] \in Nat /\ tables[k] \in Nat
        BY <3>2, EntryTypes DEF Inactive, Inv, TypeInv, TypeOK, WriterTypeOK
      <4> QED
        BY <4>1, <4>2
    <3>3. CASE i # 1 - active
      BY <3>1, <3>3 DEF Inv, TypeInv, TypeOK, DataTypeOK
    <3> QED
      BY <3>2, <3>3
  <2> QED
    BY <2>1, <2>2, <2>3, ReaderFrame, MainFrame, DestroyFrame DEF Next, Put, dataVars, Writer, Consume,
      StopWriter, AppendLog, WriterLockActive, WriterLockMemtable, CheckSize, TestFlushing,
      Resume, SwapActive, MarkFlushing, SignalFlusher, OpenLog, PublishCompleted, Flusher,
      FlusherLoop, AcquireFlush, FlusherWoken, BuildTable, AddTable, FlusherLockInactive,
      ClearLog, ResetFlushing, WakeWriter
<1> QED
  BY <1>1, Invariance, PTL DEF Spec, ClearOnlyPublished

(* Every applied write, or a newer one of its key, is in a table, or the   *)
(* write is in a log, its file or its buffer; the destructor leaves none   *)
(* in a buffer unless it was killed.                                       *)
THEOREM AppliedWritesAreRecoverable == Spec => []Recoverable
<1>1. Inv => Recoverable
  BY DEF Inv, LoggedInv, Logged, Recoverable
<1> QED
  BY <1>1, Invariance, PTL

(* The log files are opened, appended to and closed in their order.        *)
THEOREM LogsFollowTheirLifecycle == Spec => []LogLifecycle
<1>1. Inv => LogLifecycle
  <2> SUFFICES ASSUME Inv, main \notin Closing
               PROVE  LogLifecycle
    BY DEF Inv, TypeInv, TypeOK, SyncTypeOK, HandoffInv, Closing, LogLifecycle
  <2> QED
    BY DEF Inv, LogInv, HandlesInv, HandoffInv, FlushWindow, LogLifecycle
<1> QED
  BY <1>1, Invariance, PTL

(* A get misses no write that was accepted before it was called.           *)
THEOREM GetsAreFresh == Spec => []FreshRead
<1>1. Inv => FreshRead
  BY DEF Inv, ReaderInv, GetInv, CoversTarget, FreshRead
<1> QED
  BY <1>1, Invariance, PTL

-----------------------------------------------------------------------------
(* Refinement.                                                             *)

(* An answer that covers the target of its get and is 0 or an accepted     *)
(* write of the key is one the abstract store allows.                      *)
LEMMA AnswerAllowed ==
  ASSUME WriterTypeOK, ReaderTypeOK, NEW r \in Readers, NEW w \in 0..Len(writes),
         CoversTarget(r, w), w # 0 => writes[w] = key[r],
         reader[r] # "idle", reader' = [reader EXCEPT ![r] = "idle"],
         result' = [result EXCEPT ![r] = w], UNCHANGED <<writes, key, target>>
  PROVE  KV!Return(r)
<1> DEFINE n == IF w > target[r] THEN w ELSE target[r]
<1>1. n \in target[r]..Len(writes) /\ target[r] \in Nat
  BY DEF WriterTypeOK, ReaderTypeOK
<1>2. KV!IsNewest(w, key[r], n)
  BY <1>1 DEF KV!IsNewest, CoversTarget, WriterTypeOK
<1>3. {s \in Readers : reader'[s] # "idle"} = {s \in Readers : reader[s] # "idle"} \ {r}
  BY DEF ReaderTypeOK
<1> QED
  BY <1>1, <1>2, <1>3 DEF KV!Return

(* The steps of a get that do not return leave the abstract state alone,   *)
(* those that return are a Return.                                         *)
LEMMA ReaderImplements ==
  ASSUME WriterTypeOK, JobInv, DataTypeOK, ReaderTypeOK, StoreInv, ReaderInv,
         NEW r \in Readers, Reader(r)
  PROVE  KV!Return(r) \/ UNCHANGED KV!vars
<1>1. key[r] \in Keys
  BY DEF ReaderTypeOK
<1>2. ASSUME UNCHANGED <<writes, key, target, result>>,
             reader[r] # "idle", reader'[r] # "idle",
             \A s \in Readers \ {r} : reader'[s] = reader[s]
      PROVE  UNCHANGED KV!vars
  <2>1. {s \in Readers : reader'[s] # "idle"} = {s \in Readers : reader[s] # "idle"}
    BY <1>2
  <2> QED
    BY <1>2, <2>1 DEF KV!vars
<1>3. CASE AwaitTarget(r) \/ ReaderLockActive(r) \/ ReaderLockMemtable(r) \/ ReaderLockInactive(r)
  <2>1. /\ UNCHANGED <<writes, key, target, result>>
        /\ reader[r] # "idle" /\ reader'[r] # "idle"
        /\ \A s \in Readers \ {r} : reader'[s] = reader[s]
    BY <1>3 DEF AwaitTarget, ReaderLockActive, ReaderLockMemtable, ReaderLockInactive,
      ReaderAt, ReaderTypeOK
  <2> QED
    BY <1>2, <2>1
<1>4. CASE SearchActive(r)
  <2> DEFINE w == Active[key[r]]
  <2>1. reader[r] = "search_active" /\ UNCHANGED <<writes, key, target>>
    BY <1>4 DEF SearchActive
  <2>2. CASE w # 0
    <3>1. /\ reader' = [reader EXCEPT ![r] = "idle"] /\ result' = [result EXCEPT ![r] = w]
      BY <1>4, <2>2 DEF SearchActive, Found, Active
    <3>2. w \in 0..Len(writes) /\ writes[w] = key[r]
      BY <1>1, <2>2, EntryTypes DEF StoreInv, EntryInv, Active, DataTypeOK
    <3> QED
      BY <2>1, <2>2, <3>1, <3>2, SearchedActive, AnswerAllowed
  <2>3. CASE w = 0
    <3>1. reader' = [reader EXCEPT ![r] = "lock_inactive"] /\ UNCHANGED result
      BY <1>4, <2>3 DEF SearchActive, Found, ReaderAt, Active
    <3> QED
      BY <1>2, <2>1, <3>1 DEF ReaderTypeOK
  <2> QED
    BY <2>2, <2>3
<1>5. CASE SearchInactive(r)
  <2> DEFINE w == Inactive[key[r]]
  <2>1. reader[r] = "search_inactive" /\ UNCHANGED <<writes, key, target>>
    BY <1>5 DEF SearchInactive
  <2>2. CASE w # 0
    <3>1. /\ reader' = [reader EXCEPT ![r] = "idle"] /\ result' = [result EXCEPT ![r] = w]
      BY <1>5, <2>2 DEF SearchInactive, Found, Inactive
    <3>2. w \in 0..Len(writes) /\ writes[w] = key[r]
      BY <1>1, <2>2, EntryTypes DEF StoreInv, EntryInv, Inactive, DataTypeOK
    <3> QED
      BY <2>1, <2>2, <3>1, <3>2, SearchedInactive, AnswerAllowed
  <2>3. CASE w = 0
    <3>1. reader' = [reader EXCEPT ![r] = "tables"] /\ UNCHANGED result
      BY <1>5, <2>3 DEF SearchInactive, Found, ReaderAt, Inactive
    <3> QED
      BY <1>2, <2>1, <3>1 DEF ReaderTypeOK
  <2> QED
    BY <2>2, <2>3
<1>6. CASE SearchTables(r)
  <2> DEFINE w == tables[key[r]]
  <2>1. /\ reader[r] = "tables" /\ UNCHANGED <<writes, key, target>>
        /\ reader' = [reader EXCEPT ![r] = "idle"] /\ result' = [result EXCEPT ![r] = w]
    BY <1>6 DEF SearchTables, ReaderAt
  <2>2. w \in 0..Len(writes) /\ (w # 0 => writes[w] = key[r])
    BY <1>1, EntryTypes DEF StoreInv, EntryInv
  <2>3. CoversTarget(r, w)
    BY <2>1 DEF ReaderInv, GetInv
  <2> QED
    BY <2>1, <2>2, <2>3, AnswerAllowed
<1> QED
  BY <1>3, <1>4, <1>5, <1>6 DEF Reader

(* The in-memory store implements the abstract one.                        *)
THEOREM Refinement == Spec => ImplementsKVStore
<1>1. Init => KV!Init
  BY DEF Init, KV!Init
<1>2. ASSUME Inv, [Next]_vars
      PROVE  [KV!Next]_KV!vars
  <2>1. /\ WriterTypeOK /\ JobInv /\ DataTypeOK /\ ReaderTypeOK /\ StoreInv /\ ReaderInv
    BY <1>2 DEF Inv, TypeInv, TypeOK
  <2>2. CASE UNCHANGED <<writes, readerVars>>
    BY <2>2 DEF KV!vars, readerVars
  <2>3. ASSUME NEW k \in Keys, Put(k)
        PROVE  KV!Next
    BY <2>3 DEF Put, readerVars, KV!Next, KV!Put
  <2>4. ASSUME NEW r \in Readers, NEW k \in Keys, BeginGet(r, k)
        PROVE  KV!Next
    <3>1. {s \in Readers : reader'[s] # "idle"} = {s \in Readers : reader[s] # "idle"} \union {r}
      BY <2>1, <2>4 DEF BeginGet, ReaderAt, ReaderTypeOK
    <3>2. KV!Call(r, k)
      BY <2>4, <3>1 DEF BeginGet, ReaderAt, highest_write_received, KV!Call
    <3> QED
      BY <3>2 DEF KV!Next
  <2>5. ASSUME NEW r \in Readers, Reader(r)
        PROVE  KV!Next \/ UNCHANGED KV!vars
    BY <2>1, <2>5, ReaderImplements DEF KV!Next
  <2> QED
    BY <1>2, <2>2, <2>3, <2>4, <2>5, WriterFrame, FlusherFrame, MainFrame,
      DestroyFrame DEF Next, vars
<1> QED
  BY <1>1, <1>2, Invariance, PTL DEF Spec, ImplementsKVStore, KV!Spec
===============================================================================
