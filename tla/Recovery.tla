------------------------------- MODULE Recovery -------------------------------
(***************************************************************************)
(* The files of lsm::DB over several lives of the process: the logs with   *)
(* what stdio still buffers of them, the tables of the levels, a crash at  *)
(* any moment or an orderly end, and DB::recover, which builds the store   *)
(* again from what it finds in the two directories.                        *)
(*                                                                         *)
(* The steps are those a crash can tell apart: each changes one file or    *)
(* some memory.  How threads interleave within them is the subject of      *)
(* MemtableFlush and Compaction; of the latter this module takes over that *)
(* a compactor removes the tables it merged.                               *)
(*                                                                         *)
(* Data.  A write is its sequence number.  A memtable and a table map each *)
(* key to the newest write they hold, 0 for none.  A log is the sequence   *)
(* of the records in the file; Torn at its end is the first part of the    *)
(* next record, and Junk is such a part whose rest will never come.        *)
(***************************************************************************)
EXTENDS Integers, Sequences, FiniteSets, SequencesExt, FiniteSetsExt, Functions

CONSTANTS
  Keys,
  MAX_LEVEL, COMPACTION_TRIGGER,
  Radix,               (* of the numbers in file names: 10                 *)
  BadClose,            (* what fclose may do to a handle that is not open  *)
  MaxWrites, MaxStarts, MaxCrashes     (* bounds                           *)

ASSUME ConstantsAssumption ==
  /\ MAX_LEVEL \in Nat \ {0} /\ COMPACTION_TRIGGER \in Nat /\ COMPACTION_TRIGGER >= 2
  /\ Radix \in Nat /\ Radix >= 2
  /\ BadClose \subseteq {"returns", "kills"} /\ BadClose # {}
  /\ MaxWrites \in Nat /\ MaxStarts \in Nat \ {0} /\ MaxCrashes \in Nat

VARIABLES
  (* the directories *)
  logs,                (* number -> the records in wal_<number>.log        *)
  sstables,            (* <<level, number>> -> sstable<level>_<number>.db  *)
  (* the process *)
  phase,               (* where its main thread is                         *)
  writer,              (* "run", "full" or "open"                          *)
  wal_files,           (* logs that recovery has yet to read               *)
  active, memtable,
  file,                (* of each WAL: the log behind its FILE handle      *)
  filepath,            (* of each WAL: the log it removes                  *)
  buffer,              (* of each WAL: the records stdio has not written   *)
  wal_log_counter,
  flusher, flush_num,  (* its control point, the number of its table       *)
  readers_at_level,    (* level -> numbers of its tables                   *)
  sstable_counter, curr_max_level,
  merge,               (* level -> the merge of its oldest tables          *)
  awake,               (* levels a compactor was woken for in this life    *)
  doomed,              (* tables that go when their last reader does       *)
  mapped,              (* contents of unlinked files that are still read   *)
  (* history *)
  writes,              (* the writes applied so far                        *)
  lost,                (* those that only a buffer held in a crash         *)
  unlinked,            (* level -> the highest number of a table unlinked  *)
  trusted,             (* the files were InOrder whenever a life ended     *)
  starts, crashes

disk       == <<logs, sstables>>
walVars    == <<file, filepath, buffer>>
memVars    == <<active, memtable>>
tableVars  == <<readers_at_level, sstable_counter, curr_max_level>>
mergeVars  == <<merge, awake, doomed, mapped, unlinked>>
flushVars  == <<flusher, flush_num>>
lives      == <<lost, trusted, starts, crashes>>
vars == <<disk, phase, writer, wal_files, memVars, walVars, wal_log_counter, flushVars, tableVars,
          mergeVars, writes, lives>>

Levels == 0..MAX_LEVEL
Slots == {0, 1}
Torn == 0
Junk == -1
NULL == -1             (* no FILE handle, or an empty path                 *)
Closed == -2           (* a handle that fclose has freed                   *)
Empty == [k \in Keys |-> 0]
Unfinished == [finished |-> FALSE, data |-> Empty]
Idle == [at |-> "idle", num |-> 0, purge |-> FALSE]

Up == phase \notin {"down", "failed"}
Works == phase \in {"up", "stopping", "log2"}         (* its threads run *)

-----------------------------------------------------------------------------
(* Names.  Here and below, an operator behind a comment that begins with   *)
(* "Mutant" is a wrong version of the definition after it; no              *)
(* specification uses it.                                                  *)

Digits[n \in Nat] == IF n < Radix THEN <<n>> ELSE Append(Digits[n \div Radix], n % Radix)

(* Paths are compared as strings.                                          *)
SortsBefore(m, n) ==
  \/ IsStrictPrefix(Digits[m], Digits[n])
  \/ \E i \in DOMAIN Digits[m] \intersect DOMAIN Digits[n] :
       /\ \A j \in 1..(i - 1) : Digits[m][j] = Digits[n][j]
       /\ Digits[m][i] < Digits[n][i]

(* A file that is opened for writing replaces one of its name.             *)
Opened(files, name, contents) ==
  [f \in DOMAIN files \union {name} |-> IF f = name THEN contents ELSE files[f]]

(* The tables of a level are sorted by their numbers.                      *)
Sorted(S) ==
  CHOOSE list \in [1..Cardinality(S) -> S] : \A i, j \in DOMAIN list : i < j => list[i] < list[j]

TableNumbers == {t[2] : t \in DOMAIN sstables}
Numbered(l) == {t[2] : t \in {u \in DOMAIN sstables : u[1] = l}}

-----------------------------------------------------------------------------
(* The life of a process.                                                  *)

FreshMemory ==
  /\ writer' = "run" /\ wal_files' = <<>> /\ active' = 0 /\ memtable' = [i \in Slots |-> Empty]
  /\ file' = [i \in Slots |-> NULL] /\ filepath' = [i \in Slots |-> NULL]
  /\ buffer' = [i \in Slots |-> <<>>] /\ wal_log_counter' = 1
  /\ flusher' = "idle" /\ flush_num' = 0
  /\ readers_at_level' = [l \in Levels |-> <<>>]
  /\ sstable_counter' = 0 /\ curr_max_level' = 0
  /\ merge' = [l \in 0..(MAX_LEVEL - 1) |-> Idle] /\ awake' = {}
  /\ doomed' = {} /\ mapped' = <<>>

(* The first life begins with empty directories and opens wal_0.log.       *)
Init ==
  /\ logs = [n \in {0} |-> <<>>] /\ sstables = <<>>
  /\ phase = "up" /\ writer = "run" /\ wal_files = <<>> /\ active = 0 /\ memtable = [i \in Slots |-> Empty]
  /\ file = [i \in Slots |-> IF i = 0 THEN 0 ELSE NULL]
  /\ filepath = [i \in Slots |-> IF i = 0 THEN 0 ELSE NULL]
  /\ buffer = [i \in Slots |-> <<>>] /\ wal_log_counter = 1
  /\ flusher = "idle" /\ flush_num = 0
  /\ readers_at_level = [l \in Levels |-> <<>>]
  /\ sstable_counter = 0 /\ curr_max_level = 0
  /\ merge = [l \in 0..(MAX_LEVEL - 1) |-> Idle] /\ awake = {}
  /\ doomed = {} /\ mapped = <<>>
  /\ writes = <<>> /\ lost = {} /\ unlinked = [l \in Levels |-> -1]
  /\ trusted = TRUE /\ starts = 1 /\ crashes = 0

(* The newest write of key k among ws.                                     *)
NewestOf(k, ws) == Max({w \in ws : w > 0 /\ writes[w].key = k} \union {0})

(* What only stdio holds: not a buffer whose memtable is in a table.       *)
OnlyBuffered ==
  UNION {ToSet(buffer[i]) : i \in {j \in Slots :
    ~(j = 1 - active /\ flusher \in {"publish", "close"})}}

(* What DB::recover relies on and does not check.  When the files are not  *)
(* like this, then it builds a store that lacks writes, has old ones back  *)
(* or holds junk, and says nothing.                                        *)
InOrder(ls, gone) ==
  (* two logs are read in the order they were written, and neither is the  *)
  (* one that recovery opens for writing in between                        *)
  /\ \A m, n \in DOMAIN ls : m < n => SortsBefore(m, n) /\ m # 1 /\ n # 1
  (* no log ends within a record                                           *)
  /\ \A n \in DOMAIN ls : \A i \in DOMAIN ls[n] : ls[n][i] > 0
  (* no log is left of a memtable that newer ones have followed to disk    *)
  /\ LET logged == UNION {ToSet(ls[n]) : n \in DOMAIN ls} IN
     \A k \in Keys, n \in DOMAIN ls :
       LET w == NewestOf(k, ToSet(ls[n])) IN
       w > 0 => \A x \in (w + 1)..Len(writes) :
         writes[x].key = k => x \in logged \union gone
  (* merged tables were unlinked from the oldest on                        *)
  /\ \A t \in doomed : t[2] > unlinked[t[1]]
  (* the number that is given out again is not that of a table of level 0  *)
  /\ sstables = <<>> \/ <<0, Max(TableNumbers)>> \notin DOMAIN sstables

(* The process is gone; a record that was written in part stays so.        *)
CutShort(ls) == [n \in DOMAIN ls |-> [i \in DOMAIN ls[n] |-> IF ls[n][i] = Torn THEN Junk ELSE ls[n][i]]]

End(ls, gone) ==
  /\ phase' = "down" /\ logs' = CutShort(ls) /\ lost' = gone
  /\ trusted' = (trusted /\ InOrder(CutShort(ls), gone))
  /\ FreshMemory /\ unlinked' = [l \in Levels |-> -1]
  /\ UNCHANGED <<sstables, writes, starts>>

Crash ==
  /\ Up /\ crashes < MaxCrashes /\ crashes' = crashes + 1
  /\ End(logs, lost \union OnlyBuffered)

Start ==
  /\ phase = "down" /\ phase' = "tables"
  /\ starts < MaxStarts /\ starts' = starts + 1
  /\ UNCHANGED <<disk, writer, wal_files, memVars, walVars, wal_log_counter, flushVars, tableVars,
                 mergeVars, writes, lost, trusted, crashes>>

-----------------------------------------------------------------------------
(* The writer: DB::insert and DB::checkAndHandleFlush.  Whether a write    *)
(* reaches FLUSH_TRIGGER is left open.                                     *)

(* WAL::append writes to a stdio stream; the WAL::flush that follows a     *)
(* batch syncs what the kernel has, and leaves the stream's buffer alone.  *)
Write(k, tombstone) ==
  /\ phase = "up" /\ writer = "run" /\ Len(writes) < MaxWrites
  /\ LET w == Len(writes) + 1 IN
     /\ writes' = Append(writes, [key |-> k, tombstone |-> tombstone])
     /\ memtable' = [memtable EXCEPT ![active][k] = w]
     /\ buffer' = [buffer EXCEPT ![active] = Append(@, w)]
  /\ writer' \in {"run", "full"}
  /\ UNCHANGED <<disk, phase, wal_files, active, file, filepath, wal_log_counter, flushVars, tableVars,
                 mergeVars, lives>>

(* The writer waits for the flusher before it swaps the memtables.         *)
Swap ==
  /\ Works /\ writer = "full" /\ flusher = "idle"
  /\ active' = 1 - active /\ flusher' = "pending" /\ writer' = "open"
  /\ UNCHANGED <<disk, phase, wal_files, memtable, walVars, wal_log_counter, flush_num, tableVars,
                 mergeVars, writes, lives>>

(* WAL::open truncates a log that exists.                                  *)
OpenLog ==
  /\ Works /\ writer = "open" /\ writer' = "run"
  /\ logs' = Opened(logs, wal_log_counter, <<>>)
  /\ file' = [file EXCEPT ![active] = wal_log_counter]
  /\ filepath' = [filepath EXCEPT ![active] = wal_log_counter]
  /\ buffer' = [buffer EXCEPT ![active] = <<>>]
  /\ wal_log_counter' = wal_log_counter + 1
  /\ UNCHANGED <<sstables, phase, wal_files, memVars, flushVars, tableVars, mergeVars, writes, lives>>

(* Records rs arrive at the end of log n, where the first of them may      *)
(* already be in part.  Writes to a log that was unlinked are seen by      *)
(* nobody.                                                                 *)
WholePart(log) == IF log # <<>> /\ Last(log) = Torn THEN Front(log) ELSE log
Arrived(n, rs) ==
  IF n \notin DOMAIN logs \/ rs = <<>> THEN logs ELSE [logs EXCEPT ![n] = WholePart(@) \o rs]

(* stdio writes the first of the records it holds, or a part of it, when   *)
(* its buffer is full.                                                     *)
Spill(i) ==
  /\ Up /\ buffer[i] # <<>> /\ file[i] \in DOMAIN logs
  /\ \/ /\ logs' = Arrived(file[i], <<Head(buffer[i])>>)
        /\ buffer' = [buffer EXCEPT ![i] = Tail(@)]
     \/ /\ ~Contains(logs[file[i]], Torn)
        /\ logs' = Arrived(file[i], <<Torn>>)
        /\ UNCHANGED buffer
  /\ UNCHANGED <<sstables, phase, wal_files, writer, memVars, file, filepath, wal_log_counter, flushVars,
                 tableVars, mergeVars, writes, lives>>

-----------------------------------------------------------------------------
(* The flusher: DB::memtableFlush.                                         *)

(* Opening a table for writing truncates one of the same name.             *)
CreateTable ==
  /\ Works /\ flusher = "pending" /\ flusher' = "write"
  /\ flush_num' = sstable_counter /\ sstable_counter' = sstable_counter + 1
  /\ sstables' = Opened(sstables, <<0, sstable_counter>>, Unfinished)
  /\ UNCHANGED <<logs, phase, wal_files, writer, memVars, walVars, wal_log_counter, readers_at_level,
                 curr_max_level, mergeVars, writes, lives>>

FinishTable ==
  /\ Works /\ flusher = "write" /\ flusher' = "publish"
  /\ sstables' = [sstables EXCEPT ![<<0, flush_num>>] =
                    [finished |-> TRUE, data |-> memtable[1 - active]]]
  /\ UNCHANGED <<logs, phase, wal_files, writer, memVars, walVars, wal_log_counter, flush_num, tableVars,
                 mergeVars, writes, lives>>

AddTable ==
  /\ Works /\ flusher = "publish" /\ flusher' = "close"
  /\ readers_at_level' = [readers_at_level EXCEPT ![0] = Append(@, flush_num)]
  /\ memtable' = [memtable EXCEPT ![1 - active] = Empty]
  /\ UNCHANGED <<disk, phase, wal_files, writer, active, walVars, wal_log_counter, flush_num,
                 sstable_counter, curr_max_level, mergeVars, writes, lives>>

(* WAL::clear: fclose writes the rest of the buffer, then the log goes.    *)
CloseLog ==
  /\ Works /\ flusher = "close" /\ flusher' = "remove"
  /\ logs' = Arrived(file[1 - active], buffer[1 - active])
  /\ buffer' = [buffer EXCEPT ![1 - active] = <<>>]
  /\ file' = [file EXCEPT ![1 - active] = Closed]
  /\ UNCHANGED <<sstables, phase, wal_files, writer, memVars, filepath, wal_log_counter, flush_num,
                 tableVars, mergeVars, writes, lives>>

(* A log that recovery read has no path here, and stays.                   *)
(* Mutant: the log that is being written goes.                             *)
ActivePath == filepath[active]
ClearedPath == filepath[1 - active]

RemoveLog ==
  /\ Works /\ flusher = "remove" /\ flusher' = "idle"
  /\ logs' = Restrict(logs, DOMAIN logs \ {ClearedPath})
  /\ awake' = awake \union {0}
  /\ UNCHANGED <<sstables, phase, wal_files, writer, memVars, walVars, wal_log_counter, flush_num,
                 tableVars, merge, doomed, mapped, unlinked, writes, lives>>

-----------------------------------------------------------------------------
(* The merge of the oldest tables of level l: DB::compactor.               *)

Inputs(l) == SubSeq(readers_at_level[l], 1, COMPACTION_TRIGGER)
(* Mutant: the last input stays in the list.                               *)
KeptWithLast(l) == SubSeq(readers_at_level[l], COMPACTION_TRIGGER, Len(readers_at_level[l]))
Kept(l) == SubSeq(readers_at_level[l], COMPACTION_TRIGGER + 1, Len(readers_at_level[l]))

StartMerge(l) ==
  /\ Works /\ l \in awake /\ merge[l].at = "idle"
  /\ Len(readers_at_level[l]) >= COMPACTION_TRIGGER
  /\ merge' = [merge EXCEPT ![l] =
                 [at |-> "write", num |-> sstable_counter, purge |-> l = curr_max_level]]
  /\ sstables' = Opened(sstables, <<l + 1, sstable_counter>>, Unfinished)
  /\ sstable_counter' = sstable_counter + 1
  /\ UNCHANGED <<logs, phase, wal_files, writer, memVars, walVars, wal_log_counter, flushVars,
                 readers_at_level, curr_max_level, awake, doomed, mapped, unlinked, writes, lives>>

IsTombstone(w) == w > 0 /\ writes[w].tombstone

(* What the reader of table t sees.                                        *)
Data(t) == IF t \in DOMAIN sstables THEN sstables[t].data ELSE mapped[t]

(* The entry for k that the tables numbered ns of level l have last.       *)
YoungestEntry(l, ns, k) ==
  LET holding == {i \in DOMAIN ns : Data(<<l, ns[i]>>)[k] # 0}
  IN  IF holding = {} THEN 0 ELSE Data(<<l, ns[Max(holding)]>>)[k]

Merged(l) ==
  [k \in Keys |-> LET w == YoungestEntry(l, Inputs(l), k) IN
     IF merge[l].purge /\ IsTombstone(w) THEN 0 ELSE w]

FinishMerge(l) ==
  /\ Works /\ merge[l].at = "write"
  /\ merge' = [merge EXCEPT ![l].at = "add"]
  /\ sstables' = [sstables EXCEPT ![<<l + 1, merge[l].num>>] =
                    [finished |-> TRUE, data |-> Merged(l)]]
  /\ UNCHANGED <<logs, phase, wal_files, writer, memVars, walVars, wal_log_counter, flushVars, tableVars,
                 awake, doomed, mapped, unlinked, writes, lives>>

AddMerged(l) ==
  /\ Works /\ merge[l].at = "add"
  /\ merge' = [merge EXCEPT ![l].at = "remove"]
  /\ readers_at_level' = [readers_at_level EXCEPT ![l + 1] = Append(@, merge[l].num)]
  /\ UNCHANGED <<disk, phase, wal_files, writer, memVars, walVars, wal_log_counter, flushVars,
                 sstable_counter, curr_max_level, awake, doomed, mapped, unlinked, writes, lives>>

RemoveInputs(l) ==
  /\ Works /\ merge[l].at = "remove"
  /\ merge' = [merge EXCEPT ![l] = Idle]
  /\ readers_at_level' = [readers_at_level EXCEPT ![l] = Kept(l)]
  /\ doomed' = doomed \union {<<l, n>> : n \in ToSet(Inputs(l))}
  /\ curr_max_level' = Max({curr_max_level, l + 1})
  /\ awake' = awake \union {l + 1}
  /\ UNCHANGED <<disk, phase, wal_files, writer, memVars, walVars, wal_log_counter, flushVars,
                 sstable_counter, mapped, unlinked, writes, lives>>

(* ~SSTableReader, when the last search that holds the table is done with  *)
(* it.  When its number was given out again, the other reader of that name *)
(* still has the file mapped.                                              *)
Unlink(t) ==
  /\ Works /\ t \in doomed /\ doomed' = doomed \ {t}
  /\ mapped' = IF t \in DOMAIN sstables /\ t[2] \in ToSet(readers_at_level[t[1]])
               THEN Opened(mapped, t, sstables[t].data) ELSE mapped
  /\ sstables' = Restrict(sstables, DOMAIN sstables \ {t})
  /\ unlinked' = [unlinked EXCEPT ![t[1]] = Max({@, t[2]})]
  /\ UNCHANGED <<logs, phase, wal_files, writer, memVars, walVars, wal_log_counter, flushVars, tableVars,
                 merge, awake, writes, lives>>

-----------------------------------------------------------------------------
(* DB::~DB, called when every put has been applied.  A flush that is only  *)
(* signalled may be left undone.  The tables in the lists are preserved.   *)

Stop ==
  /\ phase = "up" /\ writer = "run" /\ phase' = "stopping"
  /\ UNCHANGED <<disk, writer, wal_files, memVars, walVars, wal_log_counter, flushVars, tableVars,
                 mergeVars, writes, lives>>

(* ~WAL of slot i; if fclose of a handle that is not open kills the        *)
(* process, then it ends as in a crash.                                    *)
DestroyLog(i) ==
  \/ /\ file[i] >= 0 \/ "returns" \in BadClose
     /\ LET ls == Arrived(file[i], buffer[i]) IN
        IF i = 0 THEN End(ls, lost)
        ELSE /\ phase' = "closing" /\ logs' = ls
             /\ file' = [file EXCEPT ![i] = Closed]
             /\ buffer' = [buffer EXCEPT ![i] = <<>>]
             /\ UNCHANGED <<sstables, writer, wal_files, memVars, filepath, wal_log_counter,
                            flushVars, tableVars, mergeVars, writes, lost, trusted, starts>>
  \/ /\ file[i] < 0 /\ "kills" \in BadClose
     /\ End(logs, lost \union OnlyBuffered)

(* The members go in reverse order, when all threads have been joined.     *)
Destroy ==
  /\ \/ /\ phase = "stopping" /\ flusher \in {"idle", "pending"}
        /\ \A l \in DOMAIN merge : merge[l] = Idle
        /\ doomed = {}
        /\ DestroyLog(1)
     \/ phase = "closing" /\ DestroyLog(0)
  /\ UNCHANGED crashes

-----------------------------------------------------------------------------
(* DB::recover.                                                            *)

(* A table that is not finished has no index where one is looked for.      *)
RecoverTables ==
  /\ phase = "tables"
  /\ IF \E t \in DOMAIN sstables : ~sstables[t].finished
     THEN phase' = "failed" /\ UNCHANGED tableVars
     ELSE /\ phase' = "logs"
          /\ readers_at_level' = [l \in Levels |-> Sorted(Numbered(l))]
          /\ sstable_counter' = Max(TableNumbers \union {0})
          /\ curr_max_level' = Max({t[1] : t \in DOMAIN sstables} \union {0})
  /\ UNCHANGED <<disk, writer, wal_files, memVars, walVars, wal_log_counter, flushVars, mergeVars, writes,
                 lives>>

(* What log n may be read as.  Of a record whose rest is missing, some     *)
(* bytes are taken for a key and a value, and nothing that follows is read *)
(* as what it is.                                                          *)
Replayed(n) ==
  LET broken == SelectInSeq(logs[n], LAMBDA r : r <= 0)
      whole == IF broken = 0 THEN logs[n] ELSE SubSeq(logs[n], 1, broken - 1)
      m == [k \in Keys |-> NewestOf(k, ToSet(whole))]
  IN {m} \union IF broken = 0 THEN {} ELSE {[m EXCEPT ![k] = Junk] : k \in Keys}

(* WAL::recover fills the active memtable, which is empty, and goes on     *)
(* writing where the log ends.                                             *)
ReadLog(n) ==
  /\ \E m \in Replayed(n) : memtable' = [memtable EXCEPT ![active] = m]
  /\ file' = [file EXCEPT ![active] = n]

(* Mutant: the number of the log that was read is given out again.         *)
SameNumber(n) == n
NextNumber(n) == n + 1

(* None of the logs, or more than two, and the constructor fails.          *)
RecoverLogs ==
  /\ phase = "logs"
  /\ \/ /\ Cardinality(DOMAIN logs) \notin {1, 2}
        /\ phase' = "failed"
        /\ UNCHANGED <<memtable, file, wal_log_counter, writer, wal_files>>
     \/ \E n \in DOMAIN logs :
        /\ DOMAIN logs = {n} /\ ReadLog(n)
        /\ wal_log_counter' = NextNumber(n) /\ phase' = "up" /\ UNCHANGED <<writer, wal_files>>
     \/ \E m, n \in DOMAIN logs :
        /\ DOMAIN logs = {m, n} /\ SortsBefore(m, n) /\ ReadLog(m)
        /\ wal_files' = <<n>> /\ phase' = "log2" /\ writer' = "full"
        /\ UNCHANGED wal_log_counter
  /\ UNCHANGED <<disk, active, filepath, buffer, flushVars, tableVars, mergeVars, writes, lives>>

(* The second log is read after Swap and OpenLog, whose log, number 1, is  *)
(* not the one that is appended to.                                        *)
RecoverSecond ==
  /\ phase = "log2" /\ writer = "run" /\ phase' = "up"
  /\ ReadLog(Head(wal_files))
  /\ wal_log_counter' = NextNumber(Head(wal_files)) /\ wal_files' = <<>>
  /\ UNCHANGED <<disk, writer, active, filepath, buffer, flushVars, tableVars, mergeVars,
                 writes, lives>>

-----------------------------------------------------------------------------
Flusher == CreateTable \/ FinishTable \/ AddTable \/ CloseLog \/ RemoveLog
Compactor(l) == StartMerge(l) \/ FinishMerge(l) \/ AddMerged(l) \/ RemoveInputs(l)

Terminated ==
  /\ phase = "failed" \/ (phase = "down" /\ starts = MaxStarts)
  /\ UNCHANGED vars

Next ==
  \/ \E k \in Keys, tombstone \in BOOLEAN : Write(k, tombstone)
  \/ Swap \/ OpenLog \/ Flusher
  \/ \E i \in Slots : Spill(i)
  \/ \E l \in DOMAIN merge : Compactor(l)
  \/ \E t \in doomed : Unlink(t)
  \/ Crash \/ Stop \/ Destroy
  \/ Start \/ RecoverTables \/ RecoverLogs \/ RecoverSecond
  \/ Terminated

Spec == Init /\ [][Next]_vars

-----------------------------------------------------------------------------
(* Properties.                                                             *)

Entries == -1..MaxWrites

(* Type correctness: numbers of logs and tables, entries that are writes,  *)
(* none or junk; and a reader in a list has contents (the readers of       *)
(* DB::compactor).  As long as all the files recovered were InOrder, it    *)
(* has its file, and so has a table that a merge writes or that waits to   *)
(* be unlinked.                                                            *)
TypeOK ==
  /\ phase \in {"down", "tables", "logs", "log2", "up", "stopping", "closing", "failed"}
  /\ writer \in {"run", "full", "open"} /\ active \in Slots
  /\ flusher \in {"idle", "pending", "write", "publish", "close", "remove"}
  /\ \A n \in DOMAIN logs : n \in Nat /\ logs[n] \in Seq(Entries)
  /\ \A t \in DOMAIN sstables : /\ t[1] \in Levels /\ t[2] \in Nat
                                /\ sstables[t].data \in [Keys -> Entries]
  /\ memtable \in [Slots -> [Keys -> Entries]]
  /\ file \in [Slots -> Nat \union {NULL, Closed}] /\ filepath \in [Slots -> Nat \union {NULL}]
  /\ buffer \in [Slots -> Seq(1..MaxWrites)]
  /\ awake \subseteq Levels
  /\ \A l \in Levels : \A i \in DOMAIN readers_at_level[l] :
       <<l, readers_at_level[l][i]>> \in DOMAIN sstables \union DOMAIN mapped
  /\ trusted =>
       /\ \A l \in DOMAIN merge :
            merge[l].at \in {"write", "add"} => <<l + 1, merge[l].num>> \in DOMAIN sstables
       /\ \A l \in Levels : \A i \in DOMAIN readers_at_level[l] :
            <<l, readers_at_level[l][i]>> \in DOMAIN sstables
       /\ doomed \subseteq DOMAIN sstables

(* DB::search: the memtables, then the tables, the youngest of each level  *)
(* first.                                                                  *)
Found(k) ==
  UNION {{<<l, i>> : i \in {j \in DOMAIN readers_at_level[l] :
                              Data(<<l, readers_at_level[l][j]>>)[k] # 0}} : l \in Levels}
InTables(k) ==
  LET p == CHOOSE p \in Found(k) : \A q \in Found(k) : p[1] < q[1] \/ (p[1] = q[1] /\ p[2] >= q[2])
  IN  IF Found(k) = {} THEN 0 ELSE Data(<<p[1], readers_at_level[p[1]][p[2]]>>)[k]

Lookup(k) ==
  IF memtable[active][k] # 0 THEN memtable[active][k]
  ELSE IF memtable[1 - active][k] # 0 THEN memtable[1 - active][k] ELSE InTables(k)

(* A tombstone answers as if there were nothing.                           *)
Answer(w) == IF IsTombstone(w) THEN 0 ELSE w

(* A store that was recovered, again and again, serves for each key the    *)
(* newest write but for those that only a stdio buffer held in a crash, if *)
(* the files of every recovery were InOrder (DB::recover, WAL::recover,    *)
(* DB::search).                                                            *)
ServesNewest ==
  trusted /\ phase \in {"up", "stopping"} =>
    \A k \in Keys : Answer(Lookup(k)) = Answer(NewestOf(k, (DOMAIN writes) \ lost))

(* Before anything was recovered, the files alone hold the newest of the   *)
(* writes of each key that stdio has passed on: no flush or merge removes  *)
(* a log or a table before another file has what is in it.                 *)
DataOnDisk ==
  starts = 1 =>
    \A k \in Keys :
      LET w == NewestOf(k, (DOMAIN writes) \ (lost \union OnlyBuffered)) IN
      \/ w = 0 \/ IsTombstone(w)
      \/ \E n \in DOMAIN logs : Contains(logs[n], w)
      \/ \E t \in DOMAIN sstables : sstables[t].finished /\ sstables[t].data[k] = w

(* What recovery_test asks (src/tester.cpp:350): after the process that    *)
(* wrote has ended in order, one that recovers finds no "lost or wrong     *)
(* value".                                                                 *)
RecoveryTest ==
  phase = "up" /\ crashes = 0 =>
    \A k \in Keys : Answer(Lookup(k)) = Answer(NewestOf(k, DOMAIN writes))

=============================================================================
