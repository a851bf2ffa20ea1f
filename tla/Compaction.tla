------------------------------ MODULE Compaction ------------------------------
(***************************************************************************)
(* The on-disk half of lsm::DB: readers_at_level, the list of tables of    *)
(* each level, under the flusher that adds a table to level 0, the         *)
(* compactor threads that merge the oldest tables of a level into the next *)
(* one, the threads that search the levels without a lock, and the part of *)
(* the destructor that stops the compactors.                               *)
(*                                                                         *)
(* A list is copied on write: a thread loads the pointer, edits a copy and *)
(* stores the new pointer, in two steps here, so that two threads could    *)
(* lose each other's update where a lock is missing.                       *)
(*                                                                         *)
(* Data.  The table the flusher writes at its g-th flush holds generation  *)
(* g; a merged table holds the generations of its inputs.  Of two entries  *)
(* of a key the one of the higher generation is newer, so what a search    *)
(* must do is to meet the generations from the newest to the oldest.  A    *)
(* merge may drop tombstones: purged is the set of generations of a table  *)
(* whose tombstones it no longer has.                                      *)
(***************************************************************************)
EXTENDS Integers, Sequences, FiniteSets

CONSTANTS num_compactors,     (* compactor c takes its tables from level c *)
          MAX_LEVEL,          (* the deepest level                         *)
          COMPACTION_TRIGGER, (* tables merged at once                     *)
          Readers,            (* the threads that search the levels        *)
          MaxFlushes          (* bound: how many memtables are flushed     *)

ASSUME ConstantsAssumption ==
  /\ num_compactors \in Nat \ {0}
  /\ MAX_LEVEL \in Nat /\ MAX_LEVEL >= num_compactors
  /\ COMPACTION_TRIGGER \in Nat /\ COMPACTION_TRIGGER >= 2
  /\ MaxFlushes \in Nat

Compactors == 0..(num_compactors - 1)
Levels == 0..MAX_LEVEL
Generations == 1..MaxFlushes

(* Compactor c merges from level c down to level HigherLevel(c); the last  *)
(* one has all the deeper levels for itself.                               *)
HigherLevel(c) == IF c = num_compactors - 1 THEN MAX_LEVEL ELSE c + 1

VARIABLES
  readers_at_level,   (* level -> its tables, the oldest first             *)
  curr_max_level,     (* the deepest level a merge has reached             *)
  start_compactor,    (* compactor -> permits of its semaphore             *)
  run_compactor,      (* compactor -> FALSE once the destructor stops it   *)
  (* the flusher *)
  flusher,            (* its control point                                 *)
  flushed,            (* how many tables it published                      *)
  flusher_neu,        (* its copy of the list of level 0                   *)
  (* the compactors *)
  compactor,          (* control point of each                             *)
  curr_level,         (* the level each one merges from                    *)
  files,              (* the tables each one merges                        *)
  merged,             (* the table each one wrote                          *)
  neu,                (* the copy of a list each one edits                 *)
  (* the searching threads *)
  reader,             (* control point of each                             *)
  level,              (* the level each one is at                          *)
  readers,            (* what is left to visit of the list it loaded       *)
  base,               (* how many tables were published when it began      *)
  seen                (* the generations it has met                        *)

flusherVars   == <<flusher, flushed, flusher_neu>>
compactorVars == <<compactor, curr_level, files, merged, neu>>
readerVars    == <<reader, level, readers, base, seen>>
vars == <<readers_at_level, curr_max_level, start_compactor, run_compactor,
          flusherVars, compactorVars, readerVars>>

Table == [gens : SUBSET Generations, purged : SUBSET Generations]
NoTable == [gens |-> {}, purged |-> {}]

-----------------------------------------------------------------------------
(* Locks: compactor_locks[i] is held while a list is being replaced.       *)
(* Here and below, an operator set apart by a comment that begins with     *)
(* "Mutant" is a deliberately wrong version of the definition after it; no *)
(* specification uses it.                                                  *)

FlusherHolds(i) == i = 0 /\ flusher = "add"

(* Mutant: a compactor erases its inputs without the lock.                 *)
CompactorHoldsToAdd(c, i) ==
  compactor[c] = "add" /\ curr_level[c] + 1 = HigherLevel(c) /\ i = c + 1

CompactorHolds(c, i) ==
  \/ compactor[c] = "add" /\ curr_level[c] + 1 = HigherLevel(c) /\ i = c + 1
  \/ compactor[c] = "remove" /\ curr_level[c] = c /\ i = c
Free(i) == ~FlusherHolds(i) /\ \A c \in Compactors : ~CompactorHolds(c, i)

(* release() on a binary_semaphore: beyond one permit the standard leaves  *)
(* it undefined; an implementation counts on or stays at one.              *)
Released(sem) == IF sem = 0 THEN {1} ELSE {sem, sem + 1}
Release(c) ==
  \E n \in Released(start_compactor[c]) : start_compactor' = [start_compactor EXCEPT ![c] = n]

-----------------------------------------------------------------------------
Init ==
  /\ readers_at_level = [l \in Levels |-> <<>>]
  /\ curr_max_level = 0
  /\ start_compactor = [c \in Compactors |-> 0]
  /\ run_compactor = [c \in Compactors |-> TRUE]
  /\ flusher = "idle" /\ flushed = 0 /\ flusher_neu = <<>>
  /\ compactor = [c \in Compactors |-> "loop"]
  /\ curr_level = [c \in Compactors |-> c]
  /\ files = [c \in Compactors |-> <<>>]
  /\ merged = [c \in Compactors |-> NoTable]
  /\ neu = [c \in Compactors |-> <<>>]
  /\ reader = [r \in Readers |-> "idle"]
  /\ level = [r \in Readers |-> 0]
  /\ readers = [r \in Readers |-> <<>>]
  /\ base = [r \in Readers |-> 0]
  /\ seen = [r \in Readers |-> {}]

-----------------------------------------------------------------------------
(* The flusher: the end of DB::memtableFlush.                              *)

(* Mutant: the new table is put before the older ones.                     *)
NewTableFirst == <<[gens |-> {flushed + 1}, purged |-> {}]>> \o readers_at_level[0]

NewTableLast == Append(readers_at_level[0], [gens |-> {flushed + 1}, purged |-> {}])

LoadLevel0 ==
  /\ flusher = "idle" /\ flusher' = "add"
  /\ run_compactor[0] /\ flushed < MaxFlushes
  /\ Free(0)
  /\ flusher_neu' = NewTableLast
  /\ UNCHANGED <<readers_at_level, curr_max_level, start_compactor, run_compactor,
                 flushed, compactorVars, readerVars>>

AddTable ==
  /\ flusher = "add" /\ flusher' = "trigger"
  /\ readers_at_level' = [readers_at_level EXCEPT ![0] = flusher_neu]
  /\ flushed' = flushed + 1
  /\ flusher_neu' = <<>>
  /\ UNCHANGED <<curr_max_level, start_compactor, run_compactor, compactorVars, readerVars>>

TriggerCompaction ==
  /\ flusher = "trigger" /\ flusher' = "idle"
  /\ Free(0)
  /\ IF Len(readers_at_level[0]) >= COMPACTION_TRIGGER
     THEN Release(0)
     ELSE UNCHANGED start_compactor
  /\ UNCHANGED <<readers_at_level, curr_max_level, run_compactor, flushed, flusher_neu,
                 compactorVars, readerVars>>

Flusher == LoadLevel0 \/ AddTable \/ TriggerCompaction

-----------------------------------------------------------------------------
(* Compactor c.                                                            *)

CompactorAt(c, from, to) ==
  compactor[c] = from /\ compactor' = [compactor EXCEPT ![c] = to]

CompactorLoop(c) ==
  /\ CompactorAt(c, "loop", IF run_compactor[c] THEN "acquire" ELSE "stopped")
  /\ UNCHANGED <<readers_at_level, curr_max_level, start_compactor, run_compactor,
                 flusherVars, curr_level, files, merged, neu, readerVars>>

(* Mutant: the semaphore is not waited for.                                *)
HasPermitOrNot(c) == TRUE

HasPermit(c) == start_compactor[c] > 0

AcquireStart(c) ==
  /\ CompactorAt(c, "acquire", "woken")
  /\ HasPermit(c)
  /\ start_compactor' = [start_compactor EXCEPT ![c] = @ - 1]
  /\ UNCHANGED <<readers_at_level, curr_max_level, run_compactor,
                 flusherVars, curr_level, files, merged, neu, readerVars>>

CompactorWoken(c) ==
  /\ CompactorAt(c, "woken", IF run_compactor[c] THEN "check" ELSE "stopped")
  /\ curr_level' = [curr_level EXCEPT ![c] = c]
  /\ UNCHANGED <<readers_at_level, curr_max_level, start_compactor, run_compactor,
                 flusherVars, files, merged, neu, readerVars>>

(* Mutant: two batches must be exceeded.                                   *)
AnotherBatchExceeded(size) == size > 2 * COMPACTION_TRIGGER

AnotherBatch(size) == size >= 2 * COMPACTION_TRIGGER

(* With two batches waiting the compactor wakes itself up once more.       *)
CheckLowerLevel(c) ==
  LET size == Len(readers_at_level[c]) IN
  /\ CompactorAt(c, "check", IF size >= COMPACTION_TRIGGER THEN "pick" ELSE "loop")
  /\ Free(c)
  /\ IF AnotherBatch(size) THEN Release(c) ELSE UNCHANGED start_compactor
  /\ UNCHANGED <<readers_at_level, curr_max_level, run_compactor,
                 flusherVars, curr_level, files, merged, neu, readerVars>>

PickFiles(c) ==
  /\ CompactorAt(c, "pick", "merge")
  /\ files' = [files EXCEPT ![c] =
                 SubSeq(readers_at_level[curr_level[c]], 1, COMPACTION_TRIGGER)]
  /\ UNCHANGED <<readers_at_level, curr_max_level, start_compactor, run_compactor,
                 flusherVars, curr_level, merged, neu, readerVars>>

(* Mutant: the level below is not taken into account.                      *)
RemoveTombstonesAbove(c) == curr_level[c] + 1 >= curr_max_level

(* Tombstones go when no deeper level has been written yet.                *)
RemoveTombstones(c) == curr_level[c] = curr_max_level

MergedTable(fs, purge) ==
  LET all == UNION {fs[i].gens : i \in 1..Len(fs)} IN
  [gens |-> all,
   purged |-> IF purge THEN all ELSE UNION {fs[i].purged : i \in 1..Len(fs)}]

MergeFiles(c) ==
  /\ CompactorAt(c, "merge", "load_add")
  /\ merged' = [merged EXCEPT ![c] = MergedTable(files[c], RemoveTombstones(c))]
  /\ UNCHANGED <<readers_at_level, curr_max_level, start_compactor, run_compactor,
                 flusherVars, curr_level, files, neu, readerVars>>

(* Mutant: the merged table is put before the older ones.                  *)
WithMergedFirst(c) == <<merged[c]>> \o readers_at_level[curr_level[c] + 1]

WithMerged(c) == Append(readers_at_level[curr_level[c] + 1], merged[c])

LoadForAdd(c) ==
  /\ CompactorAt(c, "load_add", "add")
  /\ curr_level[c] + 1 = HigherLevel(c) => Free(c + 1)
  /\ neu' = [neu EXCEPT ![c] = WithMerged(c)]
  /\ UNCHANGED <<readers_at_level, curr_max_level, start_compactor, run_compactor,
                 flusherVars, curr_level, files, merged, readerVars>>

AddMerged(c) ==
  /\ CompactorAt(c, "add", "load_remove")
  /\ readers_at_level' = [readers_at_level EXCEPT ![curr_level[c] + 1] = neu[c]]
  /\ UNCHANGED <<curr_max_level, start_compactor, run_compactor,
                 flusherVars, curr_level, files, merged, neu, readerVars>>

LoadForRemove(c) ==
  /\ CompactorAt(c, "load_remove", "remove")
  /\ curr_level[c] = c => Free(c)
  /\ LET old == readers_at_level[curr_level[c]] IN
     neu' = [neu EXCEPT ![c] = SubSeq(old, COMPACTION_TRIGGER + 1, Len(old))]
  /\ UNCHANGED <<readers_at_level, curr_max_level, start_compactor, run_compactor,
                 flusherVars, curr_level, files, merged, readerVars>>

RemoveFiles(c) ==
  /\ CompactorAt(c, "remove", "advance")
  /\ readers_at_level' = [readers_at_level EXCEPT ![curr_level[c]] = neu[c]]
  /\ files' = [files EXCEPT ![c] = <<>>]
  /\ merged' = [merged EXCEPT ![c] = NoTable]
  /\ neu' = [neu EXCEPT ![c] = <<>>]
  /\ UNCHANGED <<curr_max_level, start_compactor, run_compactor,
                 flusherVars, curr_level, readerVars>>

(* curr_max_level is read here and written in a later step.                *)
AdvanceLevel(c) ==
  /\ CompactorAt(c, "advance", IF curr_level[c] + 1 > curr_max_level THEN "bump" ELSE "recheck")
  /\ curr_level' = [curr_level EXCEPT ![c] = @ + 1]
  /\ UNCHANGED <<readers_at_level, curr_max_level, start_compactor, run_compactor,
                 flusherVars, files, merged, neu, readerVars>>

BumpMaxLevel(c) ==
  /\ CompactorAt(c, "bump", "recheck")
  /\ curr_max_level' = curr_level[c]
  /\ UNCHANGED <<readers_at_level, start_compactor, run_compactor,
                 flusherVars, curr_level, files, merged, neu, readerVars>>

(* The next level is full: this compactor goes on with it when it is one   *)
(* of its own, and hands it to the next compactor otherwise.               *)
RecheckLevel(c) ==
  LET l == curr_level[c]
      full == Len(readers_at_level[l]) >= COMPACTION_TRIGGER
  IN
  /\ CompactorAt(c, "recheck",
                 IF full /\ l < HigherLevel(c) THEN "pick"
                 ELSE IF full /\ HigherLevel(c) # MAX_LEVEL THEN "next"
                 ELSE "loop")
  /\ l = HigherLevel(c) /\ HigherLevel(c) # MAX_LEVEL => Free(c + 1)
  /\ UNCHANGED <<readers_at_level, curr_max_level, start_compactor, run_compactor,
                 flusherVars, curr_level, files, merged, neu, readerVars>>

StartNext(c) ==
  /\ CompactorAt(c, "next", "loop")
  /\ Release(c + 1)
  /\ UNCHANGED <<readers_at_level, curr_max_level, run_compactor,
                 flusherVars, curr_level, files, merged, neu, readerVars>>

Compactor(c) ==
  \/ CompactorLoop(c) \/ AcquireStart(c) \/ CompactorWoken(c) \/ CheckLowerLevel(c)
  \/ PickFiles(c) \/ MergeFiles(c) \/ LoadForAdd(c) \/ AddMerged(c) \/ LoadForRemove(c)
  \/ RemoveFiles(c) \/ AdvanceLevel(c) \/ BumpMaxLevel(c) \/ RecheckLevel(c) \/ StartNext(c)

-----------------------------------------------------------------------------
(* A search through the levels for a key that no memtable and no table it  *)
(* visits has: the loop of DB::search, which never stops early.            *)

BeginSearch(r) ==
  /\ reader[r] = "idle" /\ reader' = [reader EXCEPT ![r] = "load"]
  /\ run_compactor[0]
  /\ base' = [base EXCEPT ![r] = flushed]
  /\ UNCHANGED <<readers_at_level, curr_max_level, start_compactor, run_compactor,
                 flusherVars, compactorVars, level, readers, seen>>

(* Mutant: the oldest table of a level comes first.                        *)
ReadersOldestLast(l) ==
  LET list == readers_at_level[l] IN [i \in 1..Len(list) |-> list[Len(list) + 1 - i]]

ReadersNewestLast(l) == readers_at_level[l]

LoadReaders(r) ==
  /\ reader[r] = "load" /\ reader' = [reader EXCEPT ![r] = "visit"]
  /\ readers' = [readers EXCEPT ![r] = ReadersNewestLast(level[r])]
  /\ UNCHANGED <<readers_at_level, curr_max_level, start_compactor, run_compactor,
                 flusherVars, compactorVars, level, base, seen>>

(* The youngest table comes first.                                         *)
NextTable(r) == readers[r][Len(readers[r])]

VisitTable(r) ==
  /\ reader[r] = "visit"
  /\ readers[r] # <<>>
  /\ seen' = [seen EXCEPT ![r] = @ \union NextTable(r).gens]
  /\ readers' = [readers EXCEPT ![r] = SubSeq(@, 1, Len(@) - 1)]
  /\ UNCHANGED <<readers_at_level, curr_max_level, start_compactor, run_compactor,
                 flusherVars, compactorVars, reader, level, base>>

AtLastLevel(r) == level[r] = MAX_LEVEL

LeaveLevel(r) ==
  /\ reader[r] = "visit"
  /\ readers[r] = <<>>
  /\ IF AtLastLevel(r)
     THEN reader' = [reader EXCEPT ![r] = "missed"] /\ UNCHANGED level
     ELSE reader' = [reader EXCEPT ![r] = "load"] /\ level' = [level EXCEPT ![r] = @ + 1]
  /\ UNCHANGED <<readers_at_level, curr_max_level, start_compactor, run_compactor,
                 flusherVars, compactorVars, readers, base, seen>>

EndSearch(r) ==
  /\ reader[r] = "missed" /\ reader' = [reader EXCEPT ![r] = "idle"]
  /\ level' = [level EXCEPT ![r] = 0]
  /\ base' = [base EXCEPT ![r] = 0]
  /\ seen' = [seen EXCEPT ![r] = {}]
  /\ UNCHANGED <<readers_at_level, curr_max_level, start_compactor, run_compactor,
                 flusherVars, compactorVars, readers>>

Reader(r) == LoadReaders(r) \/ VisitTable(r) \/ LeaveLevel(r) \/ EndSearch(r)

-----------------------------------------------------------------------------
(* Mutant: a compactor is told to stop and not woken up.                   *)
StopCompactorSilently(c) ==
  /\ run_compactor[c]
  /\ flusher = "idle"
  /\ \A r \in Readers : reader[r] = "idle"
  /\ \A d \in Compactors : d < c => compactor[d] = "stopped"
  /\ run_compactor' = [run_compactor EXCEPT ![c] = FALSE]
  /\ UNCHANGED <<readers_at_level, curr_max_level, start_compactor, flusherVars,
                 compactorVars, readerVars>>

(* The destructor stops and joins the compactors in order, once the        *)
(* flusher has ended and no search runs.                                   *)
StopCompactor(c) ==
  /\ run_compactor[c]
  /\ flusher = "idle"
  /\ \A r \in Readers : reader[r] = "idle"
  /\ \A d \in Compactors : d < c => compactor[d] = "stopped"
  /\ run_compactor' = [run_compactor EXCEPT ![c] = FALSE]
  /\ Release(c)
  /\ UNCHANGED <<readers_at_level, curr_max_level, flusherVars, compactorVars, readerVars>>

Terminated == (\A c \in Compactors : compactor[c] = "stopped") /\ UNCHANGED vars

-----------------------------------------------------------------------------
Next ==
  \/ Flusher
  \/ \E c \in Compactors : Compactor(c) \/ StopCompactor(c)
  \/ \E r \in Readers : BeginSearch(r) \/ Reader(r)
  \/ Terminated

Spec == Init /\ [][Next]_vars

(* Every thread that can take a step eventually does; a thread that waits  *)
(* for one of the mutexes gets it although others keep taking it.          *)
Fairness ==
  /\ WF_vars(AddTable) /\ SF_vars(TriggerCompaction)
  /\ \A c \in Compactors :
       /\ WF_vars(Compactor(c))
       /\ SF_vars(CheckLowerLevel(c)) /\ SF_vars(LoadForAdd(c))
       /\ SF_vars(LoadForRemove(c)) /\ SF_vars(RecheckLevel(c))
  /\ \A r \in Readers : WF_vars(Reader(r))
FairSpec == Spec /\ Fairness

-----------------------------------------------------------------------------
TypeOK ==
  /\ readers_at_level \in [Levels -> Seq(Table)]
  /\ curr_max_level \in Levels
  /\ start_compactor \in [Compactors -> Nat]
  /\ run_compactor \in [Compactors -> BOOLEAN]
  /\ flusher \in {"idle", "add", "trigger"}
  /\ flushed \in 0..MaxFlushes
  /\ flusher_neu \in Seq(Table)
  /\ compactor \in [Compactors ->
       {"loop", "acquire", "woken", "check", "pick", "merge", "load_add", "add",
        "load_remove", "remove", "advance", "bump", "recheck", "next", "stopped"}]
  /\ curr_level \in [Compactors -> Levels]
  /\ files \in [Compactors -> Seq(Table)]
  /\ merged \in [Compactors -> Table]
  /\ neu \in [Compactors -> Seq(Table)]
  /\ reader \in [Readers -> {"idle", "load", "visit", "missed"}]
  /\ level \in [Readers -> Levels]
  /\ readers \in [Readers -> Seq(Table)]
  /\ base \in [Readers -> 0..MaxFlushes]
  /\ seen \in [Readers -> SUBSET Generations]

-----------------------------------------------------------------------------
(* Properties.                                                             *)

TablesAt(l) == {readers_at_level[l][i] : i \in 1..Len(readers_at_level[l])}

(* No published table ever leaves the lists but by being merged into one   *)
(* that is already there: no store of a list overwrites another's update.  *)
NothingLost ==
  UNION {t.gens : t \in UNION {TablesAt(l) : l \in Levels}} = 1..flushed

Older(t, u) == \A g \in t.gens, h \in u.gens : g < h

(* The lists are chronological, which the order of a search and of a merge *)
(* relies on (SSTableMerger.cpp:5): within a level older tables come first *)
(* and a deeper level is older, except for the inputs of a merge whose     *)
(* output is already in place.                                             *)
Chronological ==
  /\ \A l \in Levels : \A i, j \in 1..Len(readers_at_level[l]) :
       i < j => Older(readers_at_level[l][i], readers_at_level[l][j])
  /\ \A l \in Levels, m \in Levels : l < m =>
       \A t \in TablesAt(l), u \in TablesAt(m) : Older(u, t) \/ t.gens \subseteq u.gens

(* What a compactor decided from a size and a list it looked at earlier    *)
(* still holds when it acts: there are enough tables to pick, and those it *)
(* erases are those it merged (DB.cpp:175).                                *)
RemovesWhatItMerged ==
  \A c \in Compactors :
    LET list == readers_at_level[curr_level[c]] IN
    /\ compactor[c] = "pick" => Len(list) >= COMPACTION_TRIGGER
    /\ compactor[c] \in {"merge", "load_add", "add", "load_remove", "remove"} =>
         /\ Len(list) >= COMPACTION_TRIGGER
         /\ SubSeq(list, 1, COMPACTION_TRIGGER) = files[c]

(* A merge drops tombstones only when its output holds every older         *)
(* generation: nothing older is left for a search to find.                 *)
PurgeOnlyOldest ==
  \A l \in Levels : \A t \in TablesAt(l) : \A g \in t.purged : 1..g \subseteq t.gens

(* Permits never get lost: when a level holds a batch that its compactor   *)
(* has not taken on, then that compactor has a permit, or is about to look *)
(* at the level, or whoever filled the level is about to release it one.   *)
TakenOn(c) ==
  /\ compactor[c] \in {"pick", "merge", "load_add", "add", "load_remove", "remove"}
  /\ curr_level[c] = c
Waiting(c) == Len(readers_at_level[c]) - (IF TakenOn(c) THEN COMPACTION_TRIGGER ELSE 0)
AboutToSignal(c) ==
  \/ c = 0 /\ flusher = "trigger"
  \/ c > 0 /\ compactor[c - 1] = "next"
  \/ c > 0 /\ compactor[c - 1] \in {"load_remove", "remove", "advance"}
           /\ curr_level[c - 1] = c - 1
  \/ c > 0 /\ compactor[c - 1] \in {"bump", "recheck"} /\ curr_level[c - 1] = c
NoLostWakeup ==
  \A c \in Compactors :
    Waiting(c) >= COMPACTION_TRIGGER =>
      \/ start_compactor[c] > 0 \/ compactor[c] \in {"woken", "check", "stopped"}
      \/ AboutToSignal(c)

(* A search without a lock meets the generations that were published when  *)
(* it began from the newest to the oldest, although compactors move tables *)
(* under it, so that the first entry of a key it meets is the newest; and  *)
(* one that found nothing has met them all (DB.cpp:379).                   *)
SearchMeetsAllInOrder ==
  \A r \in Readers :
    /\ \A g \in seen[r] : (g + 1)..base[r] \subseteq seen[r]
    /\ reader[r] = "missed" => 1..base[r] \subseteq seen[r]

(* A level that holds a batch is eventually merged down, unless the        *)
(* destructor stops its compactor.                                         *)
LevelsShrink ==
  \A l \in 0..(MAX_LEVEL - 1) :
    (Len(readers_at_level[l]) >= COMPACTION_TRIGGER)
      ~> (Len(readers_at_level[l]) < COMPACTION_TRIGGER \/ ~run_compactor[0])

(* The destructor always joins every compactor it told to stop.            *)
StoppedCompactorEnds ==
  \A c \in Compactors : ~run_compactor[c] ~> compactor[c] = "stopped"
=============================================================================
