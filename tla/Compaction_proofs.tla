--------------------------- MODULE Compaction_proofs ---------------------------
(***************************************************************************)
(* Proofs about Compaction, for every number of compactors, levels,        *)
(* readers and flushes, and every trigger of at least two tables.          *)
(*                                                                         *)
(* Inv is the inductive invariant.  Its parts are, in the order in which   *)
(* they rest on each other: types and the levels a compactor works on      *)
(* (TypeInv), the exclusion that the locks give (LockInv), the copies of   *)
(* lists that are being edited (CopyInv), the tables that are being merged *)
(* (FilesInv, MergedInv), how deep the levels are filled (DepthInv), where *)
(* a generation is and in which order (CoverInv, OrderInv, FlightInv),     *)
(* what was purged (PurgeInv), and what a search has met and is going to   *)
(* meet (ReaderInv).                                                       *)
(***************************************************************************)
EXTENDS Compaction, SequenceTheorems, TLAPS

List(l) == readers_at_level[l]
Gens(l, i) == readers_at_level[l][i].gens

(* Compactor c has tables of level curr_level[c] in its hands.             *)
Busy(c) == compactor[c] \in {"merge", "load_add", "add", "load_remove", "remove"}

(* It is working its way down from that level.                             *)
Working(c) == compactor[c] = "pick" \/ Busy(c) \/ compactor[c] = "advance"

(* Its merged table is in the list of the next level, its inputs are still *)
(* in theirs.                                                              *)
InFlight(c) == compactor[c] \in {"load_remove", "remove"}

(* Table i of level l is such an input.                                    *)
IsInput(l, i) ==
  \E c \in Compactors : InFlight(c) /\ curr_level[c] = l /\ i <= COMPACTION_TRIGGER

(* The levels of compactor c lie between its own and the next one's, which *)
(* the last one does not have.                                             *)
LevelInv ==
  \A c \in Compactors :
    /\ curr_level[c] \in c..HigherLevel(c)
    /\ compactor[c] = "check" => curr_level[c] = c
    /\ Working(c) => curr_level[c] < HigherLevel(c)
    /\ compactor[c] \in {"bump", "recheck"} => curr_level[c] > c
    /\ compactor[c] = "next" => c + 1 \in Compactors

TypeInv == TypeOK /\ LevelInv

(* Whoever appends to a level excludes whoever erases from it.             *)
LockInv ==
  /\ ~(flusher = "add" /\ compactor[0] = "remove" /\ curr_level[0] = 0)
  /\ \A c \in Compactors : c + 1 \in Compactors =>
       ~(compactor[c] = "add" /\ compactor[c + 1] = "remove" /\ curr_level[c + 1] = c + 1)

(* A copy that is about to be stored is still up to date.                  *)
CopyInv ==
  /\ flusher = "add" => flusher_neu = NewTableLast /\ flushed < MaxFlushes
  /\ \A c \in Compactors :
       /\ compactor[c] = "add" => neu[c] = WithMerged(c)
       /\ compactor[c] = "remove" =>
            LET old == List(curr_level[c]) IN
            neu[c] = SubSeq(old, COMPACTION_TRIGGER + 1, Len(old))

FilesInv == RemovesWhatItMerged

(* A merged table holds the generations of its inputs.                     *)
MergedInv ==
  \A c \in Compactors : Busy(c) /\ compactor[c] # "merge" =>
    \A g \in Generations :
      g \in merged[c].gens <=> \E i \in 1..COMPACTION_TRIGGER : g \in files[c][i].gens

(* curr_max_level is behind by one level at most, while the compactor that *)
(* put the first table into that level has not come to write it.           *)
AboutToBump(c) ==
  \/ compactor[c] \in {"load_remove", "remove", "advance"} /\ curr_level[c] = curr_max_level
  \/ compactor[c] = "bump"
DepthInv ==
  /\ \A l \in Levels : l > curr_max_level + 1 => List(l) = <<>>
  /\ \A l \in Levels : l = curr_max_level + 1 /\ List(l) # <<>> =>
       Len(List(l)) = 1 /\ \E c \in Compactors : AboutToBump(c)
  /\ \A c \in Compactors :
       /\ Working(c) => curr_level[c] <= curr_max_level
       /\ compactor[c] = "bump" => curr_level[c] = curr_max_level + 1

(* Every published generation is in a table that is not an input any more, *)
(* and no other generation is anywhere.                                    *)
HeldFrom(g, l) ==
  \E m \in Levels : m >= l /\ \E i \in 1..Len(List(m)) : ~IsInput(m, i) /\ g \in Gens(m, i)
CoverInv ==
  /\ \A l \in Levels : \A i \in 1..Len(List(l)) : Gens(l, i) \subseteq 1..flushed
  /\ \A g \in 1..flushed : HeldFrom(g, 0)

(* Tables that are no inputs are in order, within a level and across.      *)
OrderInv ==
  /\ \A l \in Levels : \A i, j \in 1..Len(List(l)) :
       i < j => \A g \in Gens(l, i), h \in Gens(l, j) : g < h
  /\ \A l, m \in Levels : l < m =>
       \A i \in 1..Len(List(l)), j \in 1..Len(List(m)) :
         ~IsInput(l, i) => \A g \in Gens(l, i), h \in Gens(m, j) : h < g

(* Below the inputs of a merge, a table has all of their generations or    *)
(* none, and nothing newer than them.                                      *)
Below(c, gens) ==
  /\ \A h \in gens : h \in merged[c].gens \/ \A g \in merged[c].gens : h < g
  /\ \/ merged[c].gens \subseteq gens
     \/ \A h \in gens : h \notin merged[c].gens
FlightInv ==
  \A c \in Compactors : InFlight(c) =>
    \A m \in Levels : m > curr_level[c] =>
      \A j \in 1..Len(List(m)) : Below(c, Gens(m, j))

(* A table, published or not, purges only what it has the whole past of.   *)
PurgesOldest(t) == \A g \in t.purged : \A h \in 1..g : h \in t.gens
PurgeInv ==
  /\ \A l \in Levels : \A i \in 1..Len(List(l)) : PurgesOldest(List(l)[i])
  /\ \A c \in Compactors : Busy(c) /\ compactor[c] # "merge" => PurgesOldest(merged[c])

(* What is left of the list that r loaded has generation g.                *)
ToVisit(r, g) == \E i \in 1..Len(readers[r]) : g \in readers[r][i].gens

(* A generation that r has not met yet is still ahead of it, and older     *)
(* than whatever it meets before.                                          *)
Ahead(r, h) ==
  /\ reader[r] = "load" => HeldFrom(h, level[r])
  /\ reader[r] = "visit" => ToVisit(r, h) \/ HeldFrom(h, level[r] + 1)
  /\ reader[r] # "missed"
  /\ ToVisit(r, h) \/ \A i \in 1..Len(readers[r]) : \A g \in readers[r][i].gens : h < g
Searching(r) ==
  /\ base[r] <= flushed
  /\ reader[r] = "idle" => level[r] = 0 /\ seen[r] = {}
  /\ reader[r] # "visit" => readers[r] = <<>>
  /\ \A i, j \in 1..Len(readers[r]) :
       i < j => \A g \in readers[r][i].gens, h \in readers[r][j].gens : g < h
  /\ \A h \in 1..base[r] : h \notin seen[r] => Ahead(r, h)
  /\ \A g \in seen[r] : \A h \in (g + 1)..base[r] : h \in seen[r]
ReaderInv == \A r \in Readers : Searching(r)

DataInv == FilesInv /\ MergedInv /\ DepthInv /\ CoverInv /\ OrderInv /\ FlightInv /\ PurgeInv
Inv == TypeInv /\ LockInv /\ CopyInv /\ DataInv /\ NoLostWakeup /\ ReaderInv
-----------------------------------------------------------------------------
(* What a step of each thread leaves alone.                                *)

LEMMA FlusherFrame ==
  Flusher => UNCHANGED <<curr_max_level, run_compactor, compactorVars, readerVars>>
  BY DEF Flusher, LoadLevel0, AddTable, TriggerCompaction

LEMMA ReaderFrame ==
  ASSUME NEW r \in Readers, BeginSearch(r) \/ Reader(r)
  PROVE  UNCHANGED <<readers_at_level, curr_max_level, start_compactor, run_compactor,
                     flusherVars, compactorVars>>
  BY DEF BeginSearch, Reader, LoadReaders, VisitTable, LeaveLevel, EndSearch

LEMMA StopFrame ==
  ASSUME NEW c \in Compactors, StopCompactor(c)
  PROVE  UNCHANGED <<readers_at_level, curr_max_level, flusherVars, compactorVars, readerVars>>
  BY DEF StopCompactor

(* A compactor leaves the flusher and the readers alone, and what the      *)
(* other compactors keep for themselves.                                   *)
LEMMA CompactorFrame ==
  ASSUME TypeOK, NEW c \in Compactors, Compactor(c)
  PROVE  /\ UNCHANGED <<run_compactor, flusherVars, readerVars>>
         /\ \A d \in Compactors : d # c =>
              /\ compactor'[d] = compactor[d] /\ curr_level'[d] = curr_level[d]
              /\ files'[d] = files[d] /\ merged'[d] = merged[d] /\ neu'[d] = neu[d]
<1>1. UNCHANGED <<run_compactor, flusherVars, readerVars>>
  BY DEF Compactor, CompactorLoop, AcquireStart, CompactorWoken, CheckLowerLevel, PickFiles,
    MergeFiles, LoadForAdd, AddMerged, LoadForRemove, RemoveFiles, AdvanceLevel,
    BumpMaxLevel, RecheckLevel, StartNext
<1>2. \E to : compactor' = [compactor EXCEPT ![c] = to]
  BY DEF Compactor, CompactorLoop, AcquireStart, CompactorWoken, CheckLowerLevel, PickFiles,
    MergeFiles, LoadForAdd, AddMerged, LoadForRemove, RemoveFiles, AdvanceLevel,
    BumpMaxLevel, RecheckLevel, StartNext, CompactorAt
<1>3. UNCHANGED curr_level \/ \E l : curr_level' = [curr_level EXCEPT ![c] = l]
  BY DEF Compactor, CompactorLoop, AcquireStart, CompactorWoken, CheckLowerLevel, PickFiles,
    MergeFiles, LoadForAdd, AddMerged, LoadForRemove, RemoveFiles, AdvanceLevel,
    BumpMaxLevel, RecheckLevel, StartNext
<1>4. UNCHANGED files \/ \E fs : files' = [files EXCEPT ![c] = fs]
  BY DEF Compactor, CompactorLoop, AcquireStart, CompactorWoken, CheckLowerLevel, PickFiles,
    MergeFiles, LoadForAdd, AddMerged, LoadForRemove, RemoveFiles, AdvanceLevel,
    BumpMaxLevel, RecheckLevel, StartNext
<1>5. UNCHANGED merged \/ \E t : merged' = [merged EXCEPT ![c] = t]
  BY DEF Compactor, CompactorLoop, AcquireStart, CompactorWoken, CheckLowerLevel, PickFiles,
    MergeFiles, LoadForAdd, AddMerged, LoadForRemove, RemoveFiles, AdvanceLevel,
    BumpMaxLevel, RecheckLevel, StartNext
<1>6. UNCHANGED neu \/ \E list : neu' = [neu EXCEPT ![c] = list]
  BY DEF Compactor, CompactorLoop, AcquireStart, CompactorWoken, CheckLowerLevel, PickFiles,
    MergeFiles, LoadForAdd, AddMerged, LoadForRemove, RemoveFiles, AdvanceLevel,
    BumpMaxLevel, RecheckLevel, StartNext
<1>7. ASSUME NEW d \in Compactors, d # c
      PROVE  /\ compactor'[d] = compactor[d] /\ curr_level'[d] = curr_level[d]
             /\ files'[d] = files[d] /\ merged'[d] = merged[d] /\ neu'[d] = neu[d]
  BY <1>2, <1>3, <1>4, <1>5, <1>6, <1>7 DEF TypeOK
<1>8. QED
  BY <1>1, <1>7

-----------------------------------------------------------------------------
(* Lists.                                                                  *)

(* Table t is appended to level l.                                         *)
Appended(l, t) ==
  readers_at_level' = [readers_at_level EXCEPT ![l] = Append(List(l), t)]

(* The oldest tables of level l are erased.                                *)
Dropped(l) ==
  readers_at_level' =
    [readers_at_level EXCEPT ![l] = SubSeq(List(l), COMPACTION_TRIGGER + 1, Len(List(l)))]

LEMMA AppendedLists ==
  ASSUME TypeOK, NEW l \in Levels, NEW t \in Table, Appended(l, t)
  PROVE  /\ \A m \in Levels : m # l => List(m)' = List(m)
         /\ List(l)' \in Seq(Table)
         /\ Len(List(l)') = Len(List(l)) + 1
         /\ \A i \in 1..Len(List(l)) : List(l)'[i] = List(l)[i]
         /\ List(l)'[Len(List(l)) + 1] = t
<1>1. List(l) \in Seq(Table) /\ List(l)' = Append(List(l), t)
  BY DEF TypeOK, Appended, List
<1>2. \A m \in Levels : m # l => List(m)' = List(m)
  BY DEF TypeOK, Appended, List
<1>3. QED
  BY <1>1, <1>2, AppendProperties

LEMMA DroppedLists ==
  ASSUME ConstantsAssumption, TypeOK, NEW l \in Levels, Dropped(l),
         Len(List(l)) >= COMPACTION_TRIGGER
  PROVE  /\ \A m \in Levels : m # l => List(m)' = List(m)
         /\ List(l)' \in Seq(Table)
         /\ Len(List(l)') = Len(List(l)) - COMPACTION_TRIGGER
         /\ \A i \in 1..Len(List(l)') : List(l)'[i] = List(l)[i + COMPACTION_TRIGGER]
<1>1. /\ List(l) \in Seq(Table) /\ Len(List(l)) \in Nat
      /\ List(l)' = SubSeq(List(l), COMPACTION_TRIGGER + 1, Len(List(l)))
  BY DEF TypeOK, Dropped, List
<1>2. \A m \in Levels : m # l => List(m)' = List(m)
  BY DEF TypeOK, Dropped, List
<1>3. COMPACTION_TRIGGER \in Nat
  BY DEF ConstantsAssumption
<1>4. /\ List(l)' \in Seq(Table)
      /\ Len(List(l)') = Len(List(l)) - COMPACTION_TRIGGER
  BY <1>1, <1>3
<1>5. ASSUME NEW i \in 1..Len(List(l)')
      PROVE  List(l)'[i] = List(l)[i + COMPACTION_TRIGGER]
  BY <1>1, <1>3, <1>4
<1>6. QED
  BY <1>2, <1>4, <1>5

(* The first tables of a list.                                             *)
LEMMA BatchFacts ==
  ASSUME ConstantsAssumption, NEW list \in Seq(Table), Len(list) >= COMPACTION_TRIGGER
  PROVE  LET batch == SubSeq(list, 1, COMPACTION_TRIGGER) IN
         /\ batch \in Seq(Table) /\ Len(batch) = COMPACTION_TRIGGER
         /\ \A i \in 1..COMPACTION_TRIGGER : batch[i] = list[i]
<1>1. COMPACTION_TRIGGER \in Nat /\ Len(list) \in Nat
  BY DEF ConstantsAssumption
<1>2. QED
  BY <1>1

(* A batch is the same after an append.                                    *)
LEMMA BatchKept ==
  ASSUME ConstantsAssumption, NEW s \in Seq(Table), NEW u \in Seq(Table),
         Len(s) >= COMPACTION_TRIGGER, Len(u) >= Len(s), \A i \in 1..Len(s) : u[i] = s[i]
  PROVE  SubSeq(u, 1, COMPACTION_TRIGGER) = SubSeq(s, 1, COMPACTION_TRIGGER)
<1>1. COMPACTION_TRIGGER \in Nat /\ Len(s) \in Nat /\ Len(u) \in Nat
  BY DEF ConstantsAssumption
<1> DEFINE a == SubSeq(u, 1, COMPACTION_TRIGGER)
           b == SubSeq(s, 1, COMPACTION_TRIGGER)
<1>2. /\ a \in Seq(Table) /\ Len(a) = COMPACTION_TRIGGER
      /\ b \in Seq(Table) /\ Len(b) = COMPACTION_TRIGGER
      /\ \A i \in 1..COMPACTION_TRIGGER : a[i] = u[i] /\ b[i] = s[i]
  BY <1>1, BatchFacts
<1>3. \A i \in 1..COMPACTION_TRIGGER : i \in 1..Len(s)
  BY <1>1
<1>4. \A i \in 1..Len(a) : a[i] = b[i]
  BY <1>2, <1>3
<1> HIDE DEF a, b
<1>5. a = b
  BY <1>2, <1>4, SeqEqual
<1>6. QED
  BY <1>5 DEF a, b

-----------------------------------------------------------------------------
(* Levels.                                                                 *)

LEMMA LevelFacts ==
  ASSUME ConstantsAssumption, NEW c \in Compactors
  PROVE  /\ c \in Nat /\ c \in Levels /\ 0 \in Compactors /\ 0 \in Levels
         /\ HigherLevel(c) \in Levels /\ HigherLevel(c) > c
         /\ c + 1 \in Compactors => HigherLevel(c) = c + 1
         /\ c + 1 \notin Compactors => HigherLevel(c) = MAX_LEVEL
  BY DEF ConstantsAssumption, Compactors, Levels, HigherLevel

(* A level that a compactor works on and the one below it exist, and no    *)
(* other compactor works on the same.                                      *)
LEMMA WorkingLevels ==
  ASSUME ConstantsAssumption, TypeInv, NEW c \in Compactors, Working(c)
  PROVE  /\ curr_level[c] \in Levels /\ curr_level[c] + 1 \in Levels
         /\ curr_level[c] \in Nat /\ curr_level[c] >= c
         /\ c + 1 \in Compactors => curr_level[c] = c
         /\ \A d \in Compactors : d # c /\ Working(d) => curr_level[d] # curr_level[c]
<1>1. /\ curr_level[c] \in Levels /\ curr_level[c] \in c..HigherLevel(c)
      /\ curr_level[c] < HigherLevel(c)
  BY DEF TypeInv, TypeOK, LevelInv
<1>2. curr_level[c] + 1 \in Levels /\ curr_level[c] \in Nat /\ curr_level[c] >= c
  BY <1>1, LevelFacts DEF Levels, ConstantsAssumption
<1>3. c + 1 \in Compactors => curr_level[c] = c
  BY <1>1, LevelFacts
<1>4. ASSUME NEW d \in Compactors, d # c, Working(d)
      PROVE  curr_level[d] # curr_level[c]
  <2>1. /\ curr_level[d] \in d..HigherLevel(d)
        /\ curr_level[d] < HigherLevel(d)
    BY <1>4 DEF TypeInv, LevelInv
  <2>2. d \in Nat /\ c \in Nat /\ (d < c => d + 1 \in Compactors) /\ (c < d => c + 1 \in Compactors)
    BY <1>4 DEF ConstantsAssumption, Compactors
  <2>3. d + 1 \in Compactors => HigherLevel(d) = d + 1
    BY LevelFacts
  <2>4. curr_level[d] \in Nat
    BY <2>1, <2>2, LevelFacts DEF Levels, ConstantsAssumption
  <2>5. QED
    BY <1>1, <1>2, <1>3, <1>4, <2>1, <2>2, <2>3, <2>4
<1>5. QED
  BY <1>1, <1>2, <1>3, <1>4

(* An append to a level comes from the level above.                        *)
LEMMA WorkingKinds ==
  ASSUME NEW c
  PROVE  /\ Busy(c) => Working(c)
         /\ InFlight(c) => Busy(c)
         /\ compactor[c] \in {"pick", "merge", "load_add", "add", "load_remove", "remove",
                              "advance"} <=> Working(c)
  BY DEF Busy, Working, InFlight

-----------------------------------------------------------------------------
(* Types.                                                                  *)

LEMMA NewTableType ==
  ASSUME ConstantsAssumption, TypeOK, flushed < MaxFlushes
  PROVE  /\ [gens |-> {flushed + 1}, purged |-> {}] \in Table
         /\ NewTableLast \in Seq(Table) /\ flushed + 1 \in 0..MaxFlushes
<1>1. flushed + 1 \in Generations /\ flushed + 1 \in 0..MaxFlushes
  BY DEF ConstantsAssumption, TypeOK, Generations
<1>2. [gens |-> {flushed + 1}, purged |-> {}] \in Table
  BY <1>1 DEF Table
<1>3. readers_at_level[0] \in Seq(Table)
  BY DEF TypeOK, ConstantsAssumption, Levels
<1>4. QED
  BY <1>1, <1>2, <1>3, AppendProperties DEF NewTableLast

LEMMA MergedTableType ==
  ASSUME NEW fs \in Seq(Table), NEW purge \in BOOLEAN
  PROVE  /\ MergedTable(fs, purge) \in Table
         /\ \A g : g \in MergedTable(fs, purge).gens <=> \E i \in 1..Len(fs) : g \in fs[i].gens
         /\ \A g \in MergedTable(fs, purge).purged :
              IF purge THEN g \in MergedTable(fs, purge).gens
              ELSE \E i \in 1..Len(fs) : g \in fs[i].purged
<1> DEFINE all == UNION {fs[i].gens : i \in 1..Len(fs)}
           purged == UNION {fs[i].purged : i \in 1..Len(fs)}
<1>1. \A i \in 1..Len(fs) : fs[i] \in Table
  BY ElementOfSeq
<1>2. \A i \in 1..Len(fs) : fs[i].gens \subseteq Generations /\ fs[i].purged \subseteq Generations
  BY <1>1 DEF Table
<1>3. all \subseteq Generations /\ purged \subseteq Generations
  BY <1>2
<1>4. MergedTable(fs, purge) = [gens |-> all, purged |-> IF purge THEN all ELSE purged]
  BY DEF MergedTable
<1>5. /\ \A g : g \in all <=> \E i \in 1..Len(fs) : g \in fs[i].gens
      /\ \A g : g \in purged <=> \E i \in 1..Len(fs) : g \in fs[i].purged
  OBVIOUS
<1> HIDE DEF all, purged
<1>6. MergedTable(fs, purge) \in Table
  BY <1>3, <1>4 DEF Table
<1>7. QED
  BY <1>4, <1>5, <1>6

LEMMA ReleaseType ==
  ASSUME TypeOK, NEW c \in Compactors, Release(c)
  PROVE  /\ start_compactor' \in [Compactors -> Nat] /\ start_compactor'[c] > 0
         /\ \A d \in Compactors : start_compactor'[d] >= start_compactor[d]
<1>1. PICK n \in Released(start_compactor[c]) :
        start_compactor' = [start_compactor EXCEPT ![c] = n]
  BY DEF Release
<1>2. n \in Nat /\ n > 0 /\ n >= start_compactor[c]
  BY DEF Released, TypeOK
<1>3. QED
  BY <1>1, <1>2 DEF TypeOK

(* The flusher keeps the types.                                            *)
LEMMA FlusherTypes ==
  ASSUME ConstantsAssumption, TypeOK, CopyInv, Flusher
  PROVE  TypeOK'
<1>1. CASE LoadLevel0
  BY <1>1, NewTableType DEF LoadLevel0, TypeOK, compactorVars, readerVars
<1>2. CASE AddTable
  <2>1. flusher_neu \in Seq(Table) /\ flushed + 1 \in 0..MaxFlushes /\ <<>> \in Seq(Table)
    BY <1>2, NewTableType DEF AddTable, CopyInv, TypeOK
  <2>2. QED
    BY <1>2, <2>1 DEF AddTable, TypeOK, compactorVars, readerVars
<1>3. CASE TriggerCompaction
  <2>1. 0 \in Compactors
    BY DEF ConstantsAssumption, Compactors
  <2>2. start_compactor' \in [Compactors -> Nat]
    BY <1>3, <2>1, ReleaseType DEF TriggerCompaction, TypeOK
  <2>3. QED
    BY <1>3, <2>2 DEF TriggerCompaction, TypeOK, compactorVars, readerVars
<1>4. QED
  BY <1>1, <1>2, <1>3 DEF Flusher

(* So do the readers.                                                      *)
LEMMA ReaderTypes ==
  ASSUME ConstantsAssumption, TypeOK, NEW r \in Readers, BeginSearch(r) \/ Reader(r)
  PROVE  TypeOK'
<1>1. UNCHANGED <<readers_at_level, curr_max_level, start_compactor, run_compactor,
                  flusherVars, compactorVars>>
  BY ReaderFrame
<1>2. /\ reader' \in [Readers -> {"idle", "load", "visit", "missed"}]
      /\ level' \in [Readers -> Levels] /\ readers' \in [Readers -> Seq(Table)]
      /\ base' \in [Readers -> 0..MaxFlushes] /\ seen' \in [Readers -> SUBSET Generations]
  <2>1. CASE BeginSearch(r)
    BY <2>1 DEF BeginSearch, TypeOK
  <2>2. CASE LoadReaders(r)
    BY <2>2 DEF LoadReaders, ReadersNewestLast, TypeOK
  <2>3. CASE VisitTable(r)
    <3>1. readers[r] \in Seq(Table) /\ Len(readers[r]) \in 1..Len(readers[r])
      BY <2>3 DEF VisitTable, TypeOK
    <3>2. NextTable(r) \in Table
      BY <3>1, ElementOfSeq DEF NextTable
    <3>3. SubSeq(readers[r], 1, Len(readers[r]) - 1) \in Seq(Table)
      BY <3>1
    <3>4. seen[r] \union NextTable(r).gens \in SUBSET Generations
      BY <3>2 DEF Table, TypeOK
    <3>5. QED
      BY <2>3, <3>3, <3>4 DEF VisitTable, TypeOK
  <2>4. CASE LeaveLevel(r)
    <3>1. level[r] \in Levels /\ (~AtLastLevel(r) => level[r] + 1 \in Levels)
      BY DEF AtLastLevel, TypeOK, Levels, ConstantsAssumption
    <3>2. CASE AtLastLevel(r)
      BY <2>4, <3>2 DEF LeaveLevel, TypeOK
    <3>3. CASE ~AtLastLevel(r)
      BY <2>4, <3>1, <3>3 DEF LeaveLevel, TypeOK
    <3>4. QED
      BY <3>2, <3>3
  <2>5. CASE EndSearch(r)
    BY <2>5 DEF EndSearch, TypeOK, Levels, ConstantsAssumption
  <2>6. QED
    BY <2>1, <2>2, <2>3, <2>4, <2>5 DEF Reader
<1>3. QED
  BY <1>1, <1>2 DEF TypeOK, flusherVars, compactorVars

(* So does a compactor.                                                    *)
LEMMA CompactorTypes ==
  ASSUME ConstantsAssumption, TypeInv, FilesInv, NEW c \in Compactors, Compactor(c)
  PROVE  TypeOK'
<1> USE DEF TypeOK, TypeInv
<1>1. CASE CompactorLoop(c)
  BY <1>1 DEF CompactorLoop, CompactorAt, flusherVars, readerVars
<1>2. CASE AcquireStart(c)
  BY <1>2 DEF AcquireStart, CompactorAt, HasPermit, flusherVars, readerVars
<1>3. CASE CompactorWoken(c)
  BY <1>3, LevelFacts DEF CompactorWoken, CompactorAt, flusherVars, readerVars
<1>4. CASE CheckLowerLevel(c)
  <2>1. start_compactor' \in [Compactors -> Nat]
    BY <1>4, ReleaseType DEF CheckLowerLevel
  <2>2. QED
    BY <1>4, <2>1 DEF CheckLowerLevel, CompactorAt, flusherVars, readerVars
<1>5. CASE PickFiles(c)
  <2>1. SubSeq(readers_at_level[curr_level[c]], 1, COMPACTION_TRIGGER) \in Seq(Table)
    BY <1>5, BatchFacts DEF PickFiles, CompactorAt, FilesInv, RemovesWhatItMerged
  <2>2. QED
    BY <1>5, <2>1 DEF PickFiles, CompactorAt, flusherVars, readerVars
<1>6. CASE MergeFiles(c)
  <2>1. RemoveTombstones(c) \in BOOLEAN
    BY DEF RemoveTombstones
  <2>2. MergedTable(files[c], RemoveTombstones(c)) \in Table
    BY <2>1, MergedTableType
  <2>3. QED
    BY <1>6, <2>2 DEF MergeFiles, CompactorAt, flusherVars, readerVars
<1>7. CASE LoadForAdd(c)
  <2>1. curr_level[c] + 1 \in Levels
    BY <1>7, WorkingLevels, WorkingKinds DEF LoadForAdd, CompactorAt
  <2>2. WithMerged(c) \in Seq(Table)
    BY <2>1, AppendProperties DEF WithMerged
  <2>3. QED
    BY <1>7, <2>2 DEF LoadForAdd, CompactorAt, flusherVars, readerVars
<1>8. CASE AddMerged(c)
  BY <1>8 DEF AddMerged, CompactorAt, flusherVars, readerVars
<1>9. CASE LoadForRemove(c)
  <2>1. readers_at_level[curr_level[c]] \in Seq(Table) /\ COMPACTION_TRIGGER \in Nat
    BY DEF ConstantsAssumption
  <2>2. SubSeq(readers_at_level[curr_level[c]], COMPACTION_TRIGGER + 1,
               Len(readers_at_level[curr_level[c]])) \in Seq(Table)
    BY <2>1
  <2>3. QED
    BY <1>9, <2>2 DEF LoadForRemove, CompactorAt, flusherVars, readerVars
<1>10. CASE RemoveFiles(c)
  <2>1. NoTable \in Table /\ <<>> \in Seq(Table)
    BY DEF NoTable, Table
  <2>2. QED
    BY <1>10, <2>1 DEF RemoveFiles, CompactorAt, flusherVars, readerVars
<1>11. CASE AdvanceLevel(c)
  <2>1. curr_level[c] + 1 \in Levels
    BY <1>11, WorkingLevels, WorkingKinds DEF AdvanceLevel, CompactorAt
  <2>2. QED
    BY <1>11, <2>1 DEF AdvanceLevel, CompactorAt, flusherVars, readerVars
<1>12. CASE BumpMaxLevel(c)
  BY <1>12 DEF BumpMaxLevel, CompactorAt, flusherVars, readerVars
<1>13. CASE RecheckLevel(c)
  BY <1>13 DEF RecheckLevel, CompactorAt, flusherVars, readerVars
<1>14. CASE StartNext(c)
  <2>1. c + 1 \in Compactors
    BY <1>14 DEF StartNext, CompactorAt, LevelInv
  <2>2. start_compactor' \in [Compactors -> Nat]
    BY <1>14, <2>1, ReleaseType DEF StartNext
  <2>3. QED
    BY <1>14, <2>2 DEF StartNext, CompactorAt, flusherVars, readerVars
<1>15. QED
  BY <1>1, <1>2, <1>3, <1>4, <1>5, <1>6, <1>7, <1>8, <1>9, <1>10, <1>11, <1>12, <1>13,
    <1>14 DEF Compactor

(* Every variable keeps its type.                                          *)
LEMMA TypeStep ==
  ASSUME ConstantsAssumption, TypeInv, CopyInv, FilesInv, Next
  PROVE  TypeOK'
<1>1. ASSUME NEW c \in Compactors, StopCompactor(c)
      PROVE  TypeOK'
  <2>1. start_compactor' \in [Compactors -> Nat]
    BY <1>1, ReleaseType DEF StopCompactor, TypeInv
  <2>2. run_compactor' \in [Compactors -> BOOLEAN]
    BY <1>1 DEF StopCompactor, TypeInv, TypeOK
  <2>3. QED
    BY <1>1, <2>1, <2>2, StopFrame DEF TypeInv, TypeOK, flusherVars, compactorVars, readerVars
<1>2. CASE Terminated
  BY <1>2 DEF Terminated, vars, flusherVars, compactorVars, readerVars, TypeInv, TypeOK
<1>3. QED
  BY <1>1, <1>2, FlusherTypes, ReaderTypes, CompactorTypes DEF Next, TypeInv

(* Compactors stay on their levels.                                        *)
LEMMA LevelStep ==
  ASSUME ConstantsAssumption, TypeInv, Next
  PROVE  LevelInv'
<1>1. CASE UNCHANGED <<compactor, curr_level>>
  BY <1>1 DEF TypeInv, LevelInv, Working, Busy
<1>2. ASSUME NEW c \in Compactors, Compactor(c), NEW d \in Compactors
      PROVE  /\ curr_level'[d] \in d..HigherLevel(d)
             /\ compactor'[d] = "check" => curr_level'[d] = d
             /\ Working(d)' => curr_level'[d] < HigherLevel(d)
             /\ compactor'[d] \in {"bump", "recheck"} => curr_level'[d] > d
             /\ compactor'[d] = "next" => d + 1 \in Compactors
  <2>1. CASE d # c
    BY <1>2, <2>1, CompactorFrame DEF TypeInv, LevelInv, Working, Busy
  <2>2. CASE d = c
    <3>1. /\ curr_level[c] \in c..HigherLevel(c)
          /\ compactor[c] = "check" => curr_level[c] = c
          /\ Working(c) => curr_level[c] < HigherLevel(c)
          /\ compactor[c] \in {"bump", "recheck"} => curr_level[c] > c
          /\ compactor[c] = "next" => c + 1 \in Compactors
      BY DEF TypeInv, LevelInv
    <3>2. /\ c \in Nat /\ HigherLevel(c) \in Nat /\ HigherLevel(c) > c
          /\ c + 1 \in Compactors => HigherLevel(c) = c + 1
          /\ c + 1 \notin Compactors => HigherLevel(c) = MAX_LEVEL
      BY LevelFacts DEF Levels, ConstantsAssumption
    <3>3. CASE \/ CompactorLoop(c) \/ AcquireStart(c) \/ CheckLowerLevel(c) \/ PickFiles(c)
               \/ MergeFiles(c) \/ LoadForAdd(c) \/ AddMerged(c) \/ LoadForRemove(c)
               \/ RemoveFiles(c) \/ BumpMaxLevel(c) \/ StartNext(c)
      <4> USE <2>2, <3>1, <3>2 DEF CompactorAt, TypeInv, TypeOK, Working, Busy
      <4>1. CASE CompactorLoop(c)
        BY <4>1 DEF CompactorLoop
      <4>2. CASE AcquireStart(c)
        BY <4>2 DEF AcquireStart
      <4>3. CASE CheckLowerLevel(c)
        BY <4>3 DEF CheckLowerLevel
      <4>4. CASE PickFiles(c)
        BY <4>4 DEF PickFiles
      <4>5. CASE MergeFiles(c)
        BY <4>5 DEF MergeFiles
      <4>6. CASE LoadForAdd(c)
        BY <4>6 DEF LoadForAdd
      <4>7. CASE AddMerged(c)
        BY <4>7 DEF AddMerged
      <4>8. CASE LoadForRemove(c)
        BY <4>8 DEF LoadForRemove
      <4>9. CASE RemoveFiles(c)
        BY <4>9 DEF RemoveFiles
      <4>10. CASE BumpMaxLevel(c)
        BY <4>10 DEF BumpMaxLevel
      <4>11. CASE StartNext(c)
        BY <4>11 DEF StartNext
      <4>12. QED
        BY <3>3, <4>1, <4>2, <4>3, <4>4, <4>5, <4>6, <4>7, <4>8, <4>9, <4>10, <4>11
    <3>4. CASE CompactorWoken(c)
      BY <2>2, <3>2, <3>4 DEF CompactorWoken, CompactorAt, TypeInv, TypeOK, Working, Busy
    <3>5. CASE AdvanceLevel(c)
      BY <2>2, <3>1, <3>2, <3>5 DEF AdvanceLevel, CompactorAt, TypeInv, TypeOK, Working, Busy
    <3>6. CASE RecheckLevel(c)
      BY <2>2, <3>1, <3>2, <3>6 DEF RecheckLevel, CompactorAt, TypeInv, TypeOK, Working, Busy
    <3>7. QED
      BY <1>2, <3>3, <3>4, <3>5, <3>6 DEF Compactor
  <2>3. QED
    BY <2>1, <2>2
<1>3. QED
  BY <1>1, <1>2, FlusherFrame, ReaderFrame, StopFrame
    DEF Next, Terminated, vars, compactorVars, LevelInv

-----------------------------------------------------------------------------
(* Locks and copies.                                                       *)

(* Two compactors work on neighbouring levels only when each is on its own *)
(* level.                                                                  *)
LEMMA Neighbours ==
  ASSUME ConstantsAssumption, TypeInv, NEW c \in Compactors, NEW d \in Compactors,
         Working(c), Working(d), curr_level[d] = curr_level[c] + 1
  PROVE  d = c + 1 /\ curr_level[c] = c /\ curr_level[d] = d
<1>1. /\ curr_level[c] \in Nat /\ curr_level[c] >= c
      /\ curr_level[d] \in Nat /\ curr_level[d] >= d
      /\ c + 1 \in Compactors => curr_level[c] = c
      /\ d + 1 \in Compactors => curr_level[d] = d
  BY WorkingLevels
<1>2. c \in Nat /\ d \in Nat /\ (d < c => d + 1 \in Compactors) /\ (c < d => c + 1 \in Compactors)
  BY DEF ConstantsAssumption, Compactors
<1>3. c # d
  BY <1>1
<1>4. QED
  BY <1>1, <1>2, <1>3

(* LockInv is kept: each of the two waits for the mutex of the level.      *)
LEMMA LockStep ==
  ASSUME ConstantsAssumption, TypeInv, LockInv, Next
  PROVE  LockInv'
<1>1. CASE UNCHANGED <<compactor, curr_level, flusher>>
  BY <1>1 DEF LockInv
<1>2. CASE Flusher
  <2>1. UNCHANGED <<compactor, curr_level>>
    BY <1>2, FlusherFrame DEF compactorVars
  <2>2. 0 \in Compactors
    BY DEF ConstantsAssumption, Compactors
  <2>3. flusher' = "add" => ~(compactor[0] = "remove" /\ curr_level[0] = 0)
    BY <1>2, <2>2 DEF Flusher, LoadLevel0, AddTable, TriggerCompaction, Free, CompactorHolds
  <2>4. QED
    BY <2>1, <2>3 DEF LockInv
<1>3. ASSUME NEW c \in Compactors, Compactor(c)
      PROVE  LockInv'
  <2>1. UNCHANGED flusher /\ \A d \in Compactors : d # c =>
          compactor'[d] = compactor[d] /\ curr_level'[d] = curr_level[d]
    BY <1>3, CompactorFrame DEF flusherVars, TypeInv
  <2>2. c \in Nat /\ 0 \in Compactors /\ c # c + 1
    BY LevelFacts
  <2>3. CASE LoadForAdd(c)
    <3>1. UNCHANGED curr_level /\ compactor[c] = "load_add" /\ compactor'[c] = "add"
      BY <2>3 DEF LoadForAdd, CompactorAt, TypeInv, TypeOK
    <3>2. c + 1 \in Compactors => curr_level[c] + 1 = HigherLevel(c)
      BY <3>1, WorkingLevels, WorkingKinds, LevelFacts
    <3>3. ASSUME c + 1 \in Compactors
          PROVE  ~(compactor[c + 1] = "remove" /\ curr_level[c + 1] = c + 1)
      BY <2>3, <3>2, <3>3 DEF LoadForAdd, Free, CompactorHolds
    <3>4. ASSUME NEW d \in Compactors, d + 1 \in Compactors
          PROVE  ~(compactor'[d] = "add" /\ compactor'[d + 1] = "remove" /\ curr_level'[d + 1] = d + 1)
      <4>1. CASE d = c
        BY <2>1, <2>2, <3>3, <3>4, <4>1
      <4>2. CASE d # c
        BY <2>1, <3>1, <3>4, <4>2 DEF LockInv
      <4>3. QED
        BY <4>1, <4>2
    <3>5. QED
      BY <2>1, <2>2, <3>1, <3>4 DEF LockInv
  <2>4. CASE LoadForRemove(c)
    <3>1. UNCHANGED curr_level /\ compactor[c] = "load_remove" /\ compactor'[c] = "remove"
      BY <2>4 DEF LoadForRemove, CompactorAt, TypeInv, TypeOK
    <3>2. c = 0 /\ curr_level[c] = 0 => flusher # "add"
      BY <2>4 DEF LoadForRemove, Free, FlusherHolds
    <3>3. ASSUME NEW d \in Compactors, d + 1 = c, curr_level[c] = c
          PROVE  compactor[d] # "add"
      <4>1. ~CompactorHolds(d, c)
        BY <2>4, <3>3 DEF LoadForRemove, Free
      <4>2. compactor[d] = "add" => curr_level[d] = d
        BY <3>3, WorkingLevels, WorkingKinds
      <4>3. d \in Nat /\ HigherLevel(d) = d + 1
        BY <3>3, LevelFacts
      <4>4. QED
        BY <3>3, <4>1, <4>2, <4>3 DEF CompactorHolds
    <3>4. ASSUME NEW d \in Compactors, d + 1 \in Compactors
          PROVE  ~(compactor'[d] = "add" /\ compactor'[d + 1] = "remove" /\ curr_level'[d + 1] = d + 1)
      <4>1. CASE d + 1 = c
        <5>1. d # c
          BY <2>2, <4>1
        <5>2. QED
          BY <2>1, <3>1, <3>3, <4>1, <5>1
      <4>2. CASE d = c
        BY <3>1, <4>2
      <4>3. CASE d # c /\ d + 1 # c
        BY <2>1, <3>4, <4>3 DEF LockInv
      <4>4. QED
        BY <4>1, <4>2, <4>3
    <3>5. ~(flusher' = "add" /\ compactor'[0] = "remove" /\ curr_level'[0] = 0)
      BY <2>1, <2>2, <3>1, <3>2 DEF LockInv
    <3>6. QED
      BY <3>4, <3>5 DEF LockInv
  <2>5. ASSUME ~LoadForAdd(c), ~LoadForRemove(c)
        PROVE  compactor'[c] # "add" /\ compactor'[c] # "remove"
    BY <1>3, <2>5 DEF Compactor, CompactorLoop, AcquireStart, CompactorWoken, CheckLowerLevel,
      PickFiles, MergeFiles, AddMerged, RemoveFiles, AdvanceLevel, BumpMaxLevel,
      RecheckLevel, StartNext, CompactorAt, TypeInv, TypeOK
  <2>6. ASSUME ~LoadForAdd(c), ~LoadForRemove(c)
        PROVE  LockInv'
    <3>1. \A d \in Compactors : compactor'[d] \in {"add", "remove"} =>
            compactor[d] = compactor'[d] /\ curr_level'[d] = curr_level[d]
      BY <2>1, <2>5, <2>6
    <3>2. QED
      BY <2>1, <2>2, <3>1 DEF LockInv
  <2>7. QED
    BY <2>3, <2>4, <2>6
<1>4. QED
  BY <1>1, <1>2, <1>3, ReaderFrame, StopFrame DEF Next, Terminated, vars, flusherVars, compactorVars

(* The steps that change a list.                                           *)
LEMMA AddTableEffect ==
  ASSUME ConstantsAssumption, TypeInv, CopyInv, AddTable
  PROVE  LET t == [gens |-> {flushed + 1}, purged |-> {}] IN
         /\ t \in Table /\ 0 \in Levels /\ Appended(0, t)
         /\ flushed' = flushed + 1 /\ flushed' \in 0..MaxFlushes
         /\ UNCHANGED <<curr_max_level, compactorVars, readerVars>>
<1>1. flusher_neu = NewTableLast /\ flushed < MaxFlushes
  BY DEF AddTable, CopyInv
<1>2. QED
  BY <1>1, NewTableType DEF AddTable, NewTableLast, Appended, List, TypeInv, Levels,
    ConstantsAssumption

LEMMA AddMergedEffect ==
  ASSUME ConstantsAssumption, TypeInv, CopyInv, NEW c \in Compactors, AddMerged(c)
  PROVE  /\ merged[c] \in Table /\ curr_level[c] + 1 \in Levels /\ curr_level[c] \in Levels
         /\ Appended(curr_level[c] + 1, merged[c])
         /\ compactor[c] = "add" /\ compactor'[c] = "load_remove"
         /\ compactor' = [compactor EXCEPT ![c] = "load_remove"]
         /\ UNCHANGED <<flushed, curr_max_level, curr_level, files, merged, neu, flusherVars,
                        readerVars>>
<1>1. compactor[c] = "add" /\ compactor' = [compactor EXCEPT ![c] = "load_remove"]
  BY DEF AddMerged, CompactorAt
<1>2. neu[c] = WithMerged(c) /\ curr_level[c] + 1 \in Levels /\ curr_level[c] \in Levels
  BY <1>1, WorkingLevels, WorkingKinds DEF CopyInv
<1>3. QED
  BY <1>1, <1>2 DEF AddMerged, WithMerged, Appended, List, TypeInv, TypeOK, flusherVars

LEMMA RemoveFilesEffect ==
  ASSUME ConstantsAssumption, TypeInv, CopyInv, FilesInv, NEW c \in Compactors, RemoveFiles(c)
  PROVE  /\ curr_level[c] \in Levels
         /\ Dropped(curr_level[c]) /\ Len(List(curr_level[c])) >= COMPACTION_TRIGGER
         /\ compactor[c] = "remove" /\ compactor'[c] = "advance"
         /\ compactor' = [compactor EXCEPT ![c] = "advance"]
         /\ UNCHANGED <<flushed, curr_max_level, curr_level, flusherVars, readerVars>>
<1>1. compactor[c] = "remove" /\ compactor' = [compactor EXCEPT ![c] = "advance"]
  BY DEF RemoveFiles, CompactorAt
<1>2. /\ curr_level[c] \in Levels
      /\ neu[c] = SubSeq(List(curr_level[c]), COMPACTION_TRIGGER + 1, Len(List(curr_level[c])))
  BY <1>1 DEF CopyInv, TypeInv, TypeOK
<1>3. Len(List(curr_level[c])) >= COMPACTION_TRIGGER
  BY <1>1 DEF FilesInv, RemovesWhatItMerged, List
<1>4. QED
  BY <1>1, <1>2, <1>3 DEF RemoveFiles, Dropped, TypeInv, TypeOK, flusherVars

(* No other step changes a list, what is published or what is in flight.   *)
Quiet ==
  /\ UNCHANGED <<readers_at_level, flushed>>
  /\ \A c \in Compactors :
       /\ InFlight(c)' <=> InFlight(c)
       /\ InFlight(c) => curr_level'[c] = curr_level[c] /\ merged'[c] = merged[c]

LEMMA ListSteps ==
  ASSUME TypeInv, Next
  PROVE  AddTable \/ (\E c \in Compactors : AddMerged(c) \/ RemoveFiles(c)) \/ Quiet
<1>1. ASSUME UNCHANGED <<readers_at_level, flushed, compactorVars>>
      PROVE  Quiet
  BY <1>1 DEF Quiet, InFlight, compactorVars
<1>2. CASE Flusher
  BY <1>1, <1>2, FlusherFrame DEF Flusher, LoadLevel0, TriggerCompaction
<1>3. ASSUME NEW c \in Compactors, Compactor(c), ~AddMerged(c), ~RemoveFiles(c)
      PROVE  Quiet
  <2>1. UNCHANGED flushed /\ \A d \in Compactors : d # c =>
          /\ compactor'[d] = compactor[d] /\ curr_level'[d] = curr_level[d]
          /\ merged'[d] = merged[d]
    BY <1>3, CompactorFrame DEF flusherVars, TypeInv
  <2>2. UNCHANGED readers_at_level
    BY <1>3 DEF Compactor, CompactorLoop, AcquireStart, CompactorWoken, CheckLowerLevel,
      PickFiles, MergeFiles, LoadForAdd, LoadForRemove, AdvanceLevel, BumpMaxLevel,
      RecheckLevel, StartNext
  <2>3. /\ InFlight(c)' <=> InFlight(c)
        /\ InFlight(c) => curr_level'[c] = curr_level[c] /\ merged'[c] = merged[c]
    BY <1>3 DEF Compactor, CompactorLoop, AcquireStart, CompactorWoken, CheckLowerLevel,
      PickFiles, MergeFiles, LoadForAdd, LoadForRemove, AdvanceLevel, BumpMaxLevel,
      RecheckLevel, StartNext, CompactorAt, TypeInv, TypeOK, InFlight
  <2>4. QED
    BY <2>1, <2>2, <2>3 DEF Quiet, InFlight
<1>4. QED
  BY <1>1, <1>2, <1>3, ReaderFrame, StopFrame
    DEF Next, Terminated, vars, flusherVars

(* A compactor that stays where it is has done nothing.                    *)
LEMMA NoStep ==
  ASSUME TypeOK, Next, NEW c \in Compactors, compactor'[c] = compactor[c]
  PROVE  curr_level'[c] = curr_level[c] /\ files'[c] = files[c] /\ merged'[c] = merged[c]
         /\ neu'[c] = neu[c] /\ ~Compactor(c)
<1>1. ~Compactor(c)
  BY DEF Compactor, CompactorLoop, AcquireStart, CompactorWoken, CheckLowerLevel, PickFiles,
    MergeFiles, LoadForAdd, AddMerged, LoadForRemove, RemoveFiles, AdvanceLevel,
    BumpMaxLevel, RecheckLevel, StartNext, CompactorAt, TypeOK
<1>2. ASSUME UNCHANGED compactorVars
      PROVE  curr_level'[c] = curr_level[c] /\ files'[c] = files[c] /\ merged'[c] = merged[c]
             /\ neu'[c] = neu[c]
  BY <1>2 DEF compactorVars
<1>3. ASSUME NEW d \in Compactors, Compactor(d)
      PROVE  curr_level'[c] = curr_level[c] /\ files'[c] = files[c] /\ merged'[c] = merged[c]
             /\ neu'[c] = neu[c]
  BY <1>1, <1>3, CompactorFrame
<1>4. QED
  BY <1>1, <1>2, <1>3, FlusherFrame, ReaderFrame, StopFrame DEF Next, Terminated, vars

(* Nobody else changes the list that the flusher edits a copy of.          *)
LEMMA Level0Kept ==
  ASSUME ConstantsAssumption, TypeInv, LockInv, CopyInv, FilesInv, Next,
         flusher = "add", flusher' = "add"
  PROVE  List(0)' = List(0) /\ UNCHANGED flushed
<1>1. ~AddTable
  BY DEF AddTable
<1>2. ASSUME NEW c \in Compactors, AddMerged(c)
      PROVE  List(0)' = List(0) /\ UNCHANGED flushed
  <2>1. curr_level[c] + 1 # 0 /\ 0 \in Levels
    BY <1>2, AddMergedEffect DEF Levels, ConstantsAssumption
  <2>2. QED
    BY <1>2, <2>1, AddMergedEffect, AppendedLists DEF TypeInv
<1>3. ASSUME NEW c \in Compactors, RemoveFiles(c)
      PROVE  List(0)' = List(0) /\ UNCHANGED flushed
  <2>1. compactor[c] = "remove"
    BY <1>3, RemoveFilesEffect
  <2>2. curr_level[c] # 0
    <3>1. curr_level[c] \in Nat /\ curr_level[c] >= c /\ c \in Nat
      BY <2>1, WorkingLevels, WorkingKinds, LevelFacts DEF Busy
    <3>2. QED
      BY <2>1, <3>1 DEF LockInv
  <2>3. QED
    BY <1>3, <2>2, RemoveFilesEffect, DroppedLists DEF TypeInv, Levels, ConstantsAssumption
<1>4. QED
  BY <1>1, <1>2, <1>3, ListSteps DEF Quiet, List

(* Nobody else changes the list that a merged table is being added to.     *)
LEMMA TargetKept ==
  ASSUME ConstantsAssumption, TypeInv, LockInv, CopyInv, FilesInv, Next,
         NEW c \in Compactors, compactor[c] = "add", compactor'[c] = "add"
  PROVE  List(curr_level[c] + 1)' = List(curr_level[c] + 1)
<1>1. Working(c) /\ curr_level[c] + 1 \in Levels /\ curr_level[c] \in Nat
  BY WorkingLevels, WorkingKinds
<1>2. curr_level'[c] = curr_level[c]
  BY NoStep DEF TypeInv
<1>3. ASSUME Appended(0, [gens |-> {flushed + 1}, purged |-> {}]),
             [gens |-> {flushed + 1}, purged |-> {}] \in Table, 0 \in Levels
      PROVE  List(curr_level[c] + 1)' = List(curr_level[c] + 1)
  BY <1>1, <1>2, <1>3, AppendedLists DEF TypeInv, List
<1>4. ASSUME NEW d \in Compactors, AddMerged(d)
      PROVE  List(curr_level[c] + 1)' = List(curr_level[c] + 1)
  <2>1. d # c /\ Working(d)
    BY <1>4, AddMergedEffect, WorkingKinds
  <2>2. curr_level[d] # curr_level[c] /\ curr_level[d] \in Nat
    BY <1>1, <2>1, WorkingLevels
  <2>3. QED
    BY <1>1, <1>2, <1>4, <2>2, AddMergedEffect, AppendedLists DEF TypeInv, List
<1>5. ASSUME NEW d \in Compactors, RemoveFiles(d)
      PROVE  List(curr_level[c] + 1)' = List(curr_level[c] + 1)
  <2>1. compactor[d] = "remove" /\ Working(d)
    BY <1>5, RemoveFilesEffect, WorkingKinds
  <2>2. curr_level[d] # curr_level[c] + 1
    BY <1>1, <2>1, Neighbours DEF LockInv
  <2>3. QED
    BY <1>1, <1>2, <1>5, <2>2, RemoveFilesEffect, DroppedLists DEF TypeInv, List
<1>6. QED
  BY <1>2, <1>3, <1>4, <1>5, ListSteps, AddTableEffect DEF Quiet, List

(* Nobody else changes the list that the inputs of a merge are erased from.*)
LEMMA SourceKept ==
  ASSUME ConstantsAssumption, TypeInv, LockInv, CopyInv, FilesInv, Next,
         NEW c \in Compactors, compactor[c] = "remove", compactor'[c] = "remove"
  PROVE  List(curr_level[c])' = List(curr_level[c])
<1>1. Working(c) /\ curr_level[c] \in Levels /\ curr_level[c] \in Nat /\ curr_level[c] >= c
  BY WorkingLevels, WorkingKinds
<1>2. curr_level'[c] = curr_level[c]
  BY NoStep DEF TypeInv
<1>3. CASE AddTable
  <2>1. curr_level[c] # 0
    <3>1. flusher = "add" /\ c \in Nat
      BY <1>3, LevelFacts DEF AddTable
    <3>2. QED
      BY <1>1, <3>1 DEF LockInv
  <2>2. QED
    BY <1>1, <1>2, <1>3, <2>1, AddTableEffect, AppendedLists DEF TypeInv, List
<1>4. ASSUME NEW d \in Compactors, AddMerged(d)
      PROVE  List(curr_level[c])' = List(curr_level[c])
  <2>1. compactor[d] = "add" /\ Working(d)
    BY <1>4, AddMergedEffect, WorkingKinds
  <2>2. curr_level[c] # curr_level[d] + 1
    BY <1>1, <2>1, Neighbours DEF LockInv
  <2>3. QED
    BY <1>1, <1>2, <1>4, <2>2, AddMergedEffect, AppendedLists DEF TypeInv, List
<1>5. ASSUME NEW d \in Compactors, RemoveFiles(d)
      PROVE  List(curr_level[c])' = List(curr_level[c])
  <2>1. d # c /\ Working(d)
    BY <1>5, RemoveFilesEffect, WorkingKinds
  <2>2. curr_level[d] # curr_level[c]
    BY <1>1, <2>1, WorkingLevels
  <2>3. QED
    BY <1>1, <1>2, <1>5, <2>2, RemoveFilesEffect, DroppedLists DEF TypeInv, List
<1>6. QED
  BY <1>2, <1>3, <1>4, <1>5, ListSteps DEF Quiet, List

(* CopyInv is kept.                                                        *)
LEMMA CopyStep ==
  ASSUME ConstantsAssumption, TypeInv, LockInv, CopyInv, FilesInv, Next
  PROVE  CopyInv'
<1>1. ASSUME flusher' = "add"
      PROVE  flusher_neu' = NewTableLast' /\ flushed' < MaxFlushes
  <2>1. CASE LoadLevel0
    BY <2>1 DEF LoadLevel0, NewTableLast
  <2>2. CASE ~LoadLevel0
    <3>1. UNCHANGED flusherVars
      BY <1>1, <2>2, FlusherFrame, CompactorFrame, ReaderFrame, StopFrame
        DEF Next, Terminated, vars, Flusher, AddTable, TriggerCompaction, TypeInv
    <3>2. List(0)' = List(0) /\ flusher_neu' = flusher_neu /\ flushed' = flushed /\ flusher = "add"
      BY <1>1, <3>1, Level0Kept DEF flusherVars
    <3>3. QED
      BY <3>2 DEF CopyInv, NewTableLast, List
  <2>3. QED
    BY <2>1, <2>2
<1>2. ASSUME NEW c \in Compactors, compactor'[c] = "add"
      PROVE  neu'[c] = WithMerged(c)'
  <2>1. CASE LoadForAdd(c)
    BY <2>1 DEF LoadForAdd, WithMerged, TypeInv, TypeOK
  <2>2. CASE ~LoadForAdd(c)
    <3>1. compactor[c] = "add"
      <4>1. CASE Compactor(c)
        BY <1>2, <2>2, <4>1 DEF Compactor, CompactorLoop, AcquireStart, CompactorWoken,
          CheckLowerLevel, PickFiles, MergeFiles, AddMerged, LoadForRemove, RemoveFiles,
          AdvanceLevel, BumpMaxLevel, RecheckLevel, StartNext, CompactorAt, TypeInv, TypeOK
      <4>2. CASE ~Compactor(c)
        BY <1>2, <4>2, FlusherFrame, CompactorFrame, ReaderFrame, StopFrame
          DEF Next, Terminated, vars, compactorVars, TypeInv
      <4>3. QED
        BY <4>1, <4>2
    <3>2. neu'[c] = neu[c] /\ merged'[c] = merged[c] /\ curr_level'[c] = curr_level[c]
      BY <1>2, <3>1, NoStep DEF TypeInv
    <3>3. List(curr_level[c] + 1)' = List(curr_level[c] + 1)
      BY <1>2, <3>1, TargetKept
    <3>4. QED
      BY <3>1, <3>2, <3>3 DEF CopyInv, WithMerged, List
  <2>3. QED
    BY <2>1, <2>2
<1>3. ASSUME NEW c \in Compactors, compactor'[c] = "remove"
      PROVE  neu'[c] = SubSeq(List(curr_level[c])', COMPACTION_TRIGGER + 1,
                              Len(List(curr_level[c])'))
  <2>1. CASE LoadForRemove(c)
    BY <2>1 DEF LoadForRemove, List, TypeInv, TypeOK
  <2>2. CASE ~LoadForRemove(c)
    <3>1. compactor[c] = "remove"
      <4>1. CASE Compactor(c)
        BY <1>3, <2>2, <4>1 DEF Compactor, CompactorLoop, AcquireStart, CompactorWoken,
          CheckLowerLevel, PickFiles, MergeFiles, LoadForAdd, AddMerged, RemoveFiles,
          AdvanceLevel, BumpMaxLevel, RecheckLevel, StartNext, CompactorAt, TypeInv, TypeOK
      <4>2. CASE ~Compactor(c)
        BY <1>3, <4>2, FlusherFrame, CompactorFrame, ReaderFrame, StopFrame
          DEF Next, Terminated, vars, compactorVars, TypeInv
      <4>3. QED
        BY <4>1, <4>2
    <3>2. neu'[c] = neu[c]
      BY <1>3, <3>1, NoStep DEF TypeInv
    <3>3. List(curr_level[c])' = List(curr_level[c])
      BY <1>3, <3>1, SourceKept
    <3>4. QED
      BY <3>1, <3>2, <3>3 DEF CopyInv
  <2>3. QED
    BY <2>1, <2>2
<1>4. QED
  BY <1>1, <1>2, <1>3 DEF CopyInv

-----------------------------------------------------------------------------
(* The tables that are being merged.                                       *)

(* Level l has lost no table.                                              *)
Extended(l) ==
  /\ Len(List(l)') >= Len(List(l))
  /\ \A i \in 1..Len(List(l)) : List(l)'[i] = List(l)[i]

(* Only the compactor that works on a level takes tables from it.          *)
LEMMA ExtendedLists ==
  ASSUME ConstantsAssumption, TypeInv, LockInv, CopyInv, FilesInv, Next, NEW l \in Levels
  PROVE  Extended(l) \/ \E c \in Compactors : RemoveFiles(c) /\ curr_level[c] = l
<1>1. Len(List(l)) \in Nat
  BY DEF TypeInv, TypeOK, List
<1>2. ASSUME List(l)' = List(l)
      PROVE  Extended(l)
  BY <1>1, <1>2 DEF Extended
<1>3. ASSUME NEW m \in Levels, NEW t \in Table, Appended(m, t)
      PROVE  Extended(l)
  BY <1>1, <1>2, <1>3, AppendedLists DEF Extended, TypeInv
<1>4. ASSUME NEW c \in Compactors, RemoveFiles(c), curr_level[c] # l
      PROVE  Extended(l)
  BY <1>2, <1>4, RemoveFilesEffect, DroppedLists DEF TypeInv
<1>5. QED
  BY <1>2, <1>3, <1>4, ListSteps, AddTableEffect, AddMergedEffect DEF Quiet, List

(* Hence a compactor finds the tables that it looked at.                   *)
LEMMA BatchStays ==
  ASSUME ConstantsAssumption, TypeInv, LockInv, CopyInv, FilesInv, Next,
         NEW c \in Compactors, Working(c), ~RemoveFiles(c),
         Len(List(curr_level[c])) >= COMPACTION_TRIGGER, TypeOK'
  PROVE  LET list == List(curr_level[c])
             next == readers_at_level'[curr_level[c]]
         IN  /\ Len(next) >= COMPACTION_TRIGGER
             /\ SubSeq(next, 1, COMPACTION_TRIGGER) = SubSeq(list, 1, COMPACTION_TRIGGER)
<1>1. PICK l \in Levels : l = curr_level[c]
  BY WorkingLevels
<1>2. List(l) \in Seq(Table) /\ readers_at_level'[l] \in Seq(Table)
  BY DEF TypeInv, TypeOK, List
<1>3. \A d \in Compactors : ~(RemoveFiles(d) /\ curr_level[d] = l)
  BY <1>1, WorkingLevels, WorkingKinds, RemoveFilesEffect
<1>4. Extended(l)
  BY <1>3, ExtendedLists
<1>5. /\ Len(readers_at_level'[l]) >= Len(List(l))
      /\ \A i \in 1..Len(List(l)) : readers_at_level'[l][i] = List(l)[i]
  BY <1>4 DEF Extended, List
<1>6. Len(List(l)) >= COMPACTION_TRIGGER
  BY <1>1
<1>7. SubSeq(readers_at_level'[l], 1, COMPACTION_TRIGGER) = SubSeq(List(l), 1, COMPACTION_TRIGGER)
  BY <1>2, <1>5, <1>6, BatchKept
<1>8. Len(readers_at_level'[l]) >= COMPACTION_TRIGGER
  BY <1>2, <1>5, <1>6 DEF ConstantsAssumption
<1>9. QED
  BY <1>1, <1>7, <1>8

(* FilesInv is kept.                                                       *)
LEMMA FilesStep ==
  ASSUME ConstantsAssumption, TypeInv, LockInv, CopyInv, FilesInv, TypeOK', Next
  PROVE  FilesInv'
<1> SUFFICES ASSUME NEW c \in Compactors
             PROVE  LET list == readers_at_level'[curr_level'[c]] IN
                    /\ compactor'[c] = "pick" => Len(list) >= COMPACTION_TRIGGER
                    /\ Busy(c)' => /\ Len(list) >= COMPACTION_TRIGGER
                                   /\ SubSeq(list, 1, COMPACTION_TRIGGER) = files'[c]
  BY DEF FilesInv, RemovesWhatItMerged, Busy
<1>1. /\ compactor[c] = "pick" => Len(List(curr_level[c])) >= COMPACTION_TRIGGER
      /\ Busy(c) => /\ Len(List(curr_level[c])) >= COMPACTION_TRIGGER
                    /\ SubSeq(List(curr_level[c]), 1, COMPACTION_TRIGGER) = files[c]
  BY DEF FilesInv, RemovesWhatItMerged, Busy, List
<1>2. ASSUME Working(c), ~RemoveFiles(c), Len(List(curr_level[c])) >= COMPACTION_TRIGGER
      PROVE  LET next == readers_at_level'[curr_level[c]] IN
             /\ Len(next) >= COMPACTION_TRIGGER
             /\ SubSeq(next, 1, COMPACTION_TRIGGER)
                  = SubSeq(List(curr_level[c]), 1, COMPACTION_TRIGGER)
  BY <1>2, BatchStays
<1>3. CASE CheckLowerLevel(c)
  BY <1>3 DEF CheckLowerLevel, CompactorAt, TypeInv, TypeOK, LevelInv, Busy
<1>4. CASE RecheckLevel(c)
  BY <1>4 DEF RecheckLevel, CompactorAt, TypeInv, TypeOK, Busy
<1>5. CASE PickFiles(c)
  <2>1. compactor[c] = "pick" /\ compactor'[c] = "merge" /\ UNCHANGED <<curr_level, readers_at_level>>
        /\ files'[c] = SubSeq(readers_at_level[curr_level[c]], 1, COMPACTION_TRIGGER)
    BY <1>5 DEF PickFiles, CompactorAt, TypeInv, TypeOK
  <2>2. QED
    BY <1>1, <2>1 DEF List
<1>6. CASE MergeFiles(c) \/ LoadForAdd(c) \/ AddMerged(c) \/ LoadForRemove(c)
  <2>1. Busy(c) /\ ~RemoveFiles(c) /\ compactor'[c] # "pick" /\ UNCHANGED <<curr_level, files>>
    BY <1>6 DEF MergeFiles, LoadForAdd, AddMerged, LoadForRemove, RemoveFiles, CompactorAt,
      TypeInv, TypeOK, Busy
  <2>2. QED
    BY <1>1, <1>2, <2>1, WorkingKinds
<1>7. CASE compactor'[c] = compactor[c]
  <2>1. curr_level'[c] = curr_level[c] /\ files'[c] = files[c] /\ ~RemoveFiles(c)
    BY <1>7, NoStep DEF TypeInv, Compactor
  <2>2. QED
    BY <1>1, <1>2, <1>7, <2>1, WorkingKinds DEF Busy, Working
<1>8. CASE \/ CompactorLoop(c) \/ AcquireStart(c) \/ CompactorWoken(c) \/ RemoveFiles(c)
           \/ AdvanceLevel(c) \/ BumpMaxLevel(c) \/ StartNext(c)
  <2>1. compactor'[c] \notin {"pick", "merge", "load_add", "add", "load_remove", "remove"}
    BY <1>8 DEF CompactorLoop, AcquireStart, CompactorWoken, RemoveFiles, AdvanceLevel,
      BumpMaxLevel, StartNext, CompactorAt, TypeInv, TypeOK
  <2>2. QED
    BY <2>1 DEF Busy
<1>9. CASE ~Compactor(c)
  BY <1>7, <1>9, FlusherFrame, CompactorFrame, ReaderFrame, StopFrame
    DEF Next, Terminated, vars, compactorVars, TypeInv
<1>10. QED
  BY <1>3, <1>4, <1>5, <1>6, <1>8, <1>9 DEF Compactor

(* What a merge makes of its inputs.                                       *)
LEMMA MergeEffect ==
  ASSUME ConstantsAssumption, TypeInv, FilesInv, NEW c \in Compactors, MergeFiles(c)
  PROVE  /\ Len(files[c]) = COMPACTION_TRIGGER /\ files[c] \in Seq(Table)
         /\ \A g : g \in merged'[c].gens <=>
              \E i \in 1..COMPACTION_TRIGGER : g \in files[c][i].gens
         /\ \A g \in merged'[c].purged :
              IF RemoveTombstones(c) THEN g \in merged'[c].gens
              ELSE \E i \in 1..COMPACTION_TRIGGER : g \in files[c][i].purged
         /\ compactor[c] = "merge" /\ compactor' = [compactor EXCEPT ![c] = "load_add"]
         /\ UNCHANGED <<readers_at_level, curr_max_level, curr_level, files, flusherVars>>
<1>1. compactor[c] = "merge" /\ compactor' = [compactor EXCEPT ![c] = "load_add"]
      /\ UNCHANGED <<readers_at_level, curr_max_level, curr_level, files, flusherVars>>
  BY DEF MergeFiles, CompactorAt
<1>2. Len(files[c]) = COMPACTION_TRIGGER /\ files[c] \in Seq(Table)
  <2>1. /\ Len(readers_at_level[curr_level[c]]) >= COMPACTION_TRIGGER
        /\ SubSeq(readers_at_level[curr_level[c]], 1, COMPACTION_TRIGGER) = files[c]
        /\ readers_at_level[curr_level[c]] \in Seq(Table)
    BY <1>1 DEF FilesInv, RemovesWhatItMerged, TypeInv, TypeOK
  <2>2. QED
    BY <2>1, BatchFacts
<1>3. merged'[c] = MergedTable(files[c], RemoveTombstones(c)) /\ RemoveTombstones(c) \in BOOLEAN
  BY DEF MergeFiles, TypeInv, TypeOK, RemoveTombstones
<1>4. QED
  BY <1>1, <1>2, <1>3, MergedTableType

(* MergedInv is kept.                                                      *)
LEMMA MergedStep ==
  ASSUME ConstantsAssumption, TypeInv, FilesInv, MergedInv, Next
  PROVE  MergedInv'
<1> SUFFICES ASSUME NEW c \in Compactors, Busy(c)', compactor'[c] # "merge"
             PROVE  \A g \in Generations :
                      g \in merged'[c].gens <=>
                        \E i \in 1..COMPACTION_TRIGGER : g \in files'[c][i].gens
  BY DEF MergedInv
<1>1. CASE MergeFiles(c)
  BY <1>1, MergeEffect
<1>2. CASE LoadForAdd(c) \/ AddMerged(c) \/ LoadForRemove(c)
  <2>1. UNCHANGED <<files, merged>> /\ Busy(c) /\ compactor[c] # "merge"
    BY <1>2 DEF LoadForAdd, AddMerged, LoadForRemove, CompactorAt, Busy
  <2>2. QED
    BY <2>1 DEF MergedInv
<1>3. CASE compactor'[c] = compactor[c]
  <2>1. files'[c] = files[c] /\ merged'[c] = merged[c]
    BY <1>3, NoStep DEF TypeInv
  <2>2. QED
    BY <1>3, <2>1 DEF MergedInv, Busy
<1>4. CASE \/ CompactorLoop(c) \/ AcquireStart(c) \/ CompactorWoken(c) \/ CheckLowerLevel(c)
           \/ PickFiles(c) \/ RemoveFiles(c) \/ AdvanceLevel(c) \/ BumpMaxLevel(c)
           \/ RecheckLevel(c) \/ StartNext(c)
  BY <1>4 DEF CompactorLoop, AcquireStart, CompactorWoken, CheckLowerLevel, PickFiles,
    RemoveFiles, AdvanceLevel, BumpMaxLevel, RecheckLevel, StartNext, CompactorAt, TypeInv,
    TypeOK, Busy
<1>5. CASE ~Compactor(c)
  BY <1>3, <1>5, FlusherFrame, CompactorFrame, ReaderFrame, StopFrame
    DEF Next, Terminated, vars, compactorVars, TypeInv
<1>6. QED
  BY <1>1, <1>2, <1>4, <1>5 DEF Compactor


-----------------------------------------------------------------------------
(* How deep the levels are filled.                                         *)

(* Nobody else gets to the deepest level while a compactor is about to     *)
(* write that it is filled.                                                *)
LEMMA BumpAlone ==
  ASSUME ConstantsAssumption, TypeInv, DepthInv, NEW c \in Compactors, NEW d \in Compactors,
         compactor[d] = "bump",
         compactor[c] = "bump" \/ (Working(c) /\ curr_level[c] = curr_max_level)
  PROVE  c = d
<1>1. /\ curr_level[d] = curr_max_level + 1 /\ curr_level[d] > d /\ curr_level[d] \in d..HigherLevel(d)
      /\ compactor[c] = "bump" => curr_level[c] = curr_max_level + 1 /\ curr_level[c] > c
      /\ curr_level[c] \in c..HigherLevel(c)
      /\ Working(c) => curr_level[c] < HigherLevel(c)
  BY DEF DepthInv, TypeInv, LevelInv
<1>2. /\ c \in Nat /\ d \in Nat /\ HigherLevel(c) \in Nat /\ HigherLevel(d) \in Nat
      /\ c + 1 \in Compactors => HigherLevel(c) = c + 1
      /\ d + 1 \in Compactors => HigherLevel(d) = d + 1
  BY LevelFacts DEF Levels
<1>3. (d < c => d + 1 \in Compactors) /\ (c < d => c + 1 \in Compactors)
  BY DEF ConstantsAssumption, Compactors
<1>4. curr_max_level \in Nat
  BY DEF TypeInv, TypeOK, Levels
<1>5. QED
  BY <1>1, <1>2, <1>3, <1>4

(* A level that holds a batch is not below the deepest one.                *)
LEMMA FullLevel ==
  ASSUME ConstantsAssumption, TypeInv, DepthInv, NEW l \in Levels,
         Len(List(l)) >= COMPACTION_TRIGGER
  PROVE  l <= curr_max_level
<1>1. List(l) # <<>> /\ Len(List(l)) # 1
  <2>1. COMPACTION_TRIGGER \in Nat /\ COMPACTION_TRIGGER >= 2 /\ Len(<<>>) = 0
    BY DEF ConstantsAssumption
  <2>2. Len(List(l)) \in Nat
    BY DEF TypeInv, TypeOK, List
  <2>3. \A n \in Nat : n >= COMPACTION_TRIGGER => n # 0 /\ n # 1
    BY <2>1
  <2>4. QED
    BY <2>1, <2>2, <2>3
<1>2. l \in Nat /\ curr_max_level \in Nat
  BY DEF TypeInv, TypeOK, Levels
<1>3. ~(l > curr_max_level + 1) /\ ~(l = curr_max_level + 1)
  BY <1>1 DEF DepthInv
<1>4. QED
  BY <1>2, <1>3

(* A compactor that merges from the deepest level finds nothing below it.  *)
LEMMA NothingDeeper ==
  ASSUME ConstantsAssumption, TypeInv, DepthInv, NEW c \in Compactors,
         compactor[c] \in {"merge", "load_add", "add"}, curr_level[c] = curr_max_level,
         NEW l \in Levels, l > curr_max_level
  PROVE  List(l) = <<>>
<1>1. Working(c) /\ compactor[c] \notin {"load_remove", "remove", "advance", "bump"}
  BY DEF Working, Busy
<1>2. ASSUME NEW d \in Compactors, AboutToBump(d)
      PROVE  FALSE
  <2>1. CASE compactor[d] = "bump"
    BY <1>1, <2>1, BumpAlone
  <2>2. CASE compactor[d] \in {"load_remove", "remove", "advance"} /\ curr_level[d] = curr_max_level
    BY <1>1, <2>2, WorkingLevels, WorkingKinds
  <2>3. QED
    BY <1>2, <2>1, <2>2 DEF AboutToBump
<1>3. curr_max_level \in Nat /\ l \in Nat
  BY DEF TypeInv, TypeOK, Levels
<1>4. l > curr_max_level + 1 \/ l = curr_max_level + 1
  BY <1>3
<1>5. QED
  BY <1>2, <1>4 DEF DepthInv

(* Only a compactor in "bump" writes curr_max_level, and adds one to it.   *)
LEMMA DepthWritten ==
  ASSUME TypeInv, DepthInv, Next
  PROVE  \/ UNCHANGED curr_max_level
         \/ \E c \in Compactors : BumpMaxLevel(c) /\ curr_max_level' = curr_max_level + 1
<1>1. ASSUME NEW c \in Compactors, Compactor(c)
      PROVE  UNCHANGED curr_max_level \/ BumpMaxLevel(c)
  BY <1>1 DEF Compactor, CompactorLoop, AcquireStart, CompactorWoken, CheckLowerLevel, PickFiles,
    MergeFiles, LoadForAdd, AddMerged, LoadForRemove, RemoveFiles, AdvanceLevel, RecheckLevel,
    StartNext
<1>2. ASSUME NEW c \in Compactors, BumpMaxLevel(c)
      PROVE  curr_max_level' = curr_max_level + 1
  BY <1>2 DEF BumpMaxLevel, CompactorAt, DepthInv
<1>3. QED
  BY <1>1, <1>2, FlusherFrame, ReaderFrame, StopFrame DEF Next, Terminated, vars

(* What a compactor is about to write stays to be written.                 *)
LEMMA BumpStays ==
  ASSUME TypeInv, DepthInv, Next, UNCHANGED curr_max_level, NEW c \in Compactors, AboutToBump(c)
  PROVE  AboutToBump(c)'
<1>1. CASE Compactor(c)
  <2>1. CASE AdvanceLevel(c)
    <3>1. curr_level[c] + 1 > curr_max_level
      BY <2>1 DEF AboutToBump, AdvanceLevel, CompactorAt, TypeInv, TypeOK, Levels
    <3>2. QED
      BY <2>1, <3>1 DEF AdvanceLevel, CompactorAt, AboutToBump, TypeInv, TypeOK
  <2>2. CASE LoadForRemove(c) \/ RemoveFiles(c)
    BY <2>2 DEF LoadForRemove, RemoveFiles, CompactorAt, AboutToBump, TypeInv, TypeOK
  <2>3. CASE BumpMaxLevel(c)
    <3>1. curr_max_level' = curr_max_level + 1 /\ curr_max_level \in Int
      BY <2>3 DEF BumpMaxLevel, CompactorAt, DepthInv, TypeInv, TypeOK, Levels
    <3>2. QED
      BY <3>1
  <2>4. QED
    BY <1>1, <2>1, <2>2, <2>3 DEF Compactor, CompactorLoop, AcquireStart, CompactorWoken,
      CheckLowerLevel, PickFiles, MergeFiles, LoadForAdd, AddMerged, RecheckLevel, StartNext,
      CompactorAt, AboutToBump
<1>2. CASE ~Compactor(c)
  <2>1. compactor'[c] = compactor[c] /\ curr_level'[c] = curr_level[c]
    BY <1>2, FlusherFrame, CompactorFrame, ReaderFrame, StopFrame
      DEF Next, Terminated, vars, compactorVars, TypeInv
  <2>2. QED
    BY <2>1 DEF AboutToBump
<1>3. QED
  BY <1>1, <1>2


(* A compactor does not work below the deepest level.                      *)
LEMMA DepthOfWork ==
  ASSUME ConstantsAssumption, TypeInv, FilesInv, DepthInv, TypeOK', Next, NEW c \in Compactors
  PROVE  /\ Working(c)' => curr_level'[c] <= curr_max_level'
         /\ compactor'[c] = "bump" => curr_level'[c] = curr_max_level' + 1
<1>1. /\ curr_max_level \in Nat /\ curr_max_level' \in Nat /\ curr_max_level' >= curr_max_level
      /\ \A d \in Compactors : curr_level[d] \in Nat
  <2>1. curr_max_level' = curr_max_level \/ curr_max_level' = curr_max_level + 1
    BY DepthWritten
  <2>2. curr_max_level \in Nat /\ \A d \in Compactors : curr_level[d] \in Nat
    BY DEF TypeInv, TypeOK, Levels
  <2>3. QED
    BY <2>1, <2>2
<1>2. /\ Working(c) => curr_level[c] <= curr_max_level
      /\ compactor[c] = "bump" => curr_level[c] = curr_max_level + 1
  BY DEF DepthInv
<1>3. CASE CheckLowerLevel(c) \/ RecheckLevel(c)
  <2>1. curr_level'[c] = curr_level[c] /\ curr_level[c] \in Levels /\ compactor'[c] # "bump"
    BY <1>3 DEF CheckLowerLevel, RecheckLevel, CompactorAt, TypeInv, TypeOK
  <2>2. Working(c)' => Len(List(curr_level[c])) >= COMPACTION_TRIGGER
    BY <1>3 DEF CheckLowerLevel, RecheckLevel, CompactorAt, Working, Busy, List, TypeInv, TypeOK,
      LevelInv
  <2>3. QED
    BY <1>1, <2>1, <2>2, FullLevel
<1>4. CASE PickFiles(c) \/ MergeFiles(c) \/ LoadForAdd(c) \/ AddMerged(c) \/ LoadForRemove(c)
           \/ RemoveFiles(c)
  <2>1. Working(c) /\ curr_level'[c] = curr_level[c] /\ compactor'[c] # "bump"
    BY <1>4 DEF PickFiles, MergeFiles, LoadForAdd, AddMerged, LoadForRemove, RemoveFiles,
      CompactorAt, TypeInv, TypeOK, Working, Busy
  <2>2. QED
    BY <1>1, <1>2, <2>1
<1>5. CASE AdvanceLevel(c)
  BY <1>1, <1>2, <1>5 DEF AdvanceLevel, CompactorAt, TypeInv, TypeOK, Working, Busy
<1>6. CASE CompactorLoop(c) \/ AcquireStart(c) \/ CompactorWoken(c) \/ BumpMaxLevel(c) \/ StartNext(c)
  <2>1. compactor'[c] \in {"acquire", "stopped", "woken", "check", "recheck", "loop"}
    BY <1>6 DEF CompactorLoop, AcquireStart, CompactorWoken, BumpMaxLevel, StartNext, CompactorAt,
      TypeInv, TypeOK
  <2>2. QED
    BY <2>1 DEF Working, Busy
<1>7. CASE ~Compactor(c)
  <2>1. compactor'[c] = compactor[c] /\ curr_level'[c] = curr_level[c]
    BY <1>7, FlusherFrame, CompactorFrame, ReaderFrame, StopFrame
      DEF Next, Terminated, vars, compactorVars, TypeInv
  <2>2. ASSUME compactor[c] = "bump"
        PROVE  UNCHANGED curr_max_level
    <3>1. ASSUME NEW d \in Compactors, BumpMaxLevel(d)
          PROVE  FALSE
      <4>1. compactor[d] = "bump"
        BY <3>1 DEF BumpMaxLevel, CompactorAt
      <4>2. c = d
        BY <2>2, <4>1, BumpAlone
      <4>3. QED
        BY <1>7, <3>1, <4>2 DEF Compactor
    <3>2. QED
      BY <3>1, DepthWritten
  <2>3. QED
    BY <1>1, <1>2, <2>1, <2>2 DEF Working, Busy
<1>8. QED
  BY <1>3, <1>4, <1>5, <1>6, <1>7 DEF Compactor

(* The levels below the deepest one are empty, and the next one all but.   *)
LEMMA DepthOfLists ==
  ASSUME ConstantsAssumption, TypeInv, CopyInv, FilesInv, DepthInv, Next, NEW l \in Levels,
         l > curr_max_level
  PROVE  /\ l > curr_max_level + 1 => List(l)' = <<>>
         /\ List(l)' # <<>> =>
              Len(List(l)') = 1 /\ \E c \in Compactors : AboutToBump(c) \/ AboutToBump(c)'
<1>1. curr_max_level \in Nat /\ l \in Nat
  BY DEF TypeInv, TypeOK, Levels
<1>2. /\ l > curr_max_level + 1 => List(l) = <<>>
      /\ List(l) # <<>> => Len(List(l)) = 1 /\ \E c \in Compactors : AboutToBump(c)
  BY <1>1 DEF DepthInv
<1>3. CASE List(l)' = List(l)
  BY <1>2, <1>3
<1>4. CASE AddTable
  BY <1>1, <1>3, <1>4, AddTableEffect, AppendedLists DEF TypeInv
<1>5. ASSUME NEW c \in Compactors, RemoveFiles(c)
      PROVE  List(l)' = List(l)
  <2>1. curr_level[c] <= curr_max_level /\ curr_level[c] \in Levels
    BY <1>5, RemoveFilesEffect, WorkingKinds DEF DepthInv
  <2>2. curr_level[c] # l
    BY <1>1, <2>1 DEF Levels
  <2>3. QED
    BY <1>5, <2>2, RemoveFilesEffect, DroppedLists DEF TypeInv
<1>6. ASSUME NEW c \in Compactors, AddMerged(c), List(l)' # List(l)
      PROVE  /\ l > curr_max_level + 1 => List(l)' = <<>>
             /\ List(l)' # <<>> => Len(List(l)') = 1 /\ AboutToBump(c)'
  <2>1. /\ compactor[c] = "add" /\ Working(c) /\ curr_level[c] + 1 = l /\ compactor'[c] = "load_remove"
        /\ UNCHANGED <<curr_level, curr_max_level>>
    BY <1>6, AddMergedEffect, AppendedLists, WorkingKinds DEF TypeInv
  <2>2. curr_level[c] <= curr_max_level /\ curr_level[c] \in Levels
    BY <2>1, WorkingLevels DEF DepthInv
  <2>3. curr_level[c] = curr_max_level /\ l = curr_max_level + 1
    BY <1>1, <2>1, <2>2 DEF Levels
  <2>4. List(l) = <<>>
    BY <1>1, <2>1, <2>3, NothingDeeper
  <2>5. Len(List(l)') = 1
    <3>1. merged[c] \in Table /\ Appended(l, merged[c])
      BY <1>6, <2>1, AddMergedEffect
    <3>2. Len(List(l)') = Len(List(l)) + 1
      BY <3>1, AppendedLists DEF TypeInv
    <3>3. QED
      BY <2>4, <3>2
  <2>6. QED
    BY <1>1, <2>1, <2>3, <2>5 DEF AboutToBump
<1>7. CASE Quiet
  BY <1>3, <1>7 DEF Quiet, List
<1>8. QED
  BY <1>3, <1>4, <1>5, <1>6, <1>7, ListSteps DEF TypeInv

(* DepthInv is kept.                                                       *)
LEMMA DepthStep ==
  ASSUME ConstantsAssumption, TypeInv, CopyInv, FilesInv, DepthInv, TypeOK', Next
  PROVE  DepthInv'
<1>1. curr_max_level \in Nat /\ Levels \subseteq Nat
  BY DEF TypeInv, TypeOK, Levels
<1>2. CASE UNCHANGED curr_max_level
  <2>1. ASSUME NEW l \in Levels, l > curr_max_level + 1
        PROVE  List(l)' = <<>>
    BY <1>1, <2>1, DepthOfLists
  <2>2. ASSUME NEW l \in Levels, l = curr_max_level + 1, List(l)' # <<>>
        PROVE  Len(List(l)') = 1 /\ \E c \in Compactors : AboutToBump(c)'
    BY <1>1, <1>2, <2>2, DepthOfLists, BumpStays
  <2>3. QED
    BY <1>2, <2>1, <2>2, DepthOfWork DEF DepthInv
<1>3. CASE curr_max_level' = curr_max_level + 1
  <2>1. ASSUME NEW l \in Levels, l > curr_max_level'
        PROVE  List(l)' = <<>>
    BY <1>1, <1>3, <2>1, DepthOfLists
  <2>2. QED
    BY <1>1, <1>3, <2>1, DepthOfWork DEF DepthInv
<1>4. QED
  BY <1>2, <1>3, DepthWritten


-----------------------------------------------------------------------------
(* The inputs of merges whose output is in place.                          *)

(* They are the oldest tables of their level.                              *)
LEMMA InputsAreThere ==
  ASSUME ConstantsAssumption, TypeInv, FilesInv, NEW l \in Levels, NEW i \in Nat, IsInput(l, i)
  PROVE  i <= COMPACTION_TRIGGER /\ i <= Len(List(l))
<1>1. PICK c \in Compactors : InFlight(c) /\ curr_level[c] = l /\ i <= COMPACTION_TRIGGER
  BY DEF IsInput
<1>2. Len(List(l)) >= COMPACTION_TRIGGER
  BY <1>1 DEF FilesInv, RemovesWhatItMerged, InFlight, List
<1>3. Len(List(l)) \in Nat /\ COMPACTION_TRIGGER \in Nat
  BY DEF ConstantsAssumption, TypeInv, TypeOK, List
<1>4. QED
  BY <1>1, <1>2, <1>3

(* How the inputs change with the lists.                                   *)
LEMMA QuietInputs ==
  ASSUME NEW l, NEW i, Quiet \/ UNCHANGED compactorVars
  PROVE  IsInput(l, i)' <=> IsInput(l, i)
  BY DEF Quiet, IsInput, InFlight, compactorVars

LEMMA AddInputs ==
  ASSUME ConstantsAssumption, TypeInv, CopyInv, NEW c \in Compactors, AddMerged(c),
         NEW l, NEW i
  PROVE  IsInput(l, i)' <=> IsInput(l, i) \/ (l = curr_level[c] /\ i <= COMPACTION_TRIGGER)
<1>1. /\ compactor[c] = "add" /\ compactor'[c] = "load_remove" /\ UNCHANGED curr_level
      /\ \A d \in Compactors : d # c => compactor'[d] = compactor[d]
  BY AddMergedEffect, CompactorFrame DEF TypeInv, Compactor
<1>2. \A d \in Compactors : InFlight(d)' <=> InFlight(d) \/ d = c
  BY <1>1 DEF InFlight
<1>3. QED
  BY <1>1, <1>2 DEF IsInput

LEMMA RemoveInputs ==
  ASSUME ConstantsAssumption, TypeInv, CopyInv, FilesInv, NEW c \in Compactors, RemoveFiles(c),
         NEW l, NEW i
  PROVE  IsInput(l, i)' <=> IsInput(l, i) /\ l # curr_level[c]
<1>1. /\ compactor[c] = "remove" /\ compactor'[c] = "advance" /\ UNCHANGED curr_level
      /\ \A d \in Compactors : d # c => compactor'[d] = compactor[d]
  BY RemoveFilesEffect, CompactorFrame DEF TypeInv, Compactor
<1>2. \A d \in Compactors : InFlight(d)' <=> InFlight(d) /\ d # c
  BY <1>1 DEF InFlight
<1>3. \A d \in Compactors : d # c /\ InFlight(d) => curr_level[d] # curr_level[c]
  BY <1>1, WorkingLevels, WorkingKinds
<1>4. QED
  BY <1>1, <1>2, <1>3 DEF IsInput

(* A level is nobody's source but its compactor's.                         *)
LEMMA NoInputs ==
  ASSUME ConstantsAssumption, TypeInv, NEW c \in Compactors, Working(c), ~InFlight(c), NEW i
  PROVE  ~IsInput(curr_level[c], i)
  BY WorkingLevels, WorkingKinds DEF IsInput

(* The generations of a merged table are those of the oldest tables of the *)
(* level it comes from.                                                    *)
LEMMA MergedGens ==
  ASSUME ConstantsAssumption, TypeInv, FilesInv, MergedInv,
         NEW c \in Compactors, Busy(c), compactor[c] # "merge",
         NEW l \in Levels, l = curr_level[c]
  PROVE  /\ Len(List(l)) >= COMPACTION_TRIGGER
         /\ \A g : g \in merged[c].gens <=>
              \E i \in 1..Len(List(l)) : i <= COMPACTION_TRIGGER /\ g \in Gens(l, i)
<1>1. /\ Len(List(l)) >= COMPACTION_TRIGGER /\ List(l) \in Seq(Table)
      /\ SubSeq(List(l), 1, COMPACTION_TRIGGER) = files[c]
  BY DEF FilesInv, RemovesWhatItMerged, List, Busy, TypeInv, TypeOK
<1>2. \A i \in 1..COMPACTION_TRIGGER : files[c][i] = List(l)[i]
  BY <1>1, BatchFacts
<1>3. \A i \in 1..COMPACTION_TRIGGER : i \in 1..Len(List(l)) /\ Gens(l, i) = files[c][i].gens
  BY <1>1, <1>2 DEF List, Gens, ConstantsAssumption
<1>4. \A i \in 1..Len(List(l)) : i <= COMPACTION_TRIGGER => i \in 1..COMPACTION_TRIGGER
  BY <1>1 DEF ConstantsAssumption
<1>5. \A i \in 1..Len(List(l)) : Gens(l, i) \subseteq Generations
  <2>1. \A i \in 1..Len(List(l)) : List(l)[i] \in Table
    BY <1>1, ElementOfSeq
  <2>2. QED
    BY <2>1 DEF Gens, List, Table
<1>6. merged[c].gens \subseteq Generations
  BY DEF TypeInv, TypeOK, Table
<1>7. \A g \in Generations :
        g \in merged[c].gens <=> \E i \in 1..COMPACTION_TRIGGER : g \in files[c][i].gens
  BY DEF MergedInv
<1>8. QED
  BY <1>1, <1>3, <1>4, <1>5, <1>6, <1>7

-----------------------------------------------------------------------------
(* Where the generations are.                                              *)

(* The lists and the inputs after each step that changes them.             *)
LEMMA AfterAddTable ==
  ASSUME ConstantsAssumption, TypeInv, CopyInv, FilesInv, AddTable,
         NEW n \in Nat, n = Len(List(0)) + 1
  PROVE  /\ \A m \in Levels : \A i \in 1..Len(List(m)) :
              i \in 1..Len(List(m)') /\ Gens(m, i)' = Gens(m, i)
         /\ \A m \in Levels : \A i \in 1..Len(List(m)') :
              i \in 1..Len(List(m)) \/ (m = 0 /\ i = n)
         /\ 0 \in Levels /\ n \in 1..Len(List(0)') /\ Gens(0, n)' = {flushed + 1}
         /\ ~IsInput(0, n)
         /\ \A m, i : IsInput(m, i)' <=> IsInput(m, i)
<1> DEFINE t == [gens |-> {flushed + 1}, purged |-> {}]
<1>1. t \in Table /\ 0 \in Levels /\ Appended(0, t) /\ UNCHANGED compactorVars
  BY AddTableEffect
<1>2. \A m \in Levels : Len(List(m)) \in Nat
  BY DEF TypeInv, TypeOK, List
<1>3. /\ \A m \in Levels : m # 0 => List(m)' = List(m)
      /\ Len(List(0)') = n
      /\ \A i \in 1..Len(List(0)) : List(0)'[i] = List(0)[i]
      /\ List(0)'[n] = t
  BY <1>1, AppendedLists DEF TypeInv
<1>4. ~IsInput(0, n)
  BY <1>1, <1>2, InputsAreThere
<1>5. \A m, i : IsInput(m, i)' <=> IsInput(m, i)
  BY <1>1, QuietInputs
<1>6. n \in 1..Len(List(0)') /\ Gens(0, n)' = {flushed + 1}
  BY <1>1, <1>2, <1>3 DEF Gens, List
<1>7. ASSUME NEW m \in Levels, NEW i \in 1..Len(List(m))
      PROVE  i \in 1..Len(List(m)') /\ Gens(m, i)' = Gens(m, i)
  BY <1>1, <1>2, <1>3 DEF Gens, List
<1>8. ASSUME NEW m \in Levels, NEW i \in 1..Len(List(m)')
      PROVE  i \in 1..Len(List(m)) \/ (m = 0 /\ i = n)
  <2>1. CASE m # 0
    BY <1>3, <2>1
  <2>2. CASE m = 0
    BY <1>1, <1>2, <1>3, <2>2
  <2>3. QED
    BY <2>1, <2>2
<1>9. QED
  BY <1>1, <1>4, <1>5, <1>6, <1>7, <1>8

LEMMA AfterAddMerged ==
  ASSUME ConstantsAssumption, TypeInv, CopyInv, FilesInv, NEW c \in Compactors, AddMerged(c),
         NEW l \in Levels, l = curr_level[c] + 1, NEW n \in Nat, n = Len(List(l)) + 1
  PROVE  /\ \A m \in Levels : \A i \in 1..Len(List(m)) :
              i \in 1..Len(List(m)') /\ Gens(m, i)' = Gens(m, i)
         /\ \A m \in Levels : \A i \in 1..Len(List(m)') :
              i \in 1..Len(List(m)) \/ (m = l /\ i = n)
         /\ n \in 1..Len(List(l)') /\ Gens(l, n)' = merged[c].gens
         /\ ~IsInput(l, n) /\ ~IsInput(l, n)'
         /\ \A m, i : IsInput(m, i)' <=>
              IsInput(m, i) \/ (m = curr_level[c] /\ i <= COMPACTION_TRIGGER)
<1>1. merged[c] \in Table /\ Appended(l, merged[c]) /\ curr_level[c] \in Levels
  BY AddMergedEffect
<1>2. \A m \in Levels : Len(List(m)) \in Nat
  BY DEF TypeInv, TypeOK, List
<1>3. /\ \A m \in Levels : m # l => List(m)' = List(m)
      /\ Len(List(l)') = n
      /\ \A i \in 1..Len(List(l)) : List(l)'[i] = List(l)[i]
      /\ List(l)'[n] = merged[c]
  BY <1>1, AppendedLists DEF TypeInv
<1>4. ~IsInput(l, n)
  BY <1>1, <1>2, InputsAreThere
<1>5. \A m, i : IsInput(m, i)' <=> IsInput(m, i) \/ (m = curr_level[c] /\ i <= COMPACTION_TRIGGER)
  BY AddInputs
<1>6. l # curr_level[c]
  BY <1>1 DEF Levels
<1>7. n \in 1..Len(List(l)') /\ Gens(l, n)' = merged[c].gens
  BY <1>1, <1>2, <1>3 DEF Gens, List
<1>8. ASSUME NEW m \in Levels, NEW i \in 1..Len(List(m))
      PROVE  i \in 1..Len(List(m)') /\ Gens(m, i)' = Gens(m, i)
  BY <1>1, <1>2, <1>3 DEF Gens, List
<1>9. ASSUME NEW m \in Levels, NEW i \in 1..Len(List(m)')
      PROVE  i \in 1..Len(List(m)) \/ (m = l /\ i = n)
  <2>1. CASE m # l
    BY <1>3, <2>1
  <2>2. CASE m = l
    BY <1>2, <1>3, <2>2
  <2>3. QED
    BY <2>1, <2>2
<1>10. ~IsInput(l, n)'
  BY <1>4, <1>5, <1>6
<1>11. QED
  BY <1>4, <1>5, <1>7, <1>8, <1>9, <1>10

LEMMA AfterRemoveFiles ==
  ASSUME ConstantsAssumption, TypeInv, CopyInv, FilesInv, NEW c \in Compactors, RemoveFiles(c),
         NEW l \in Levels, l = curr_level[c]
  PROVE  /\ Len(List(l)) >= COMPACTION_TRIGGER
         /\ \A m \in Levels : m # l => List(m)' = List(m)
         /\ Len(List(l)') = Len(List(l)) - COMPACTION_TRIGGER
         /\ \A i \in 1..Len(List(l)') :
              i + COMPACTION_TRIGGER \in 1..Len(List(l)) /\ Gens(l, i)' = Gens(l, i + COMPACTION_TRIGGER)
         /\ \A i \in Nat : IsInput(l, i) <=> i <= COMPACTION_TRIGGER
         /\ \A m, i : IsInput(m, i)' <=> IsInput(m, i) /\ m # l
<1>1. Dropped(l) /\ Len(List(l)) >= COMPACTION_TRIGGER /\ compactor[c] = "remove"
  BY RemoveFilesEffect
<1>2. Len(List(l)) \in Nat /\ COMPACTION_TRIGGER \in Nat
  BY DEF TypeInv, TypeOK, List, ConstantsAssumption
<1>3. /\ \A m \in Levels : m # l => List(m)' = List(m)
      /\ Len(List(l)') = Len(List(l)) - COMPACTION_TRIGGER
      /\ \A i \in 1..Len(List(l)') : List(l)'[i] = List(l)[i + COMPACTION_TRIGGER]
  BY <1>1, DroppedLists DEF TypeInv
<1>4. ASSUME NEW i \in 1..Len(List(l)')
      PROVE  i + COMPACTION_TRIGGER \in 1..Len(List(l)) /\ Gens(l, i)' = Gens(l, i + COMPACTION_TRIGGER)
  <2>1. List(l)'[i] = List(l)[i + COMPACTION_TRIGGER]
    BY <1>3
  <2>2. i + COMPACTION_TRIGGER \in 1..Len(List(l))
    BY <1>1, <1>2, <1>3
  <2>3. QED
    BY <2>1, <2>2 DEF Gens, List
<1>5. \A i \in Nat : IsInput(l, i) <=> i <= COMPACTION_TRIGGER
  BY <1>1, InputsAreThere DEF IsInput, InFlight
<1>6. \A m, i : IsInput(m, i)' <=> IsInput(m, i) /\ m # l
  BY RemoveInputs
<1>7. QED
  BY <1>1, <1>3, <1>4, <1>5, <1>6


(* A published generation does not come back up, and is never missing.     *)
LEMMA HeldStays ==
  ASSUME ConstantsAssumption, TypeInv, CopyInv, FilesInv, MergedInv, Next,
         NEW g, NEW l \in Nat, HeldFrom(g, l)
  PROVE  HeldFrom(g, l)'
<1>1. PICK m \in Levels : m >= l /\ \E i \in 1..Len(List(m)) : ~IsInput(m, i) /\ g \in Gens(m, i)
  BY DEF HeldFrom
<1>2. PICK i \in 1..Len(List(m)) : ~IsInput(m, i) /\ g \in Gens(m, i)
  BY <1>1
<1>3. \A k \in Levels : k \in Nat /\ Len(List(k)) \in Nat
  BY DEF TypeInv, TypeOK, List, Levels
<1>4. CASE AddTable
  <2>1. PICK n \in Nat : n = Len(List(0)) + 1
    BY <1>3, LevelFacts DEF Levels, ConstantsAssumption
  <2>2. i \in 1..Len(List(m)') /\ Gens(m, i)' = Gens(m, i) /\ ~IsInput(m, i)'
    BY <1>2, <1>4, <2>1, AfterAddTable
  <2>3. QED
    BY <1>1, <1>2, <2>2 DEF HeldFrom
<1>5. ASSUME NEW c \in Compactors, AddMerged(c)
      PROVE  HeldFrom(g, l)'
  <2>1. curr_level[c] + 1 \in Levels /\ curr_level[c] \in Levels /\ compactor[c] = "add"
    BY <1>5, AddMergedEffect
  <2>2. PICK k \in Levels, n \in Nat : k = curr_level[c] + 1 /\ n = Len(List(k)) + 1
    BY <1>3, <2>1
  <2>3. /\ i \in 1..Len(List(m)') /\ Gens(m, i)' = Gens(m, i)
        /\ n \in 1..Len(List(k)') /\ Gens(k, n)' = merged[c].gens /\ ~IsInput(k, n)'
        /\ IsInput(m, i)' <=> IsInput(m, i) \/ (m = curr_level[c] /\ i <= COMPACTION_TRIGGER)
    BY <1>5, <2>2, AfterAddMerged
  <2>4. CASE m = curr_level[c] /\ i <= COMPACTION_TRIGGER
    <3>1. g \in merged[c].gens
      BY <1>2, <2>1, <2>4, MergedGens DEF Busy
    <3>2. k >= l
      BY <1>1, <1>3, <2>2, <2>4
    <3>3. QED
      BY <2>3, <3>1, <3>2 DEF HeldFrom
  <2>5. CASE ~(m = curr_level[c] /\ i <= COMPACTION_TRIGGER)
    BY <1>1, <1>2, <2>3, <2>5 DEF HeldFrom
  <2>6. QED
    BY <2>4, <2>5
<1>6. ASSUME NEW c \in Compactors, RemoveFiles(c)
      PROVE  HeldFrom(g, l)'
  <2>1. PICK k \in Levels : k = curr_level[c]
    BY <1>6, RemoveFilesEffect
  <2>2. /\ \A p \in Levels : p # k => List(p)' = List(p)
        /\ Len(List(k)') = Len(List(k)) - COMPACTION_TRIGGER
        /\ \A j \in 1..Len(List(k)') :
             /\ j + COMPACTION_TRIGGER \in 1..Len(List(k))
             /\ Gens(k, j)' = Gens(k, j + COMPACTION_TRIGGER)
        /\ \A j \in Nat : IsInput(k, j) <=> j <= COMPACTION_TRIGGER
        /\ \A p, j : IsInput(p, j)' <=> IsInput(p, j) /\ p # k
    BY <1>6, <2>1, AfterRemoveFiles
  <2>3. CASE m = k
    <3>1. i > COMPACTION_TRIGGER /\ i \in Nat /\ COMPACTION_TRIGGER \in Nat
      BY <1>2, <2>2, <2>3 DEF ConstantsAssumption
    <3>2. PICK j \in Nat : j + COMPACTION_TRIGGER = i /\ j >= 1
      BY <3>1
    <3>3. j \in 1..Len(List(m)')
      BY <1>3, <2>2, <2>3, <3>1, <3>2
    <3>4. g \in Gens(m, j)' /\ ~IsInput(m, j)'
      BY <1>2, <2>2, <2>3, <3>2, <3>3
    <3>5. QED
      BY <1>1, <3>3, <3>4 DEF HeldFrom
  <2>4. CASE m # k
    <3>1. i \in 1..Len(List(m)') /\ g \in Gens(m, i)' /\ ~IsInput(m, i)'
      BY <1>2, <2>2, <2>4 DEF Gens, List
    <3>2. QED
      BY <1>1, <3>1 DEF HeldFrom
  <2>5. QED
    BY <2>3, <2>4
<1>7. CASE Quiet
  <2>1. ~IsInput(m, i)'
    BY <1>2, <1>7, QuietInputs
  <2>2. i \in 1..Len(List(m)') /\ g \in Gens(m, i)'
    BY <1>2, <1>7 DEF Quiet, List, Gens
  <2>3. QED
    BY <1>1, <2>1, <2>2 DEF HeldFrom
<1>8. QED
  BY <1>4, <1>5, <1>6, <1>7, ListSteps

(* A step puts nothing into the lists that was not there already, but the  *)
(* generation that the flusher publishes.                                  *)
LEMMA TablesFrom ==
  ASSUME ConstantsAssumption, TypeInv, CopyInv, FilesInv, MergedInv, Next,
         NEW l \in Levels, NEW i \in 1..Len(List(l)'), NEW g \in Gens(l, i)'
  PROVE  \/ AddTable /\ g = flushed + 1
         \/ \E m \in Levels : \E j \in 1..Len(List(m)) : g \in Gens(m, j)
<1>1. \A k \in Levels : k \in Nat /\ Len(List(k)) \in Nat
  BY DEF TypeInv, TypeOK, List, Levels
<1>2. CASE AddTable
  <2>1. PICK n \in Nat : n = Len(List(0)) + 1
    BY <1>1, LevelFacts DEF Levels, ConstantsAssumption
  <2>2. QED
    BY <1>2, <2>1, AfterAddTable
<1>3. ASSUME NEW c \in Compactors, AddMerged(c)
      PROVE  \E m \in Levels : \E j \in 1..Len(List(m)) : g \in Gens(m, j)
  <2>1. curr_level[c] + 1 \in Levels /\ curr_level[c] \in Levels /\ compactor[c] = "add"
    BY <1>3, AddMergedEffect
  <2>2. PICK k \in Levels, n \in Nat : k = curr_level[c] + 1 /\ n = Len(List(k)) + 1
    BY <1>1, <2>1
  <2>3. CASE i \in 1..Len(List(l))
    BY <1>3, <2>2, <2>3, AfterAddMerged
  <2>4. CASE l = k /\ i = n
    <3>1. g \in merged[c].gens
      BY <1>3, <2>2, <2>4, AfterAddMerged
    <3>2. QED
      BY <2>1, <3>1, MergedGens DEF Busy
  <2>5. QED
    BY <1>3, <2>2, <2>3, <2>4, AfterAddMerged
<1>4. ASSUME NEW c \in Compactors, RemoveFiles(c)
      PROVE  \E m \in Levels : \E j \in 1..Len(List(m)) : g \in Gens(m, j)
  <2>1. PICK k \in Levels : k = curr_level[c]
    BY <1>4, RemoveFilesEffect
  <2>2. CASE l = k
    BY <1>4, <2>1, <2>2, AfterRemoveFiles
  <2>3. CASE l # k
    <3>1. List(l)' = List(l)
      BY <1>4, <2>1, <2>3, AfterRemoveFiles
    <3>2. QED
      BY <3>1 DEF List, Gens
  <2>4. QED
    BY <2>2, <2>3
<1>5. CASE Quiet
  BY <1>5 DEF Quiet, List, Gens
<1>6. QED
  BY <1>2, <1>3, <1>4, <1>5, ListSteps

(* CoverInv is kept.                                                       *)
LEMMA CoverStep ==
  ASSUME ConstantsAssumption, TypeInv, CopyInv, FilesInv, MergedInv, CoverInv, Next
  PROVE  CoverInv'
<1>1. flushed \in Nat /\ (flushed' = flushed \/ (AddTable /\ flushed' = flushed + 1))
  <2>1. flushed \in Nat
    BY DEF TypeInv, TypeOK
  <2>2. AddTable => flushed' = flushed + 1
    BY AddTableEffect
  <2>3. ASSUME NEW c \in Compactors, AddMerged(c) \/ RemoveFiles(c)
        PROVE  flushed' = flushed
    BY <2>3, AddMergedEffect, RemoveFilesEffect
  <2>4. Quiet => flushed' = flushed
    BY DEF Quiet
  <2>5. QED
    BY <2>1, <2>2, <2>3, <2>4, ListSteps
<1>2. ASSUME NEW l \in Levels, NEW i \in 1..Len(List(l)'), NEW g \in Gens(l, i)'
      PROVE  g \in 1..flushed'
  <2>1. CASE AddTable /\ g = flushed + 1
    BY <1>1, <2>1, AddTableEffect
  <2>2. CASE \E m \in Levels : \E j \in 1..Len(List(m)) : g \in Gens(m, j)
    <3>1. g \in 1..flushed
      BY <2>2 DEF CoverInv
    <3>2. QED
      BY <1>1, <3>1
  <2>3. QED
    BY <1>2, <2>1, <2>2, TablesFrom
<1>3. ASSUME NEW g \in 1..flushed'
      PROVE  HeldFrom(g, 0)'
  <2>1. CASE g \in 1..flushed
    BY <2>1, HeldStays DEF CoverInv
  <2>2. CASE g \notin 1..flushed
    <3>1. AddTable /\ g = flushed + 1
      BY <1>1, <2>2
    <3>2. PICK n \in Nat : n = Len(List(0)) + 1
      BY LevelFacts DEF Levels, ConstantsAssumption, TypeInv, TypeOK, List
    <3>3. /\ 0 \in Levels /\ n \in 1..Len(List(0)') /\ Gens(0, n)' = {flushed + 1}
          /\ ~IsInput(0, n)'
      BY <3>1, <3>2, AfterAddTable
    <3>4. QED
      BY <3>1, <3>3 DEF HeldFrom
  <2>3. QED
    BY <2>1, <2>2
<1>4. QED
  BY <1>2, <1>3 DEF CoverInv


-----------------------------------------------------------------------------
(* In which order the generations are.                                     *)

(* What has been merged from a level is older than what stays there and in *)
(* the levels above, and newer than what is in the levels below.           *)
LEMMA MergedOrder ==
  ASSUME ConstantsAssumption, TypeInv, FilesInv, MergedInv, OrderInv,
         NEW c \in Compactors, compactor[c] \in {"load_add", "add"},
         NEW s \in Levels, s = curr_level[c],
         NEW m \in Levels, NEW j \in 1..Len(List(m))
  PROVE  /\ m > s => \A h \in Gens(m, j), g \in merged[c].gens : h < g
         /\ m < s /\ ~IsInput(m, j) => \A h \in Gens(m, j), g \in merged[c].gens : g < h
         /\ m = s /\ j > COMPACTION_TRIGGER => \A h \in Gens(m, j), g \in merged[c].gens : g < h
<1>1. \A g \in merged[c].gens :
        \E i \in 1..Len(List(s)) : i <= COMPACTION_TRIGGER /\ g \in Gens(s, i)
  BY MergedGens DEF Busy
<1>2. \A i : ~IsInput(s, i)
  BY NoInputs DEF Working, Busy, InFlight
<1>3. s \in Nat /\ m \in Nat
  BY DEF Levels
<1>4. ASSUME NEW h \in Gens(m, j), NEW g \in merged[c].gens
      PROVE  /\ m > s => h < g
             /\ m < s /\ ~IsInput(m, j) => g < h
             /\ m = s /\ j > COMPACTION_TRIGGER => g < h
  <2>1. PICK i \in 1..Len(List(s)) : i <= COMPACTION_TRIGGER /\ g \in Gens(s, i)
    BY <1>1
  <2>2. m > s => h < g
    BY <1>2, <1>3, <2>1 DEF OrderInv
  <2>3. m < s /\ ~IsInput(m, j) => g < h
    BY <2>1 DEF OrderInv
  <2>4. ASSUME m = s, j > COMPACTION_TRIGGER
        PROVE  g < h
    <3>1. i < j
      BY <2>1, <2>4 DEF ConstantsAssumption
    <3>2. QED
      BY <2>1, <2>4, <3>1 DEF OrderInv
  <2>5. QED
    BY <2>2, <2>3, <2>4
<1>5. QED
  BY <1>4

(* OrderInv is kept.                                                       *)
LEMMA OrderStep ==
  ASSUME ConstantsAssumption, TypeInv, CopyInv, FilesInv, MergedInv, CoverInv, OrderInv, Next
  PROVE  OrderInv'
<1>1. \A k \in Levels : k \in Nat /\ Len(List(k)) \in Nat
  BY DEF TypeInv, TypeOK, List, Levels
<1> SUFFICES ASSUME NEW l \in Levels, NEW m \in Levels,
                    NEW i \in 1..Len(List(l)'), NEW j \in 1..Len(List(m)'),
                    NEW g \in Gens(l, i)', NEW h \in Gens(m, j)'
             PROVE  /\ l = m /\ i < j => g < h
                    /\ l < m /\ ~IsInput(l, i)' => h < g
  BY DEF OrderInv
<1>2. CASE AddTable
  <2>1. PICK n \in Nat : n = Len(List(0)) + 1
    BY <1>1, LevelFacts DEF Levels, ConstantsAssumption
  <2>2. /\ \A k \in Levels : \A p \in 1..Len(List(k)) :
             p \in 1..Len(List(k)') /\ Gens(k, p)' = Gens(k, p)
        /\ \A k \in Levels : \A p \in 1..Len(List(k)') :
             p \in 1..Len(List(k)) \/ (k = 0 /\ p = n)
        /\ Gens(0, n)' = {flushed + 1}
        /\ IsInput(l, i)' <=> IsInput(l, i)
    BY <1>2, <2>1, AfterAddTable
  <2>3. flushed \in Nat
    BY DEF TypeInv, TypeOK
  <2>4. CASE i \in 1..Len(List(l)) /\ j \in 1..Len(List(m))
    BY <2>2, <2>4 DEF OrderInv
  <2>5. CASE l = 0 /\ i = n /\ j \in 1..Len(List(m))
    <3>1. g = flushed + 1 /\ h \in 1..flushed
      BY <2>2, <2>5 DEF CoverInv
    <3>2. ~(l = m /\ i < j)
      BY <1>1, <2>1, <2>5
    <3>3. QED
      BY <2>3, <3>1, <3>2
  <2>6. CASE i \in 1..Len(List(l)) /\ m = 0 /\ j = n
    <3>1. h = flushed + 1 /\ g \in 1..flushed
      BY <2>2, <2>6 DEF CoverInv
    <3>2. ~(l < m)
      BY <1>1, <2>6
    <3>3. QED
      BY <2>3, <3>1, <3>2
  <2>7. CASE l = 0 /\ i = n /\ m = 0 /\ j = n
    BY <2>1, <2>7
  <2>8. QED
    BY <2>2, <2>4, <2>5, <2>6, <2>7
<1>3. ASSUME NEW c \in Compactors, AddMerged(c)
      PROVE  /\ l = m /\ i < j => g < h
             /\ l < m /\ ~IsInput(l, i)' => h < g
  <2>1. curr_level[c] + 1 \in Levels /\ curr_level[c] \in Levels /\ compactor[c] = "add"
    BY <1>3, AddMergedEffect
  <2>2. PICK s \in Levels, k \in Levels, n \in Nat :
          s = curr_level[c] /\ k = s + 1 /\ n = Len(List(k)) + 1
    BY <1>1, <2>1
  <2>3. /\ \A q \in Levels : \A p \in 1..Len(List(q)) :
             p \in 1..Len(List(q)') /\ Gens(q, p)' = Gens(q, p)
        /\ \A q \in Levels : \A p \in 1..Len(List(q)') :
             p \in 1..Len(List(q)) \/ (q = k /\ p = n)
        /\ Gens(k, n)' = merged[c].gens
        /\ IsInput(l, i)' <=> IsInput(l, i) \/ (l = s /\ i <= COMPACTION_TRIGGER)
    BY <1>3, <2>2, AfterAddMerged
  <2>4. ASSUME NEW q \in Levels, NEW p \in 1..Len(List(q)), NEW x \in Gens(q, p),
               NEW y \in merged[c].gens
        PROVE  /\ q > s => x < y
               /\ q < s /\ ~IsInput(q, p) => y < x
               /\ q = s /\ p > COMPACTION_TRIGGER => y < x
    BY <2>1, <2>2, MergedOrder
  <2>5. CASE i \in 1..Len(List(l)) /\ j \in 1..Len(List(m))
    BY <2>3, <2>5 DEF OrderInv
  <2>6. CASE l = k /\ i = n /\ j \in 1..Len(List(m))
    <3>1. g \in merged[c].gens /\ h \in Gens(m, j)
      BY <2>3, <2>6
    <3>2. ~(l = m /\ i < j)
      BY <1>1, <2>2, <2>6
    <3>3. l < m => m > s
      BY <1>1, <2>2, <2>6
    <3>4. QED
      BY <2>4, <2>6, <3>1, <3>2, <3>3
  <2>7. CASE i \in 1..Len(List(l)) /\ m = k /\ j = n
    <3>1. h \in merged[c].gens /\ g \in Gens(l, i)
      BY <2>3, <2>7
    <3>2. l = m => l > s
      BY <1>1, <2>2, <2>7
    <3>3. l < m => l < s \/ l = s
      BY <1>1, <2>2, <2>7
    <3>4. l = s /\ ~IsInput(l, i)' => i > COMPACTION_TRIGGER
      BY <2>3, <2>7 DEF ConstantsAssumption
    <3>5. QED
      BY <2>3, <2>4, <2>7, <3>1, <3>2, <3>3, <3>4
  <2>8. CASE l = k /\ i = n /\ m = k /\ j = n
    BY <1>1, <2>2, <2>8
  <2>9. QED
    BY <2>3, <2>5, <2>6, <2>7, <2>8
<1>4. ASSUME NEW c \in Compactors, RemoveFiles(c)
      PROVE  /\ l = m /\ i < j => g < h
             /\ l < m /\ ~IsInput(l, i)' => h < g
  <2>1. PICK k \in Levels : k = curr_level[c]
    BY <1>4, RemoveFilesEffect
  <2>2. COMPACTION_TRIGGER \in Nat
    BY DEF ConstantsAssumption
  <2> DEFINE Before(q, p) == IF q = k THEN p + COMPACTION_TRIGGER ELSE p
  <2>3. ASSUME NEW q \in Levels, NEW p \in 1..Len(List(q)')
        PROVE  /\ Before(q, p) \in 1..Len(List(q)) /\ Gens(q, p)' = Gens(q, Before(q, p))
               /\ ~IsInput(q, p)' => ~IsInput(q, Before(q, p))
    <3>1. CASE q = k
      <4>1. /\ p + COMPACTION_TRIGGER \in 1..Len(List(k))
            /\ Gens(k, p)' = Gens(k, p + COMPACTION_TRIGGER)
        BY <1>4, <2>1, <3>1, AfterRemoveFiles
      <4>2. p + COMPACTION_TRIGGER \in Nat /\ ~(p + COMPACTION_TRIGGER <= COMPACTION_TRIGGER)
        BY <1>1, <2>2, <3>1, <4>1, <2>3
      <4>3. ~IsInput(k, p + COMPACTION_TRIGGER)
        BY <1>4, <2>1, <4>2, AfterRemoveFiles
      <4>4. QED
        BY <3>1, <4>1, <4>3
    <3>2. CASE q # k
      <4>1. List(q)' = List(q) /\ (IsInput(q, p)' <=> IsInput(q, p))
        BY <1>4, <2>1, <3>2, AfterRemoveFiles
      <4>2. QED
        BY <3>2, <4>1 DEF Gens, List
    <3>3. QED
      BY <3>1, <3>2
  <2>4. l = m /\ i < j => Before(l, i) < Before(m, j)
    <3>1. i \in Int /\ j \in Int
      OBVIOUS
    <3>2. QED
      BY <2>2, <3>1
  <2> HIDE DEF Before
  <2>5. QED
    BY <2>3, <2>4 DEF OrderInv
<1>5. CASE Quiet
  <2>1. IsInput(l, i)' <=> IsInput(l, i)
    BY <1>5, QuietInputs
  <2>2. List(l)' = List(l) /\ List(m)' = List(m) /\ Gens(l, i)' = Gens(l, i)
        /\ Gens(m, j)' = Gens(m, j)
    BY <1>5 DEF Quiet, List, Gens
  <2>3. QED
    BY <2>1, <2>2 DEF OrderInv
<1>6. QED
  BY <1>2, <1>3, <1>4, <1>5, ListSteps


(* FlightInv is kept.                                                      *)
LEMMA FlightStep ==
  ASSUME ConstantsAssumption, TypeInv, CopyInv, FilesInv, MergedInv, OrderInv, FlightInv, Next
  PROVE  FlightInv'
<1>1. \A k \in Levels : k \in Nat /\ Len(List(k)) \in Nat
  BY DEF TypeInv, TypeOK, List, Levels
<1> SUFFICES ASSUME NEW c \in Compactors, InFlight(c)',
                    NEW m \in Levels, m > curr_level'[c], NEW j \in 1..Len(List(m)')
             PROVE  LET gens == merged'[c].gens IN
                    /\ \A h \in Gens(m, j)' : h \in gens \/ \A g \in gens : h < g
                    /\ gens \subseteq Gens(m, j)' \/ \A h \in Gens(m, j)' : h \notin gens
  BY DEF FlightInv, Below
<1>2. ASSUME InFlight(c), curr_level'[c] = curr_level[c], merged'[c] = merged[c],
             NEW i \in 1..Len(List(m)), Gens(m, j)' = Gens(m, i)
      PROVE  LET gens == merged'[c].gens IN
             /\ \A h \in Gens(m, j)' : h \in gens \/ \A g \in gens : h < g
             /\ gens \subseteq Gens(m, j)' \/ \A h \in Gens(m, j)' : h \notin gens
  BY <1>2 DEF FlightInv, Below
<1>3. CASE AddTable
  <2>1. PICK n \in Nat : n = Len(List(0)) + 1
    BY <1>1, LevelFacts DEF Levels, ConstantsAssumption
  <2>2. InFlight(c) /\ curr_level'[c] = curr_level[c] /\ merged'[c] = merged[c]
    BY <1>3, AddTableEffect DEF compactorVars, InFlight
  <2>3. m # 0
    BY <1>1, <2>2 DEF TypeInv, TypeOK, Levels
  <2>4. j \in 1..Len(List(m)) /\ Gens(m, j)' = Gens(m, j)
    BY <1>3, <2>1, <2>3, AfterAddTable
  <2>5. QED
    BY <1>2, <2>2, <2>4
<1>4. ASSUME NEW d \in Compactors, AddMerged(d)
      PROVE  LET gens == merged'[c].gens IN
             /\ \A h \in Gens(m, j)' : h \in gens \/ \A g \in gens : h < g
             /\ gens \subseteq Gens(m, j)' \/ \A h \in Gens(m, j)' : h \notin gens
  <2>1. /\ curr_level[d] + 1 \in Levels /\ curr_level[d] \in Levels
        /\ compactor[d] = "add" /\ compactor' = [compactor EXCEPT ![d] = "load_remove"]
        /\ curr_level' = curr_level /\ merged' = merged
    BY <1>4, AddMergedEffect
  <2>2. PICK s \in Levels, k \in Levels, n \in Nat :
          s = curr_level[d] /\ k = s + 1 /\ n = Len(List(k)) + 1
    BY <1>1, <2>1
  <2>3. /\ \A q \in Levels : \A p \in 1..Len(List(q)) :
             p \in 1..Len(List(q)') /\ Gens(q, p)' = Gens(q, p)
        /\ \A q \in Levels : \A p \in 1..Len(List(q)') :
             p \in 1..Len(List(q)) \/ (q = k /\ p = n)
        /\ Gens(k, n)' = merged[d].gens
    BY <1>4, <2>2, AfterAddMerged
  <2>4. CASE c = d
    <3>1. CASE j \in 1..Len(List(m))
      <4>1. \A h \in Gens(m, j), g \in merged[d].gens : h < g
        BY <2>1, <2>2, <2>4, <3>1, MergedOrder
      <4>2. Gens(m, j) \subseteq Nat
        <5>1. List(m)[j] \in Table
          BY <3>1, ElementOfSeq DEF TypeInv, TypeOK, List
        <5>2. QED
          BY <5>1 DEF Table, Generations, Gens, List
      <4>3. \A h \in Gens(m, j) : ~(h < h)
        BY <4>2
      <4>4. QED
        BY <2>1, <2>3, <2>4, <3>1, <4>1, <4>3
    <3>2. CASE m = k /\ j = n
      BY <2>1, <2>3, <2>4, <3>2
    <3>3. QED
      BY <2>3, <3>1, <3>2
  <2>5. CASE c # d
    <3>1. InFlight(c) /\ curr_level'[c] = curr_level[c] /\ merged'[c] = merged[c]
      BY <2>1, <2>5 DEF InFlight, TypeInv, TypeOK
    <3>2. CASE j \in 1..Len(List(m))
      BY <1>2, <2>3, <3>1, <3>2
    <3>3. CASE m = k /\ j = n
      <4>1. curr_level[c] # s /\ curr_level[c] \in Nat /\ s \in Nat
        BY <2>1, <2>2, <2>5, <3>1, WorkingLevels, WorkingKinds
      <4>2. s > curr_level[c]
        BY <2>2, <3>1, <3>3, <4>1
      <4>3. \A i \in 1..Len(List(s)) : Below(c, Gens(s, i))
        BY <3>1, <4>2 DEF FlightInv
      <4>4. \A g : g \in merged[d].gens <=>
              \E i \in 1..Len(List(s)) : i <= COMPACTION_TRIGGER /\ g \in Gens(s, i)
        BY <2>1, <2>2, MergedGens DEF Busy
      <4>5. \A h \in merged[d].gens : h \in merged[c].gens \/ \A g \in merged[c].gens : h < g
        BY <4>3, <4>4 DEF Below
      <4>6. merged[c].gens \subseteq merged[d].gens \/ \A h \in merged[d].gens : h \notin merged[c].gens
        BY <4>3, <4>4 DEF Below
      <4>7. QED
        BY <2>3, <3>1, <3>3, <4>5, <4>6
    <3>4. QED
      BY <2>3, <3>2, <3>3
  <2>6. QED
    BY <2>4, <2>5
<1>5. ASSUME NEW d \in Compactors, RemoveFiles(d)
      PROVE  LET gens == merged'[c].gens IN
             /\ \A h \in Gens(m, j)' : h \in gens \/ \A g \in gens : h < g
             /\ gens \subseteq Gens(m, j)' \/ \A h \in Gens(m, j)' : h \notin gens
  <2>1. PICK k \in Levels : k = curr_level[d]
    BY <1>5, RemoveFilesEffect
  <2>2. c # d
    BY <1>5, RemoveFilesEffect DEF InFlight
  <2>3. InFlight(c) /\ curr_level'[c] = curr_level[c] /\ merged'[c] = merged[c]
    BY <1>5, <2>2, CompactorFrame DEF Compactor, InFlight, TypeInv
  <2>4. CASE m = k
    BY <1>2, <1>5, <2>1, <2>3, <2>4, AfterRemoveFiles
  <2>5. CASE m # k
    <3>1. List(m)' = List(m) /\ Gens(m, j)' = Gens(m, j)
      BY <1>5, <2>1, <2>5, AfterRemoveFiles DEF List, Gens
    <3>2. QED
      BY <1>2, <2>3, <3>1
  <2>6. QED
    BY <2>4, <2>5
<1>6. CASE Quiet
  <2>1. List(m)' = List(m) /\ Gens(m, j)' = Gens(m, j)
    BY <1>6 DEF Quiet, List, Gens
  <2>2. QED
    BY <1>2, <1>6, <2>1 DEF Quiet
<1>7. QED
  BY <1>3, <1>4, <1>5, <1>6, ListSteps


(* A merge that purges has taken every older generation.                   *)
LEMMA PurgingMerge ==
  ASSUME ConstantsAssumption, TypeInv, FilesInv, DepthInv, CoverInv, OrderInv, PurgeInv,
         NEW c \in Compactors, MergeFiles(c)
  PROVE  PurgesOldest(merged'[c])
<1>1. /\ Len(files[c]) = COMPACTION_TRIGGER /\ files[c] \in Seq(Table)
      /\ \A g : g \in merged'[c].gens <=> \E i \in 1..COMPACTION_TRIGGER : g \in files[c][i].gens
      /\ \A g \in merged'[c].purged :
           IF RemoveTombstones(c) THEN g \in merged'[c].gens
           ELSE \E i \in 1..COMPACTION_TRIGGER : g \in files[c][i].purged
      /\ compactor[c] = "merge"
  BY MergeEffect
<1>2. PICK s \in Levels : s = curr_level[c]
  BY <1>1, WorkingLevels DEF Working, Busy
<1>3. /\ Len(List(s)) >= COMPACTION_TRIGGER /\ List(s) \in Seq(Table) /\ Len(List(s)) \in Nat
      /\ SubSeq(List(s), 1, COMPACTION_TRIGGER) = files[c]
  BY <1>1, <1>2 DEF FilesInv, RemovesWhatItMerged, List, TypeInv, TypeOK
<1>4. \A i \in 1..COMPACTION_TRIGGER : i \in 1..Len(List(s)) /\ files[c][i] = List(s)[i]
  BY <1>3, BatchFacts DEF ConstantsAssumption
<1>5. \A i : ~IsInput(s, i)
  BY <1>1, <1>2, NoInputs DEF Working, Busy, InFlight
<1> SUFFICES ASSUME NEW g \in merged'[c].purged, NEW h \in 1..g
             PROVE  h \in merged'[c].gens
  BY DEF PurgesOldest
<1>6. CASE RemoveTombstones(c)
  <2>1. PICK i \in 1..COMPACTION_TRIGGER : g \in Gens(s, i)
    BY <1>1, <1>4, <1>6 DEF Gens, List
  <2>2. g \in 1..flushed
    BY <1>4, <2>1 DEF CoverInv
  <2>3. PICK m \in Levels : \E j \in 1..Len(List(m)) : ~IsInput(m, j) /\ h \in Gens(m, j)
    <3>1. h \in 1..flushed
      BY <2>2 DEF TypeInv, TypeOK
    <3>2. QED
      BY <3>1 DEF CoverInv, HeldFrom
  <2>4. PICK j \in 1..Len(List(m)) : ~IsInput(m, j) /\ h \in Gens(m, j)
    BY <2>3
  <2>5. ~(g < h)
    BY <2>2
  <2>6. ~(m < s)
    BY <1>4, <2>1, <2>4, <2>5 DEF OrderInv
  <2>7. ~(m > s)
    <3>1. List(m) # <<>> /\ s = curr_max_level
      BY <1>2, <1>6, <2>4 DEF RemoveTombstones
    <3>2. QED
      BY <1>1, <1>2, <3>1, NothingDeeper
  <2>8. m = s
    BY <2>6, <2>7 DEF Levels
  <2>9. j \in 1..COMPACTION_TRIGGER
    <3>1. ~(i < j)
      BY <1>4, <2>1, <2>4, <2>5, <2>8 DEF OrderInv
    <3>2. QED
      BY <1>3, <2>8, <3>1 DEF ConstantsAssumption
  <2>10. QED
    BY <1>1, <1>4, <2>4, <2>8, <2>9 DEF Gens, List
<1>7. CASE ~RemoveTombstones(c)
  <2>1. PICK i \in 1..COMPACTION_TRIGGER : g \in files[c][i].purged
    BY <1>1, <1>7
  <2>2. PurgesOldest(List(s)[i])
    BY <1>4 DEF PurgeInv
  <2>3. QED
    BY <1>1, <1>4, <2>1, <2>2 DEF PurgesOldest
<1>8. QED
  BY <1>6, <1>7

(* PurgeInv is kept.                                                       *)
LEMMA PurgeStep ==
  ASSUME ConstantsAssumption, TypeInv, CopyInv, FilesInv, DepthInv, CoverInv, OrderInv, PurgeInv,
         Next
  PROVE  PurgeInv'
<1>1. \A k \in Levels : Len(List(k)) \in Nat
  BY DEF TypeInv, TypeOK, List
<1>2. ASSUME NEW l \in Levels, NEW t \in Table, Appended(l, t), PurgesOldest(t),
             NEW m \in Levels, NEW i \in 1..Len(List(m)')
      PROVE  PurgesOldest(List(m)'[i])
  <2>1. /\ \A q \in Levels : q # l => List(q)' = List(q)
        /\ Len(List(l)') = Len(List(l)) + 1
        /\ \A j \in 1..Len(List(l)) : List(l)'[j] = List(l)[j]
        /\ List(l)'[Len(List(l)) + 1] = t
    BY <1>2, AppendedLists DEF TypeInv
  <2>2. CASE m # l
    BY <2>1, <2>2 DEF PurgeInv
  <2>3. CASE m = l /\ i \in 1..Len(List(l))
    BY <2>1, <2>3 DEF PurgeInv
  <2>4. CASE m = l /\ i \notin 1..Len(List(l))
    <3>1. i = Len(List(l)) + 1
      BY <1>1, <2>1, <2>4
    <3>2. QED
      BY <1>2, <2>1, <2>4, <3>1
  <2>5. QED
    BY <2>2, <2>3, <2>4
<1>3. ASSUME NEW m \in Levels, NEW i \in 1..Len(List(m)')
      PROVE  PurgesOldest(List(m)'[i])
  <2>1. CASE AddTable
    <3>1. PurgesOldest([gens |-> {flushed + 1}, purged |-> {}])
      BY DEF PurgesOldest
    <3>2. QED
      BY <1>2, <2>1, <3>1, AddTableEffect
  <2>2. ASSUME NEW c \in Compactors, AddMerged(c)
        PROVE  PurgesOldest(List(m)'[i])
    <3>1. merged[c] \in Table /\ curr_level[c] + 1 \in Levels /\ compactor[c] = "add"
          /\ Appended(curr_level[c] + 1, merged[c])
      BY <2>2, AddMergedEffect
    <3>2. PurgesOldest(merged[c])
      BY <3>1 DEF PurgeInv, Busy
    <3>3. QED
      BY <1>2, <3>1, <3>2
  <2>3. ASSUME NEW c \in Compactors, RemoveFiles(c)
        PROVE  PurgesOldest(List(m)'[i])
    <3>1. PICK k \in Levels : k = curr_level[c]
      BY <2>3, RemoveFilesEffect
    <3>2. CASE m # k
      <4>1. List(m)' = List(m)
        BY <2>3, <3>1, <3>2, AfterRemoveFiles
      <4>2. QED
        BY <4>1 DEF PurgeInv
    <3>3. CASE m = k
      <4>1. i + COMPACTION_TRIGGER \in 1..Len(List(k))
        BY <2>3, <3>1, <3>3, AfterRemoveFiles
      <4>2. List(k)'[i] = List(k)[i + COMPACTION_TRIGGER]
        BY <2>3, <3>1, <3>3, RemoveFilesEffect, DroppedLists DEF TypeInv
      <4>3. QED
        BY <3>3, <4>1, <4>2 DEF PurgeInv
    <3>4. QED
      BY <3>2, <3>3
  <2>4. CASE Quiet
    BY <2>4 DEF Quiet, List, PurgeInv
  <2>5. QED
    BY <2>1, <2>2, <2>3, <2>4, ListSteps
<1>4. ASSUME NEW c \in Compactors, Busy(c)', compactor'[c] # "merge"
      PROVE  PurgesOldest(merged'[c])
  <2>1. CASE MergeFiles(c)
    BY <2>1, PurgingMerge
  <2>2. CASE LoadForAdd(c) \/ AddMerged(c) \/ LoadForRemove(c)
    <3>1. merged' = merged /\ Busy(c) /\ compactor[c] # "merge"
      BY <2>2 DEF LoadForAdd, AddMerged, LoadForRemove, CompactorAt, Busy
    <3>2. QED
      BY <3>1 DEF PurgeInv
  <2>3. CASE compactor'[c] = compactor[c]
    <3>1. merged'[c] = merged[c]
      BY <2>3, NoStep DEF TypeInv
    <3>2. QED
      BY <1>4, <2>3, <3>1 DEF PurgeInv, Busy
  <2>4. CASE \/ CompactorLoop(c) \/ AcquireStart(c) \/ CompactorWoken(c) \/ CheckLowerLevel(c)
             \/ PickFiles(c) \/ RemoveFiles(c) \/ AdvanceLevel(c) \/ BumpMaxLevel(c)
             \/ RecheckLevel(c) \/ StartNext(c)
    BY <1>4, <2>4 DEF CompactorLoop, AcquireStart, CompactorWoken, CheckLowerLevel, PickFiles,
      RemoveFiles, AdvanceLevel, BumpMaxLevel, RecheckLevel, StartNext, CompactorAt, TypeInv,
      TypeOK, Busy
  <2>5. CASE ~Compactor(c)
    BY <2>3, <2>5, FlusherFrame, CompactorFrame, ReaderFrame, StopFrame
      DEF Next, Terminated, vars, compactorVars, TypeInv
  <2>6. QED
    BY <2>1, <2>2, <2>4, <2>5 DEF Compactor
<1>5. QED
  BY <1>3, <1>4 DEF PurgeInv, PurgesOldest


-----------------------------------------------------------------------------
(* Permits.                                                                *)

LEMMA Idling ==
  ASSUME TypeOK, Next, NEW c \in Compactors, ~Compactor(c)
  PROVE  compactor'[c] = compactor[c] /\ curr_level'[c] = curr_level[c]
  BY FlusherFrame, CompactorFrame, ReaderFrame, StopFrame
    DEF Next, Terminated, vars, compactorVars

(* A compactor takes a batch of its own level on when it finds one, and is *)
(* done with it when it has erased it.                                     *)
LEMMA TakenOnChanges ==
  ASSUME TypeInv, Next, NEW c \in Compactors, ~CheckLowerLevel(c), ~RemoveFiles(c)
  PROVE  TakenOn(c)' <=> TakenOn(c)
<1>1. CASE PickFiles(c) \/ MergeFiles(c) \/ LoadForAdd(c) \/ AddMerged(c) \/ LoadForRemove(c)
  BY <1>1 DEF PickFiles, MergeFiles, LoadForAdd, AddMerged, LoadForRemove, CompactorAt, TypeInv,
    TypeOK, TakenOn
<1>2. CASE CompactorLoop(c) \/ AcquireStart(c) \/ CompactorWoken(c) \/ AdvanceLevel(c)
           \/ BumpMaxLevel(c) \/ StartNext(c)
  <2>1. /\ compactor[c] \in {"loop", "acquire", "woken", "advance", "bump", "next"}
        /\ compactor'[c] \in {"acquire", "stopped", "woken", "check", "bump", "recheck", "loop"}
    BY <1>2 DEF CompactorLoop, AcquireStart, CompactorWoken, AdvanceLevel, BumpMaxLevel,
      StartNext, CompactorAt, TypeInv, TypeOK
  <2>2. QED
    BY <2>1 DEF TakenOn
<1>3. CASE RecheckLevel(c)
  <2>1. compactor[c] = "recheck" /\ curr_level'[c] = curr_level[c]
    BY <1>3 DEF RecheckLevel, CompactorAt
  <2>2. curr_level[c] # c
    BY <2>1, LevelFacts DEF TypeInv, LevelInv, TypeOK, Levels
  <2>3. QED
    BY <2>1, <2>2 DEF TakenOn
<1>4. CASE ~Compactor(c)
  BY <1>4, Idling DEF TakenOn, TypeInv
<1>5. QED
  BY <1>1, <1>2, <1>3, <1>4 DEF Compactor

(* Whoever fills a level is about to release its compactor a permit.       *)
LEMMA WaitingStep ==
  ASSUME ConstantsAssumption, TypeInv, LockInv, CopyInv, FilesInv, Next,
         NEW c \in Compactors, ~CheckLowerLevel(c)
  PROVE  Waiting(c)' = Waiting(c) \/ AboutToSignal(c)'
<1>1. /\ c \in Nat /\ c \in Levels /\ 0 \in Levels /\ Len(List(c)) \in Nat
      /\ COMPACTION_TRIGGER \in Nat
  <2>1. c \in Nat /\ c \in Levels /\ 0 \in Levels
    BY LevelFacts
  <2>2. Len(List(c)) \in Nat /\ COMPACTION_TRIGGER \in Nat
    BY <2>1 DEF TypeInv, TypeOK, List, ConstantsAssumption
  <2>3. QED
    BY <2>1, <2>2
<1>2. ASSUME ~RemoveFiles(c), List(c)' = List(c)
      PROVE  Waiting(c)' = Waiting(c)
  BY <1>2, TakenOnChanges DEF Waiting, List
<1>3. CASE AddTable
  <2>1. CASE c = 0
    BY <1>3, <2>1 DEF AddTable, AboutToSignal
  <2>2. CASE c # 0
    <3>1. List(c)' = List(c) /\ UNCHANGED compactorVars
      BY <1>1, <1>3, <2>2, AddTableEffect, AppendedLists DEF TypeInv
    <3>2. QED
      BY <3>1 DEF Waiting, TakenOn, List, compactorVars
  <2>3. QED
    BY <2>1, <2>2
<1>4. ASSUME NEW d \in Compactors, AddMerged(d)
      PROVE  Waiting(c)' = Waiting(c) \/ AboutToSignal(c)'
  <2>1. /\ compactor[d] = "add" /\ compactor'[d] = "load_remove" /\ UNCHANGED curr_level
        /\ Appended(curr_level[d] + 1, merged[d]) /\ merged[d] \in Table
        /\ curr_level[d] + 1 \in Levels
    BY <1>4, AddMergedEffect
  <2>2. CASE curr_level[d] + 1 = c
    <3>1. /\ d \in Nat /\ curr_level[d] \in Nat /\ curr_level[d] >= d
          /\ d + 1 \in Compactors => curr_level[d] = d
      BY <2>1, WorkingLevels, WorkingKinds, LevelFacts DEF Busy
    <3>2. d + 1 \in Compactors
      BY <1>1, <2>2, <3>1 DEF Compactors, ConstantsAssumption
    <3>3. c - 1 = d /\ c > 0
      BY <1>1, <2>2, <3>1, <3>2
    <3>4. compactor'[c - 1] = "load_remove" /\ curr_level'[c - 1] = c - 1
      BY <2>1, <3>1, <3>2, <3>3
    <3>5. QED
      BY <3>3, <3>4 DEF AboutToSignal
  <2>3. CASE curr_level[d] + 1 # c
    <3>1. List(c)' = List(c)
      BY <1>1, <2>1, <2>3, AppendedLists DEF TypeInv
    <3>2. ~RemoveFiles(c)
      BY <1>4 DEF AddMerged, RemoveFiles, CompactorAt, TypeInv, TypeOK
    <3>3. QED
      BY <1>2, <3>1, <3>2
  <2>4. QED
    BY <2>2, <2>3
<1>5. ASSUME NEW d \in Compactors, RemoveFiles(d)
      PROVE  Waiting(c)' = Waiting(c)
  <2>1. /\ compactor[d] = "remove" /\ compactor'[d] = "advance" /\ UNCHANGED curr_level
        /\ Working(d) /\ Busy(d)
    BY <1>5, RemoveFilesEffect DEF Working, Busy
  <2>2. CASE curr_level[d] = c
    <3>1. /\ d \in Nat /\ curr_level[d] >= d
          /\ d + 1 \in Compactors => curr_level[d] = d
      BY <2>1, WorkingLevels, LevelFacts
    <3>2. d = c
      BY <1>1, <2>1, <2>2, <3>1, WorkingLevels, LevelFacts DEF Compactors, ConstantsAssumption
    <3>3. Len(List(c)') = Len(List(c)) - COMPACTION_TRIGGER
      BY <1>1, <1>5, <2>2, <3>2, AfterRemoveFiles
    <3>4. TakenOn(c) /\ ~TakenOn(c)'
      BY <2>1, <2>2, <3>2 DEF TakenOn
    <3>5. Waiting(c) = Len(List(c)) - COMPACTION_TRIGGER /\ Waiting(c)' = Len(List(c)') - 0
      BY <3>4 DEF Waiting, List
    <3>6. QED
      BY <1>1, <3>3, <3>5
  <2>3. CASE curr_level[d] # c
    <3>1. List(c)' = List(c)
      BY <1>1, <1>5, <2>3, RemoveFilesEffect, DroppedLists DEF TypeInv
    <3>2. TakenOn(c)' <=> TakenOn(c)
      <4>1. CASE d = c
        BY <2>1, <2>3, <4>1 DEF TakenOn
      <4>2. CASE d # c
        BY <1>5, <4>2, CompactorFrame DEF Compactor, TypeInv, TakenOn
      <4>3. QED
        BY <4>1, <4>2
    <3>3. QED
      BY <3>1, <3>2 DEF Waiting, List
  <2>4. QED
    BY <2>2, <2>3
<1>6. CASE Quiet
  <2>1. List(c)' = List(c)
    BY <1>6 DEF Quiet, List
  <2>2. QED
    BY <1>2, <1>5, <2>1
<1>7. QED
  BY <1>3, <1>4, <1>5, <1>6, ListSteps


(* Whoever is about to signal does, or the level is not full any more.     *)
LEMMA SignalStep ==
  ASSUME ConstantsAssumption, TypeInv, FilesInv, TypeOK', Next,
         NEW c \in Compactors, AboutToSignal(c)
  PROVE  \/ AboutToSignal(c)' \/ start_compactor'[c] > 0
         \/ /\ List(c)' = List(c)
            /\ Len(List(c)) < COMPACTION_TRIGGER
<1>1. c \in Nat /\ Len(List(c)) \in Nat /\ COMPACTION_TRIGGER \in Nat
  <2>1. c \in Nat /\ c \in Levels
    BY LevelFacts
  <2>2. QED
    BY <2>1 DEF TypeInv, TypeOK, List, ConstantsAssumption
<1>2. ASSUME NEW d \in Compactors, Release(d), d = c
      PROVE  start_compactor'[c] > 0
  <2>1. start_compactor[c] \in Nat
    BY DEF TypeInv, TypeOK
  <2>2. PICK n \in Released(start_compactor[c]) : start_compactor' = [start_compactor EXCEPT ![c] = n]
    BY <1>2 DEF Release
  <2>3. n > 0
    BY <2>1 DEF Released
  <2>4. QED
    BY <2>2, <2>3 DEF TypeInv, TypeOK
<1>3. CASE c = 0 /\ flusher = "trigger"
  <2>1. CASE TriggerCompaction
    BY <1>1, <1>2, <1>3, <2>1 DEF TriggerCompaction, List
  <2>2. CASE ~TriggerCompaction
    <3>1. flusher' = "trigger"
      BY <1>3, <2>2, CompactorFrame, ReaderFrame, StopFrame
        DEF Next, Flusher, LoadLevel0, AddTable, Terminated, vars, flusherVars, TypeInv
    <3>2. QED
      BY <1>3, <3>1 DEF AboutToSignal
  <2>3. QED
    BY <2>1, <2>2
<1>4. CASE ~(c = 0 /\ flusher = "trigger")
  <2>1. PICK d \in Compactors : d = c - 1 /\ c > 0 /\ d + 1 = c
    BY <1>1, <1>4 DEF AboutToSignal, Compactors, ConstantsAssumption
  <2>2. /\ HigherLevel(d) = c /\ c # MAX_LEVEL
        /\ \/ compactor[d] = "next"
           \/ compactor[d] \in {"load_remove", "remove", "advance"} /\ curr_level[d] = d
           \/ compactor[d] \in {"bump", "recheck"} /\ curr_level[d] = c
    <3>1. HigherLevel(d) = c
      BY <2>1, LevelFacts
    <3>2. c # MAX_LEVEL
      BY <1>1 DEF Compactors, ConstantsAssumption
    <3>3. QED
      BY <1>4, <2>1, <3>1, <3>2 DEF AboutToSignal
  <2>3. ASSUME \/ compactor'[d] = "next"
               \/ compactor'[d] \in {"load_remove", "remove", "advance"} /\ curr_level'[d] = d
               \/ compactor'[d] \in {"bump", "recheck"} /\ curr_level'[d] = c
        PROVE  AboutToSignal(c)'
    BY <2>1, <2>3 DEF AboutToSignal
  <2>4. CASE StartNext(d)
    BY <1>2, <2>1, <2>4 DEF StartNext
  <2>5. CASE RecheckLevel(d)
    <3>1. /\ compactor[d] = "recheck" /\ curr_level[d] = c
          /\ compactor' = [compactor EXCEPT ![d] =
               IF Len(List(c)) >= COMPACTION_TRIGGER THEN "next" ELSE "loop"]
          /\ readers_at_level' = readers_at_level
      <4>1. compactor[d] = "recheck" /\ readers_at_level' = readers_at_level
        BY <2>5 DEF RecheckLevel, CompactorAt
      <4>2. curr_level[d] = c
        BY <2>2, <4>1
      <4>3. QED
        <5>1. ~(curr_level[d] < HigherLevel(d))
          BY <1>1, <2>2, <4>2
        <5>2. compactor' = [compactor EXCEPT ![d] =
                IF Len(readers_at_level[c]) >= COMPACTION_TRIGGER THEN "next" ELSE "loop"]
          BY <2>2, <2>5, <4>2, <5>1 DEF RecheckLevel, CompactorAt
        <5>3. QED
          BY <4>1, <4>2, <5>2 DEF List
    <3>2. CASE Len(List(c)) >= COMPACTION_TRIGGER
      BY <2>3, <3>1, <3>2 DEF TypeInv, TypeOK
    <3>3. CASE ~(Len(List(c)) >= COMPACTION_TRIGGER)
      BY <1>1, <3>1, <3>3 DEF List
    <3>4. QED
      BY <3>2, <3>3
  <2>6. CASE AdvanceLevel(d)
    <3>1. compactor[d] = "advance" /\ compactor'[d] \in {"bump", "recheck"}
          /\ curr_level'[d] = curr_level[d] + 1
      BY <2>6 DEF AdvanceLevel, CompactorAt, TypeInv, TypeOK
    <3>2. QED
      BY <2>1, <2>2, <2>3, <3>1
  <2>7. CASE LoadForRemove(d) \/ RemoveFiles(d) \/ BumpMaxLevel(d)
    BY <2>2, <2>3, <2>7 DEF LoadForRemove, RemoveFiles, BumpMaxLevel, CompactorAt, TypeInv, TypeOK
  <2>8. CASE ~Compactor(d)
    BY <2>2, <2>3, <2>8, Idling DEF TypeInv
  <2>9. QED
    BY <2>2, <2>4, <2>5, <2>6, <2>7, <2>8 DEF Compactor, CompactorLoop, AcquireStart,
      CompactorWoken, CheckLowerLevel, PickFiles, MergeFiles, LoadForAdd, AddMerged, CompactorAt
<1>5. QED
  BY <1>3, <1>4

(* A permit stays until its compactor takes it.                            *)
LEMMA PermitStays ==
  ASSUME TypeInv, Next, NEW c \in Compactors, start_compactor[c] > 0
  PROVE  start_compactor'[c] > 0 \/ compactor'[c] = "woken"
<1>1. start_compactor \in [Compactors -> Nat]
  BY DEF TypeInv, TypeOK
<1>2. ASSUME NEW d, Release(d)
      PROVE  start_compactor'[c] > 0
  <2>1. CASE d = c
    BY <1>1, <1>2, <2>1 DEF Release, Released
  <2>2. CASE d # c
    BY <1>1, <1>2, <2>2 DEF Release
  <2>3. QED
    BY <2>1, <2>2
<1>3. ASSUME UNCHANGED start_compactor
      PROVE  start_compactor'[c] > 0
  BY <1>3
<1>4. CASE Flusher
  BY <1>2, <1>3, <1>4 DEF Flusher, LoadLevel0, AddTable, TriggerCompaction
<1>5. ASSUME NEW d \in Compactors, Compactor(d)
      PROVE  start_compactor'[c] > 0 \/ compactor'[c] = "woken"
  <2>1. CASE AcquireStart(d)
    <3>1. CASE d = c
      BY <2>1, <3>1 DEF AcquireStart, CompactorAt, TypeInv, TypeOK
    <3>2. CASE d # c
      BY <1>1, <2>1, <3>2 DEF AcquireStart
    <3>3. QED
      BY <3>1, <3>2
  <2>2. CASE ~AcquireStart(d)
    BY <1>2, <1>3, <1>5, <2>2 DEF Compactor, CompactorLoop, CompactorWoken, CheckLowerLevel,
      PickFiles, MergeFiles, LoadForAdd, AddMerged, LoadForRemove, RemoveFiles, AdvanceLevel,
      BumpMaxLevel, RecheckLevel, StartNext
  <2>3. QED
    BY <2>1, <2>2
<1>6. QED
  BY <1>2, <1>3, <1>4, <1>5, ReaderFrame DEF Next, StopCompactor, Terminated, vars

(* A compactor that looks at its level takes a batch on, and has a permit  *)
(* when there is another.                                                  *)
LEMMA CheckEffect ==
  ASSUME ConstantsAssumption, TypeInv, NEW c \in Compactors, CheckLowerLevel(c)
  PROVE  Waiting(c)' >= COMPACTION_TRIGGER => start_compactor'[c] > 0
<1>1. /\ Len(List(c)) \in Nat /\ COMPACTION_TRIGGER \in Nat
      /\ compactor[c] = "check" /\ curr_level'[c] = c /\ readers_at_level' = readers_at_level
      /\ compactor'[c] = IF Len(List(c)) >= COMPACTION_TRIGGER THEN "pick" ELSE "loop"
  <2>1. c \in Levels
    BY LevelFacts
  <2>2. QED
    BY <2>1 DEF CheckLowerLevel, CompactorAt, TypeInv, TypeOK, List, ConstantsAssumption, LevelInv
<1>2. List(c)' = List(c)
  BY <1>1 DEF List
<1>3. CASE Len(List(c)) >= 2 * COMPACTION_TRIGGER
  <2>1. Release(c) /\ start_compactor \in [Compactors -> Nat]
    BY <1>3 DEF CheckLowerLevel, AnotherBatch, List, TypeInv, TypeOK
  <2>2. PICK n \in Released(start_compactor[c]) : start_compactor' = [start_compactor EXCEPT ![c] = n]
    BY <2>1 DEF Release
  <2>3. n > 0
    BY <2>1, <2>2 DEF Released
  <2>4. QED
    BY <2>1, <2>2, <2>3
<1>4. CASE ~(Len(List(c)) >= 2 * COMPACTION_TRIGGER)
  <2>1. CASE Len(List(c)) >= COMPACTION_TRIGGER
    <3>1. TakenOn(c)'
      BY <1>1, <2>1 DEF TakenOn
    <3>2. Waiting(c)' = Len(List(c)) - COMPACTION_TRIGGER
      BY <1>2, <3>1 DEF Waiting, List
    <3>3. QED
      BY <1>1, <1>4, <3>2
  <2>2. CASE ~(Len(List(c)) >= COMPACTION_TRIGGER)
    <3>1. ~TakenOn(c)'
      BY <1>1, <2>2 DEF TakenOn
    <3>2. Waiting(c)' = Len(List(c)) - 0
      BY <1>2, <3>1 DEF Waiting, List
    <3>3. QED
      BY <1>1, <2>2, <3>2
  <2>3. QED
    BY <2>1, <2>2
<1>5. QED
  BY <1>3, <1>4

(* NoLostWakeup is kept.                                                   *)
LEMMA WakeStep ==
  ASSUME ConstantsAssumption, TypeInv, LockInv, CopyInv, FilesInv, NoLostWakeup, TypeOK', Next
  PROVE  NoLostWakeup'
<1> SUFFICES ASSUME NEW c \in Compactors, Waiting(c)' >= COMPACTION_TRIGGER,
                    ~AboutToSignal(c)', ~(start_compactor'[c] > 0)
             PROVE  compactor'[c] \in {"woken", "check", "stopped"}
  BY DEF NoLostWakeup
<1>1. ~CheckLowerLevel(c)
  BY CheckEffect
<1>2. Waiting(c) >= COMPACTION_TRIGGER /\ Waiting(c)' = Waiting(c)
  BY <1>1, WaitingStep
<1>3. CASE start_compactor[c] > 0
  BY <1>3, PermitStays
<1>4. CASE compactor[c] \in {"woken", "check", "stopped"}
  <2>1. CASE Compactor(c)
    <3>1. CompactorWoken(c)
      BY <1>1, <1>4, <2>1 DEF Compactor, CompactorLoop, AcquireStart, PickFiles, MergeFiles,
        LoadForAdd, AddMerged, LoadForRemove, RemoveFiles, AdvanceLevel, BumpMaxLevel,
        RecheckLevel, StartNext, CompactorAt
    <3>2. QED
      BY <3>1 DEF CompactorWoken, CompactorAt, TypeInv, TypeOK
  <2>2. CASE ~Compactor(c)
    BY <1>4, <2>2, Idling DEF TypeInv
  <2>3. QED
    BY <2>1, <2>2
<1>5. CASE AboutToSignal(c)
  <2>1. List(c)' = List(c) /\ Len(List(c)) < COMPACTION_TRIGGER
    BY <1>5, SignalStep
  <2>2. Len(List(c)) \in Nat /\ COMPACTION_TRIGGER \in Nat
    BY LevelFacts DEF TypeInv, TypeOK, List, ConstantsAssumption
  <2>3. Waiting(c) = Len(List(c)) - COMPACTION_TRIGGER \/ Waiting(c) = Len(List(c)) - 0
    BY DEF Waiting, List
  <2>4. QED
    BY <1>2, <2>1, <2>2, <2>3
<1>6. QED
  BY <1>2, <1>3, <1>4, <1>5 DEF NoLostWakeup


-----------------------------------------------------------------------------
(* Searches.                                                               *)

(* No step of another thread hides from r what is ahead of it.             *)
LEMMA SearchUndisturbed ==
  ASSUME ConstantsAssumption, TypeInv, CopyInv, FilesInv, MergedInv, Next,
         NEW r \in Readers, Searching(r),
         reader'[r] = reader[r], level'[r] = level[r], readers'[r] = readers[r],
         base'[r] = base[r], seen'[r] = seen[r]
  PROVE  Searching(r)'
<1>1. base'[r] <= flushed'
  <2>1. base[r] <= flushed /\ base[r] \in Int /\ flushed \in Int
    BY DEF Searching, TypeInv, TypeOK
  <2>2. flushed' = flushed \/ flushed' = flushed + 1
    BY ListSteps, AddTableEffect, AddMergedEffect, RemoveFilesEffect DEF Quiet
  <2>3. QED
    BY <2>1, <2>2
<1>2. PICK l \in Nat : l = level[r]
  BY DEF TypeInv, TypeOK, Levels
<1>3. ASSUME NEW h \in 1..base'[r], h \notin seen'[r]
      PROVE  Ahead(r, h)'
  <2>1. Ahead(r, h)
    BY <1>3 DEF Searching
  <2>2. ToVisit(r, h)' <=> ToVisit(r, h)
    BY DEF ToVisit
  <2>3. HeldFrom(h, l) => HeldFrom(h, l)'
    BY <1>2, HeldStays
  <2>4. HeldFrom(h, l + 1) => HeldFrom(h, l + 1)'
    BY <1>2, HeldStays
  <2>5. reader'[r] = "load" => HeldFrom(h, level[r])'
    <3>1. reader[r] = "load" => HeldFrom(h, l)
      BY <1>2, <2>1 DEF Ahead
    <3>2. QED
      BY <1>2, <2>3, <3>1 DEF HeldFrom
  <2>6. reader'[r] = "visit" => ToVisit(r, h)' \/ HeldFrom(h, level[r] + 1)'
    <3>1. reader[r] = "visit" => ToVisit(r, h) \/ HeldFrom(h, l + 1)
      BY <1>2, <2>1 DEF Ahead
    <3>2. QED
      BY <1>2, <2>2, <2>4, <3>1 DEF HeldFrom
  <2>7. /\ reader'[r] # "missed"
        /\ \/ ToVisit(r, h)'
           \/ \A i \in 1..Len(readers'[r]) : \A g \in readers'[r][i].gens : h < g
    BY <2>1, <2>2 DEF Ahead
  <2>8. QED
    BY <2>5, <2>6, <2>7 DEF Ahead
<1>4. QED
  BY <1>1, <1>3 DEF Searching

LEMMA SearchBegins ==
  ASSUME ConstantsAssumption, TypeInv, CoverInv, NEW r \in Readers, Searching(r), BeginSearch(r)
  PROVE  Searching(r)'
<1>1. /\ reader[r] = "idle" /\ reader'[r] = "load" /\ base'[r] = flushed /\ level'[r] = 0
      /\ readers'[r] = <<>> /\ seen'[r] = {} /\ flushed' = flushed
      /\ UNCHANGED <<readers_at_level, compactorVars>>
  BY DEF BeginSearch, Searching, TypeInv, TypeOK, flusherVars
<1>2. ASSUME NEW h \in 1..flushed
      PROVE  Ahead(r, h)'
  <2>1. HeldFrom(h, 0)
    BY DEF CoverInv
  <2>2. HeldFrom(h, level[r])'
    BY <1>1, <2>1, QuietInputs DEF HeldFrom, List, Gens
  <2>3. QED
    BY <1>1, <2>2 DEF Ahead
<1>3. flushed \in Int
  BY DEF TypeInv, TypeOK
<1>4. QED
  BY <1>1, <1>2, <1>3 DEF Searching

(* The list that r loads has what it has not met, or that is further down  *)
(* and older than the whole list.                                          *)
LEMMA SearchLoads ==
  ASSUME ConstantsAssumption, TypeInv, FilesInv, MergedInv, OrderInv, FlightInv,
         NEW r \in Readers, Searching(r), LoadReaders(r)
  PROVE  Searching(r)'
<1>1. PICK l \in Levels : l = level[r]
  BY DEF TypeInv, TypeOK
<1>2. /\ reader[r] = "load" /\ reader'[r] = "visit" /\ readers'[r] = List(l)
      /\ level'[r] = l /\ base'[r] = base[r] /\ seen'[r] = seen[r] /\ flushed' = flushed
      /\ UNCHANGED <<readers_at_level, compactorVars>>
  BY <1>1 DEF LoadReaders, ReadersNewestLast, List, TypeInv, TypeOK, flusherVars
<1>3. ASSUME NEW h \in 1..base[r], h \notin seen[r]
      PROVE  Ahead(r, h)'
  <2>1. ToVisit(r, h)' <=> \E i \in 1..Len(List(l)) : h \in Gens(l, i)
    BY <1>2 DEF ToVisit, Gens, List
  <2>2. PICK m \in Levels : m >= l /\ \E j \in 1..Len(List(m)) : ~IsInput(m, j) /\ h \in Gens(m, j)
    BY <1>1, <1>2, <1>3 DEF Searching, Ahead, HeldFrom
  <2>3. PICK j \in 1..Len(List(m)) : ~IsInput(m, j) /\ h \in Gens(m, j)
    BY <2>2
  <2>4. CASE m = l
    <3>1. ToVisit(r, h)'
      BY <2>1, <2>3, <2>4
    <3>2. QED
      BY <1>2, <3>1 DEF Ahead
  <2>5. CASE m # l
    <3>1. m > l /\ m >= l + 1 /\ m \in Nat /\ l \in Nat
      BY <2>2, <2>5 DEF Levels
    <3>2. HeldFrom(h, level[r] + 1)'
      <4>1. ~IsInput(m, j)'
        BY <1>2, <2>3, QuietInputs
      <4>2. j \in 1..Len(List(m)') /\ h \in Gens(m, j)'
        BY <1>2, <2>3 DEF List, Gens
      <4>3. QED
        BY <1>2, <3>1, <4>1, <4>2 DEF HeldFrom
    <3>3. ASSUME ~ToVisit(r, h)', NEW i \in 1..Len(List(l)), NEW g \in Gens(l, i)
          PROVE  h < g
      <4>1. CASE IsInput(l, i)
        <5>1. PICK c \in Compactors : InFlight(c) /\ curr_level[c] = l /\ i <= COMPACTION_TRIGGER
          BY <4>1 DEF IsInput
        <5>2. \A x : x \in merged[c].gens <=>
                \E k \in 1..Len(List(l)) : k <= COMPACTION_TRIGGER /\ x \in Gens(l, k)
          BY <5>1, MergedGens DEF InFlight, Busy
        <5>3. g \in merged[c].gens
          BY <3>3, <5>1, <5>2
        <5>4. h \notin merged[c].gens
          BY <2>1, <3>3, <5>2
        <5>5. Below(c, Gens(m, j))
          BY <3>1, <5>1 DEF FlightInv
        <5>6. QED
          BY <2>3, <5>3, <5>4, <5>5 DEF Below
      <4>2. CASE ~IsInput(l, i)
        BY <2>3, <3>1, <3>3, <4>2 DEF OrderInv
      <4>3. QED
        BY <4>1, <4>2
    <3>4. ToVisit(r, h)' \/ \A i \in 1..Len(readers'[r]) : \A g \in readers'[r][i].gens : h < g
      BY <1>2, <3>3 DEF Gens, List
    <3>5. QED
      BY <1>2, <3>2, <3>4 DEF Ahead
  <2>6. QED
    BY <2>4, <2>5
<1>4. ASSUME NEW i \in 1..Len(readers'[r]), NEW j \in 1..Len(readers'[r]), i < j,
             NEW g \in readers'[r][i].gens, NEW h \in readers'[r][j].gens
      PROVE  g < h
  BY <1>2, <1>4 DEF OrderInv, Gens, List
<1>5. /\ base'[r] <= flushed'
      /\ \A g \in seen'[r] : \A h \in (g + 1)..base'[r] : h \in seen'[r]
  BY <1>2 DEF Searching
<1>6. QED
  BY <1>2, <1>3, <1>4, <1>5 DEF Searching

(* A table that is visited has everything that is newer than it and was    *)
(* not met.                                                                *)
LEMMA SearchVisits ==
  ASSUME ConstantsAssumption, TypeInv, NEW r \in Readers, Searching(r), VisitTable(r)
  PROVE  Searching(r)'
<1>1. PICK n \in Nat : n = Len(readers[r]) /\ n >= 1
  <2>1. readers[r] \in Seq(Table) /\ readers[r] # <<>>
    BY DEF VisitTable, TypeInv, TypeOK
  <2>2. QED
    BY <2>1, EmptySeq
<1>2. /\ reader[r] = "visit" /\ reader'[r] = "visit" /\ level'[r] = level[r]
      /\ seen'[r] = seen[r] \union readers[r][n].gens
      /\ readers'[r] = SubSeq(readers[r], 1, n - 1)
      /\ base'[r] = base[r] /\ flushed' = flushed
      /\ UNCHANGED <<readers_at_level, compactorVars>>
  BY <1>1 DEF VisitTable, NextTable, TypeInv, TypeOK, flusherVars
<1>3. /\ Len(readers'[r]) = n - 1
      /\ \A i \in 1..(n - 1) : readers'[r][i] = readers[r][i] /\ i \in 1..n
  <2>1. readers[r] \in Seq(Table)
    BY DEF TypeInv, TypeOK
  <2>2. QED
    BY <1>1, <1>2, <2>1
<1>4. ASSUME NEW h \in 1..base[r], h \notin seen[r], h \notin readers[r][n].gens
      PROVE  Ahead(r, h)'
  <2>1. Ahead(r, h)
    BY <1>4 DEF Searching
  <2>2. ToVisit(r, h)' <=> ToVisit(r, h)
    <3>1. \A i \in 1..n : i # n => i \in 1..(n - 1)
      OBVIOUS
    <3>2. QED
      BY <1>1, <1>3, <1>4, <3>1 DEF ToVisit
  <2>3. HeldFrom(h, level[r] + 1) => HeldFrom(h, level[r] + 1)'
    BY <1>2, QuietInputs DEF HeldFrom, List, Gens
  <2>4. ToVisit(r, h)' \/ HeldFrom(h, level[r] + 1)'
    BY <1>2, <2>1, <2>2, <2>3 DEF Ahead
  <2>5. ToVisit(r, h)' \/ \A i \in 1..Len(readers'[r]) : \A g \in readers'[r][i].gens : h < g
    BY <1>1, <1>3, <2>1, <2>2 DEF Ahead
  <2>6. QED
    BY <1>2, <2>4, <2>5 DEF Ahead
<1>5. ASSUME NEW g \in seen'[r], NEW h \in (g + 1)..base[r], h \notin seen'[r]
      PROVE  FALSE
  <2>1. g \in readers[r][n].gens /\ h \notin seen[r] /\ h \notin readers[r][n].gens
    BY <1>2, <1>5 DEF Searching
  <2>2. g \in Nat /\ h > g /\ h \in 1..base[r]
    <3>1. readers[r][n] \in Table
      BY <1>1, ElementOfSeq DEF TypeInv, TypeOK
    <3>2. g \in Nat
      BY <2>1, <3>1 DEF Table, Generations
    <3>3. QED
      BY <1>5, <3>2
  <2>3. Ahead(r, h)
    BY <2>1, <2>2 DEF Searching
  <2>4. CASE ToVisit(r, h)
    <3>1. PICK i \in 1..n : h \in readers[r][i].gens
      BY <1>1, <2>4 DEF ToVisit
    <3>2. i < n
      BY <2>1, <3>1
    <3>3. h < g
      BY <1>1, <2>1, <3>1, <3>2 DEF Searching
    <3>4. QED
      BY <2>2, <3>3
  <2>5. CASE ~ToVisit(r, h)
    <3>1. h < g
      BY <1>1, <2>1, <2>3, <2>5 DEF Ahead
    <3>2. QED
      BY <2>2, <3>1
  <2>6. QED
    BY <2>4, <2>5
<1>6. ASSUME NEW i \in 1..Len(readers'[r]), NEW j \in 1..Len(readers'[r]), i < j,
             NEW g \in readers'[r][i].gens, NEW h \in readers'[r][j].gens
      PROVE  g < h
  BY <1>1, <1>3, <1>6 DEF Searching
<1>7. base'[r] <= flushed'
  BY <1>2 DEF Searching
<1>8. QED
  BY <1>2, <1>4, <1>5, <1>6, <1>7 DEF Searching

LEMMA SearchLeaves ==
  ASSUME ConstantsAssumption, TypeInv, NEW r \in Readers, Searching(r), LeaveLevel(r)
  PROVE  Searching(r)'
<1>1. /\ reader[r] = "visit" /\ readers[r] = <<>> /\ readers'[r] = <<>>
      /\ seen'[r] = seen[r] /\ base'[r] = base[r] /\ flushed' = flushed
      /\ UNCHANGED <<readers_at_level, compactorVars>>
      /\ IF level[r] = MAX_LEVEL THEN reader'[r] = "missed"
         ELSE reader'[r] = "load" /\ level'[r] = level[r] + 1
  BY DEF LeaveLevel, AtLastLevel, TypeInv, TypeOK, flusherVars
<1>2. ASSUME NEW h \in 1..base[r], h \notin seen[r]
      PROVE  Ahead(r, h)' /\ level[r] # MAX_LEVEL
  <2>1. HeldFrom(h, level[r] + 1)
    BY <1>1, <1>2 DEF Searching, Ahead, ToVisit
  <2>2. level[r] # MAX_LEVEL
    BY <2>1 DEF HeldFrom, Levels, ConstantsAssumption
  <2>3. HeldFrom(h, level[r])'
    BY <1>1, <2>1, <2>2, QuietInputs DEF HeldFrom, List, Gens
  <2>4. QED
    BY <1>1, <2>2, <2>3 DEF Ahead
<1>3. QED
  BY <1>1, <1>2 DEF Searching

(* ReaderInv is kept.                                                      *)
LEMMA ReaderStep ==
  ASSUME ConstantsAssumption, TypeInv, CopyInv, DataInv, ReaderInv, Next
  PROVE  ReaderInv'
<1> SUFFICES ASSUME NEW r \in Readers
             PROVE  Searching(r)'
  BY DEF ReaderInv
<1>1. Searching(r)
  BY DEF ReaderInv
<1>2. ASSUME reader'[r] = reader[r], level'[r] = level[r], readers'[r] = readers[r],
             base'[r] = base[r], seen'[r] = seen[r]
      PROVE  Searching(r)'
  BY <1>1, <1>2, SearchUndisturbed DEF DataInv
<1>3. ASSUME UNCHANGED readerVars
      PROVE  Searching(r)'
  BY <1>2, <1>3 DEF readerVars
<1>4. ASSUME NEW q \in Readers, BeginSearch(q) \/ Reader(q), q # r
      PROVE  Searching(r)'
  <2>1. reader'[r] = reader[r] /\ level'[r] = level[r] /\ readers'[r] = readers[r]
        /\ base'[r] = base[r] /\ seen'[r] = seen[r]
    BY <1>4 DEF BeginSearch, Reader, LoadReaders, VisitTable, LeaveLevel, EndSearch, TypeInv, TypeOK
  <2>2. QED
    BY <1>2, <2>1
<1>5. CASE EndSearch(r)
  <2>1. /\ reader'[r] = "idle" /\ level'[r] = 0 /\ base'[r] = 0 /\ seen'[r] = {}
        /\ readers'[r] = <<>> /\ flushed' = flushed
    BY <1>1, <1>5 DEF EndSearch, Searching, TypeInv, TypeOK, flusherVars
  <2>2. flushed \in Nat
    BY DEF TypeInv, TypeOK
  <2>3. QED
    BY <2>1, <2>2 DEF Searching
<1>6. CASE BeginSearch(r) \/ Reader(r)
  BY <1>1, <1>5, <1>6, SearchBegins, SearchLoads, SearchVisits, SearchLeaves DEF Reader, DataInv
<1>7. QED
  BY <1>3, <1>4, <1>6, FlusherFrame, CompactorFrame, StopFrame
    DEF Next, Terminated, vars, TypeInv

-----------------------------------------------------------------------------
(* Inv is an invariant, and what it implies.                               *)

(* The lists are empty and all threads at the beginning of their loops.    *)
LEMMA InitInv ==
  ASSUME ConstantsAssumption, Init
  PROVE  Inv
<1>1. \A l \in Levels : List(l) = <<>> /\ Len(List(l)) = 0
  BY DEF Init, List
<1>2. \A c \in Compactors : ~Working(c) /\ ~Busy(c) /\ ~InFlight(c)
  BY DEF Init, Working, Busy, InFlight
<1>3. TypeOK
  <2>1. <<>> \in Seq(Table) /\ NoTable \in Table /\ 0 \in Levels
    BY DEF NoTable, Table, Levels, ConstantsAssumption
  <2>2. \A c \in Compactors : c \in Levels
    BY LevelFacts
  <2>3. MaxFlushes \in Nat
    BY DEF ConstantsAssumption
  <2>4. QED
    BY <2>1, <2>2, <2>3 DEF Init, TypeOK
<1>4. LevelInv
  <2>1. ASSUME NEW c \in Compactors
        PROVE  c \in c..HigherLevel(c)
    BY LevelFacts DEF Levels, ConstantsAssumption
  <2>2. QED
    BY <1>2, <2>1 DEF Init, LevelInv
<1>5. LockInv /\ CopyInv
  BY DEF Init, LockInv, CopyInv
<1>6. FilesInv /\ MergedInv /\ FlightInv
  BY <1>2 DEF Init, FilesInv, RemovesWhatItMerged, MergedInv, FlightInv
<1>7. DepthInv
  BY <1>1, <1>2 DEF Init, DepthInv
<1>8. CoverInv /\ OrderInv /\ PurgeInv
  BY <1>1, <1>2 DEF Init, CoverInv, OrderInv, PurgeInv
<1>9. NoLostWakeup
  <2>1. ASSUME NEW c \in Compactors
        PROVE  Waiting(c) = 0
    BY <1>1, LevelFacts DEF Init, Waiting, TakenOn, List
  <2>2. QED
    BY <2>1 DEF NoLostWakeup, ConstantsAssumption
<1>10. ReaderInv
  BY DEF Init, ReaderInv, Searching
<1>11. QED
  BY <1>3, <1>4, <1>5, <1>6, <1>7, <1>8, <1>9, <1>10 DEF Inv, TypeInv, DataInv

(* A step that changes nothing keeps Inv.                                  *)
LEMMA Stutter ==
  ASSUME Inv, UNCHANGED vars
  PROVE  Inv'
<1>1. UNCHANGED <<readers_at_level, curr_max_level, start_compactor, run_compactor, flusher,
                  flushed, flusher_neu, compactor, curr_level, files, merged, neu, reader,
                  level, readers, base, seen>>
  BY DEF vars, flusherVars, compactorVars, readerVars
<1>2. TypeInv' /\ LockInv' /\ CopyInv'
  BY <1>1 DEF Inv, TypeInv, TypeOK, LevelInv, Working, Busy, LockInv, CopyInv, NewTableLast,
    WithMerged, List
<1>3. FilesInv' /\ MergedInv' /\ DepthInv'
  BY <1>1 DEF Inv, DataInv, FilesInv, RemovesWhatItMerged, MergedInv, Busy, DepthInv,
    AboutToBump, Working, List
<1>4. CoverInv' /\ OrderInv'
  BY <1>1 DEF Inv, DataInv, CoverInv, OrderInv, HeldFrom, IsInput, InFlight, List, Gens
<1>5. FlightInv' /\ PurgeInv'
  BY <1>1 DEF Inv, DataInv, FlightInv, Below, InFlight, PurgeInv, PurgesOldest, Busy, List, Gens
<1>6. NoLostWakeup'
  BY <1>1 DEF Inv, NoLostWakeup, Waiting, TakenOn, AboutToSignal
<1>7. ReaderInv'
  BY <1>1 DEF Inv, ReaderInv, Searching, Ahead, ToVisit, HeldFrom, IsInput, InFlight, List, Gens
<1>8. QED
  BY <1>2, <1>3, <1>4, <1>5, <1>6, <1>7 DEF Inv, DataInv

(* The inductive invariant holds in every reachable state.                 *)
THEOREM Invariance == Spec => []Inv
<1>1. Init => Inv
  BY ConstantsAssumption, InitInv
<1>2. Inv /\ [Next]_vars => Inv'
  <2>1. ASSUME Inv, Next
        PROVE  Inv'
    <3>1. TypeOK'
      BY <2>1, ConstantsAssumption, TypeStep DEF Inv, DataInv
    <3>2. TypeInv' /\ LockInv' /\ CopyInv'
      BY <2>1, <3>1, ConstantsAssumption, LevelStep, LockStep, CopyStep DEF Inv, DataInv, TypeInv
    <3>3. FilesInv' /\ MergedInv' /\ DepthInv'
      BY <2>1, <3>1, ConstantsAssumption, FilesStep, MergedStep, DepthStep DEF Inv, DataInv
    <3>4. CoverInv' /\ OrderInv' /\ FlightInv' /\ PurgeInv'
      BY <2>1, ConstantsAssumption, CoverStep, OrderStep, FlightStep, PurgeStep DEF Inv, DataInv
    <3>5. NoLostWakeup' /\ ReaderInv'
      BY <2>1, <3>1, ConstantsAssumption, WakeStep, ReaderStep DEF Inv, DataInv
    <3>6. QED
      BY <3>2, <3>3, <3>4, <3>5 DEF Inv, DataInv
  <2>2. QED
    BY <2>1, Stutter
<1>3. QED
  BY <1>1, <1>2, PTL DEF Spec

(* Types are preserved: in particular the levels of a compactor exist, and *)
(* no semaphore goes below zero (DB::compactor, DB::memtableFlush).        *)
THEOREM TypeCorrect == Spec => []TypeOK
<1>1. Inv => TypeOK
  BY DEF Inv, TypeInv
<1>2. QED
  BY <1>1, Invariance, PTL

(* No store of a list overwrites another's update: whatever was published  *)
(* is in a list, and nothing else (readers_at_level, DB.h:44).             *)
THEOREM NoTableGetsLost == Spec => []NothingLost
<1>1. ASSUME Inv
      PROVE  NothingLost
  <2>1. ASSUME NEW l \in Levels, NEW t \in TablesAt(l)
        PROVE  t.gens \subseteq 1..flushed
    BY <1>1, <2>1 DEF Inv, DataInv, CoverInv, TablesAt, Gens, List
  <2>2. ASSUME NEW g \in 1..flushed
        PROVE  \E l \in Levels : \E t \in TablesAt(l) : g \in t.gens
    BY <1>1 DEF Inv, DataInv, CoverInv, HeldFrom, TablesAt, Gens, List
  <2>3. QED
    BY <2>1, <2>2 DEF NothingLost
<1>2. QED
  BY <1>1, Invariance, PTL

(* Within a level older tables come first, and a deeper level is older but *)
(* for the inputs of a merge whose output is in place (DB::compactor).     *)
THEOREM ListsAreChronological == Spec => []Chronological
<1>1. ASSUME Inv, NEW l \in Levels, NEW m \in Levels, l < m,
             NEW i \in 1..Len(List(l)), NEW j \in 1..Len(List(m))
      PROVE  Older(List(m)[j], List(l)[i]) \/ Gens(l, i) \subseteq Gens(m, j)
  <2>1. CASE ~IsInput(l, i)
    BY <1>1, <2>1 DEF Inv, DataInv, OrderInv, Older, Gens, List
  <2>2. CASE IsInput(l, i)
    <3>1. PICK c \in Compactors : InFlight(c) /\ curr_level[c] = l /\ i <= COMPACTION_TRIGGER
      BY <2>2 DEF IsInput
    <3>2. Gens(l, i) \subseteq merged[c].gens
      BY <1>1, <3>1, ConstantsAssumption, MergedGens DEF Inv, DataInv, InFlight, Busy
    <3>3. Below(c, Gens(m, j))
      BY <1>1, <3>1 DEF Inv, DataInv, FlightInv
    <3>4. QED
      BY <3>2, <3>3 DEF Below, Older, Gens, List
  <2>3. QED
    BY <2>1, <2>2
<1>2. ASSUME Inv
      PROVE  Chronological
  <2>1. \A l \in Levels : \A i, j \in 1..Len(List(l)) : i < j => Older(List(l)[i], List(l)[j])
    BY <1>2 DEF Inv, DataInv, OrderInv, Older, Gens, List
  <2>2. QED
    BY <1>1, <1>2, <2>1 DEF Chronological, TablesAt, Gens, List
<1>3. QED
  BY <1>2, Invariance, PTL

(* The tables that a compactor erases are those that it merged             *)
(* (DB.cpp:175).                                                           *)
THEOREM ErasesWhatItMerged == Spec => []RemovesWhatItMerged
<1>1. Inv => RemovesWhatItMerged
  BY DEF Inv, DataInv, FilesInv
<1>2. QED
  BY <1>1, Invariance, PTL

(* Tombstones go only when nothing older is left (DB.cpp:150).             *)
THEOREM PurgesAreSafe == Spec => []PurgeOnlyOldest
<1>1. ASSUME Inv
      PROVE  PurgeOnlyOldest
  BY <1>1 DEF Inv, DataInv, PurgeInv, PurgesOldest, PurgeOnlyOldest, TablesAt, List
<1>2. QED
  BY <1>1, Invariance, PTL

(* No wake-up of a compactor gets lost (start_compactor, DB.cpp:111).      *)
THEOREM PermitsAreNotLost == Spec => []NoLostWakeup
<1>1. Inv => NoLostWakeup
  BY DEF Inv
<1>2. QED
  BY <1>1, Invariance, PTL

(* A search meets the newest first and misses nothing (DB::search).        *)
THEOREM SearchesAreComplete == Spec => []SearchMeetsAllInOrder
<1>1. ASSUME Inv, NEW r \in Readers, NEW g \in seen[r], NEW h \in (g + 1)..base[r]
      PROVE  h \in seen[r]
  BY <1>1 DEF Inv, ReaderInv, Searching
<1>2. ASSUME Inv, NEW r \in Readers, reader[r] = "missed", NEW h \in 1..base[r]
      PROVE  h \in seen[r]
  BY <1>2 DEF Inv, ReaderInv, Searching, Ahead
<1>3. Inv => SearchMeetsAllInOrder
  BY <1>1, <1>2 DEF SearchMeetsAllInOrder
<1>4. QED
  BY <1>3, Invariance, PTL

(* curr_max_level never goes back, although a compactor compares it in one *)
(* step and stores it in another (DB.cpp:188).                             *)
THEOREM MaxLevelGrows == Spec => [][curr_max_level' >= curr_max_level]_vars
<1>1. ASSUME Inv, Next
      PROVE  curr_max_level' >= curr_max_level
  <2>1. curr_max_level \in Nat
    BY <1>1, ConstantsAssumption DEF Inv, TypeInv, TypeOK, Levels, ConstantsAssumption
  <2>2. ASSUME NEW c \in Compactors, BumpMaxLevel(c)
        PROVE  curr_max_level' = curr_max_level + 1
    BY <1>1, <2>2 DEF Inv, DataInv, DepthInv, BumpMaxLevel, CompactorAt
  <2>3. UNCHANGED curr_max_level \/ \E c \in Compactors : BumpMaxLevel(c)
    BY <1>1, FlusherFrame, ReaderFrame, StopFrame DEF Next, Terminated, vars, Compactor,
      CompactorLoop, AcquireStart, CompactorWoken, CheckLowerLevel, PickFiles, MergeFiles,
      LoadForAdd, AddMerged, LoadForRemove, RemoveFiles, AdvanceLevel, RecheckLevel, StartNext
  <2>4. QED
    BY <2>1, <2>2, <2>3
<1>2. Inv /\ Next => curr_max_level' >= curr_max_level
  BY <1>1
<1>3. QED
  BY <1>2, Invariance, PTL DEF Spec
================================================================================
