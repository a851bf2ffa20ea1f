------------------------------- MODULE LSMStore -------------------------------
(***************************************************************************)
(* lsm::DB as a whole: a write on its way from put through the memtables   *)
(* and the levels, while gets look for it in the places it passes.         *)
(*                                                                         *)
(* This module puts together what the others look at one by one, each part *)
(* with as many steps as its neighbours can tell apart.  RingBuffer shows  *)
(* that the writer gets the writes in order, MemtableFlush that a memtable *)
(* changes hands as one step, Compaction that a list does; a memtable and  *)
(* a table map each key to the write they have for it, 0 for none.         *)
(***************************************************************************)
EXTENDS Integers, Sequences, FiniteSets, SequencesExt, FiniteSetsExt

CONSTANTS
  Keys, Readers,
  MAX_LEVEL, COMPACTION_TRIGGER,
  MaxWrites            (* bound                                            *)

ASSUME ConstantsAssumption ==
  /\ MAX_LEVEL \in Nat \ {0} /\ COMPACTION_TRIGGER \in Nat /\ COMPACTION_TRIGGER >= 2
  /\ MaxWrites \in Nat

VARIABLES
  writes,              (* the writes accepted so far                       *)
  completed,           (* how many of them are in a memtable               *)
  full,                (* the active memtable has reached FLUSH_TRIGGER    *)
  active, memtable,
  flusher,             (* its control point                                *)
  readers_at_level,    (* level -> its tables, the oldest first            *)
  curr_max_level,
  merge,               (* level -> the merge of its oldest tables          *)
  (* the gets *)
  reader,              (* control point of each                            *)
  key, target,
  level, readers,      (* where it is, and what is left of the list there  *)
  result

memVars    == <<full, active, memtable>>
writerVars == <<writes, completed>>
levelVars  == <<readers_at_level, curr_max_level, merge>>
getVars    == <<reader, key, target, level, readers, result>>
vars == <<writerVars, memVars, flusher, levelVars, getVars>>

Levels == 0..MAX_LEVEL
Empty == [k \in Keys |-> 0]
Table == [Keys -> 0..MaxWrites]
Idle == [at |-> "idle", table |-> Empty]

Init ==
  /\ writes = <<>> /\ completed = 0
  /\ full = FALSE /\ active = 0 /\ memtable = [i \in {0, 1} |-> Empty]
  /\ flusher = "idle"
  /\ readers_at_level = [l \in Levels |-> <<>>] /\ curr_max_level = 0
  /\ merge = [l \in 0..(MAX_LEVEL - 1) |-> Idle]
  /\ reader = [r \in Readers |-> "idle"] /\ key \in [Readers -> Keys]
  /\ target = [r \in Readers |-> 0] /\ level = [r \in Readers |-> 0]
  /\ readers = [r \in Readers |-> <<>>] /\ result = [r \in Readers |-> 0]

-----------------------------------------------------------------------------
(* DB::put and DB::remove, and the writer.  Here and below, an operator    *)
(* behind a comment that begins with "Mutant" is a wrong version of the    *)
(* definition after it; no specification uses it.                          *)

Put(k, tombstone) ==
  /\ Len(writes) < MaxWrites
  /\ writes' = Append(writes, [key |-> k, tombstone |-> tombstone])
  /\ UNCHANGED <<completed, memVars, flusher, levelVars, getVars>>

Insert ==
  /\ completed < Len(writes) /\ ~full
  /\ completed' = completed + 1
  /\ memtable' = [memtable EXCEPT ![active][writes[completed + 1].key] = completed + 1]
  /\ full' \in BOOLEAN
  /\ UNCHANGED <<writes, active, flusher, levelVars, getVars>>

(* A get holds active_lock from the one memtable to the other.             *)
SwapActive ==
  /\ full /\ flusher = "idle" /\ \A r \in Readers : reader[r] # "inactive"
  /\ full' = FALSE /\ active' = 1 - active /\ flusher' = "flush"
  /\ UNCHANGED <<writerVars, memtable, levelVars, getVars>>

-----------------------------------------------------------------------------
(* The flusher.                                                            *)

AddTable ==
  /\ flusher = "flush" /\ flusher' = "clear"
  /\ readers_at_level' = [readers_at_level EXCEPT ![0] = Append(@, memtable[1 - active])]
  /\ UNCHANGED <<writerVars, memVars, curr_max_level, merge, getVars>>

ClearMemtable ==
  /\ flusher = "clear" /\ flusher' = "idle"
  /\ memtable' = [memtable EXCEPT ![1 - active] = Empty]
  /\ UNCHANGED <<writerVars, full, active, levelVars, getVars>>

-----------------------------------------------------------------------------
(* The compactor that merges the oldest tables of level l.                 *)

IsTombstone(w) == w > 0 /\ writes[w].tombstone

(* The entry that the last of the tables ts with one for k has.            *)
YoungestEntry(k, ts) ==
  LET found == {i \in 1..Len(ts) : ts[i][k] # 0} IN
  IF found = {} THEN 0 ELSE ts[Max(found)][k]

(* Mutant: a level that older tables have passed counts as the last.       *)
PurgesAbove(l) == l + 1 >= curr_max_level
Purges(l) == l = curr_max_level

MergeFiles(l) ==
  /\ merge[l].at = "idle" /\ Len(readers_at_level[l]) >= COMPACTION_TRIGGER
  /\ LET files == SubSeq(readers_at_level[l], 1, COMPACTION_TRIGGER)
         purged == {k \in Keys : Purges(l) /\ IsTombstone(YoungestEntry(k, files))}
     IN merge' = [merge EXCEPT ![l] =
          [at |-> "add",
           table |-> [k \in Keys |-> IF k \in purged THEN 0 ELSE YoungestEntry(k, files)]]]
  /\ UNCHANGED <<writerVars, memVars, flusher, readers_at_level, curr_max_level, getVars>>

AddMerged(l) ==
  /\ merge[l].at = "add" /\ merge' = [merge EXCEPT ![l].at = "remove"]
  /\ readers_at_level' = [readers_at_level EXCEPT ![l + 1] = Append(@, merge[l].table)]
  /\ UNCHANGED <<writerVars, memVars, flusher, curr_max_level, getVars>>

RemoveFiles(l) ==
  /\ merge[l].at = "remove" /\ merge' = [merge EXCEPT ![l] = Idle]
  /\ readers_at_level' =
       [readers_at_level EXCEPT ![l] = SubSeq(@, COMPACTION_TRIGGER + 1, Len(@))]
  /\ curr_max_level' = Max({curr_max_level, l + 1})
  /\ UNCHANGED <<writerVars, memVars, flusher, getVars>>

-----------------------------------------------------------------------------
(* A get: it waits until all writes that were accepted before are applied, *)
(* and takes the first entry it meets.                                     *)

Call(r, k) ==
  /\ reader[r] = "idle" /\ reader' = [reader EXCEPT ![r] = "active"]
  /\ key' = [key EXCEPT ![r] = k] /\ target' = [target EXCEPT ![r] = Len(writes)]
  /\ result' = [result EXCEPT ![r] = 0]
  /\ UNCHANGED <<writerVars, memVars, flusher, levelVars, level, readers>>

(* r goes on to the next place when this one has nothing for its key, and  *)
(* returns what it has otherwise.                                          *)
Looked(r, w, next) ==
  /\ result' = [result EXCEPT ![r] = w]
  /\ reader' = [reader EXCEPT ![r] = IF w = 0 THEN next ELSE "idle"]

LookInActive(r) ==
  /\ reader[r] = "active" /\ completed >= target[r]
  /\ Looked(r, memtable[active][key[r]], "inactive")
  /\ UNCHANGED <<writerVars, memVars, flusher, levelVars, key, target, level, readers>>

(* Mutant: of the two memtables only the active one is looked at.          *)
InactiveSkipped(r) == 0
InInactive(r) == memtable[1 - active][key[r]]

LookInInactive(r) ==
  /\ reader[r] = "inactive" /\ Looked(r, InInactive(r), "load")
  /\ level' = [level EXCEPT ![r] = 0]
  /\ UNCHANGED <<writerVars, memVars, flusher, levelVars, key, target, readers>>

LoadReaders(r) ==
  /\ reader[r] = "load" /\ reader' = [reader EXCEPT ![r] = "tables"]
  /\ readers' = [readers EXCEPT ![r] = readers_at_level[level[r]]]
  /\ UNCHANGED <<writerVars, memVars, flusher, levelVars, key, target, level, result>>

FindKey(r) ==
  /\ reader[r] = "tables" /\ readers[r] # <<>>
  /\ Looked(r, Last(readers[r])[key[r]], "tables")
  /\ readers' = [readers EXCEPT ![r] = IF result'[r] = 0 THEN Front(@) ELSE <<>>]
  /\ UNCHANGED <<writerVars, memVars, flusher, levelVars, key, target, level>>

(* Mutant: one level too many is looked at.                                *)
BeyondLastLevel(r) == level[r] > MAX_LEVEL
AtLastLevel(r) == level[r] = MAX_LEVEL

LeaveLevel(r) ==
  /\ reader[r] = "tables" /\ readers[r] = <<>>
  /\ reader' = [reader EXCEPT ![r] = IF AtLastLevel(r) THEN "idle" ELSE "load"]
  /\ level' = [level EXCEPT ![r] = IF AtLastLevel(r) THEN 0 ELSE @ + 1]
  /\ UNCHANGED <<writerVars, memVars, flusher, levelVars, key, target, readers, result>>

Search(r) ==
  \/ LookInActive(r) \/ LookInInactive(r) \/ LoadReaders(r) \/ FindKey(r) \/ LeaveLevel(r)

-----------------------------------------------------------------------------
Next ==
  \/ \E k \in Keys, tombstone \in BOOLEAN : Put(k, tombstone)
  \/ Insert \/ SwapActive
  \/ AddTable \/ ClearMemtable
  \/ \E l \in DOMAIN merge : MergeFiles(l) \/ AddMerged(l) \/ RemoveFiles(l)
  \/ \E r \in Readers : Search(r) \/ \E k \in Keys : Call(r, k)

Spec == Init /\ [][Next]_vars

-----------------------------------------------------------------------------
(* Properties.                                                             *)

(* Type correctness: places hold writes that were applied, under their     *)
(* key.                                                                    *)
TypeOK ==
  /\ writes \in Seq([key : Keys, tombstone : BOOLEAN]) /\ Len(writes) <= MaxWrites
  /\ completed \in 0..Len(writes) /\ full \in BOOLEAN /\ active \in {0, 1}
  /\ memtable \in [{0, 1} -> Table] /\ readers_at_level \in [Levels -> Seq(Table)]
  /\ curr_max_level \in Levels /\ flusher \in {"idle", "flush", "clear"}
  /\ merge \in [0..(MAX_LEVEL - 1) -> [at : {"idle", "add", "remove"}, table : Table]]
  /\ \A l \in DOMAIN merge : merge[l].at = "remove" =>
       Len(readers_at_level[l]) >= COMPACTION_TRIGGER
  /\ reader \in [Readers -> {"idle", "active", "inactive", "load", "tables"}]
  /\ key \in [Readers -> Keys] /\ target \in [Readers -> 0..MaxWrites]
  /\ level \in [Readers -> Levels] /\ readers \in [Readers -> Seq(Table)]
  /\ result \in [Readers -> 0..MaxWrites]

NewestOf(k, n) == Max({w \in 1..n : writes[w].key = k} \union {0})
Answer(w) == IF IsTombstone(w) THEN 0 ELSE w

(* A get answers as the store stood at one moment between its call and its *)
(* return, whatever memtable or level its key is passing: it never misses  *)
(* a write, finds one that was overwritten before the call, or brings a    *)
(* deleted key back after a merge dropped the tombstone (DB::get).         *)
FreshGets ==
  [][\A r \in Readers : reader[r] # "idle" /\ reader'[r] = "idle" =>
       \E n \in target[r]..Len(writes) : Answer(result'[r]) = Answer(NewestOf(key[r], n))]_vars
===============================================================================
