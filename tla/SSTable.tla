-------------------------------- MODULE SSTable --------------------------------
(***************************************************************************)
(* The files of the store: SSTableBuilder, which writes one entry by       *)
(* entry, SSTableReader, which looks a key up in it or reads it through,   *)
(* the Bloom filter of each, and SSTableMerger, which merges               *)
(* COMPACTION_TRIGGER of them.  Compaction takes for granted what is       *)
(* checked here: that a merged table answers like its inputs asked from    *)
(* the youngest to the oldest.                                             *)
(*                                                                         *)
(* A key is its rank in the order of strings, a file is the sequence of    *)
(* the entries, bookmarks, words and offsets written to it, an offset is   *)
(* the number of these before it, and the value of an entry is the number  *)
(* of the table that it came from: every entry of a key is a different one.*)
(***************************************************************************)
EXTENDS Integers, Sequences, FiniteSets, SequencesExt

CONSTANTS
  Keys,
  NumTables,          (* the tables merged, the oldest first               *)
  INDEX_ENTRY_SIZE,   (* entries to one key of the index                   *)
  num_hashes,
  table_size,         (* bits of the filter                                *)
  word_size,          (* bits of one of its words                          *)
  HashWidth,          (* bits of uint32_t, in which a bit's number is      *)
                      (* passed to the filter: 32                          *)
  Hash1, Hash2        (* the two hashes of each key, of which h2 is odd    *)

ASSUME ConstantsAssumption ==
  /\ Keys \subseteq Nat /\ IsFiniteSet(Keys) /\ NumTables \in Nat \ {0} /\ INDEX_ENTRY_SIZE \in Nat \ {0}
  /\ num_hashes \in Nat /\ table_size \in Nat \ {0} /\ \E n \in 0..table_size : table_size = 2^n
  /\ word_size \in Nat \ {0} /\ table_size % word_size = 0
  /\ HashWidth \in Nat /\ 2^HashWidth \in Nat \ {0}
  /\ Hash1 \in [Keys -> Nat] /\ Hash2 \in [Keys -> Nat]

Tables == 1..NumTables

VARIABLES
  tables,             (* the tables to merge                               *)
  remove_tombstones,
  current_offset,     (* of each: how much of it was read                  *)
  file_data,          (* of each: the entry read and not yet merged        *)
  i, min_index,       (* the loop over the tables, the smallest so far     *)
  merged,             (* the table being written                           *)
  merger              (* control point                                     *)

vars == <<tables, remove_tombstones, current_offset, file_data, i, min_index, merged, merger>>

-----------------------------------------------------------------------------
(* BloomFilter.                                                            *)

EmptyFilter(size) == [size |-> size, bits |-> {}]

(* Of a filter of more than 2^32 bits, as those of the levels from 4 on,   *)
(* the cast leaves only the first 2^32 in use.                             *)
Bits(filter, k) ==
  {((Hash1[k] + n * Hash2[k]) % filter.size) % 2^HashWidth : n \in 0..(num_hashes - 1)}
Add(filter, k) == [filter EXCEPT !.bits = @ \union Bits(filter, k)]
MayContain(filter, k) == Bits(filter, k) \subseteq filter.bits

(* The words of the hash table, bit 0 of each first.                       *)
Words(filter) ==
  [w \in 1..(filter.size \div word_size) |->
    {b \in 0..(word_size - 1) : (w - 1) * word_size + b \in filter.bits}]

-----------------------------------------------------------------------------
(* SSTableBuilder.                                                         *)

Entry(k, tombstone, val) == [key |-> k, is_tombstone |-> tombstone, val |-> val]
EmptyTable == [entries |-> <<>>, index |-> <<>>, filter |-> EmptyFilter(table_size), added |-> 0]

(* Mutant: the counter starts again one entry late.                        *)
NextAddedLate(added) == IF added = INDEX_ENTRY_SIZE THEN 0 ELSE added + 1

NextAdded(added) == IF added + 1 = INDEX_ENTRY_SIZE THEN 0 ELSE added + 1

WriteEntry(table, entry) ==
  [entries |-> Append(table.entries, entry),
   index   |-> IF table.added = 0
               THEN Append(table.index, [key |-> entry.key, offset |-> Len(table.entries)])
               ELSE table.index,
   filter  |-> Add(table.filter, entry.key),
   added   |-> NextAdded(table.added)]

(* SSTableBuilder::flush of a memtable.                                    *)
Flush(entries) ==
  LET table[n \in 0..Len(entries)] ==
        IF n = 0 THEN EmptyTable ELSE WriteEntry(table[n - 1], entries[n])
  IN  table[Len(entries)]

(* SSTableBuilder::writeIndex: what the file is in the end.                *)
File(table) ==
  LET index_offset  == Len(table.entries)
      filter_offset == index_offset + Len(table.index)
  IN  table.entries \o table.index \o Words(table.filter) \o <<filter_offset, index_offset>>

-----------------------------------------------------------------------------
(* SSTableReader.                                                          *)

IndexOffset(file) == Last(file)
FilterOffset(file) == file[Len(file) - 1]

(* The filter of a table that recovery finds: its size is not in the file. *)
FilterOf(words) ==
  [size |-> Len(words) * word_size,
   bits |-> UNION {{(w - 1) * word_size + b : b \in words[w]} : w \in DOMAIN words}]
RecoveredFilter(file) == FilterOf(SubSeq(file, FilterOffset(file) + 1, Len(file) - 2))

(* mmapAndFillIndex finds its way through the file from the end.           *)
Opened(file, filter) ==
  [entries |-> SubSeq(file, 1, IndexOffset(file)),
   index   |-> SubSeq(file, IndexOffset(file) + 1, FilterOffset(file)),
   filter  |-> filter]

(* The two constructors: with the filter of the builder, and from the file *)
(* alone.                                                                  *)
Published(table) == Opened(File(table), table.filter)
Recovered(table) == Opened(File(table), RecoveredFilter(File(table)))

Missing == -1
Deleted == 0
Answer(entry) == IF entry.is_tombstone THEN Deleted ELSE entry.val

(* Mutant: lower_bound where upper_bound is meant.                         *)
IndexedBelow(table, k) == {n \in DOMAIN table.index : table.index[n].key < k}

IndexedUpTo(table, k) == {n \in DOMAIN table.index : table.index[n].key <= k}

BlockEnd(table, idx) ==
  IF idx = Len(table.index) THEN Len(table.entries) ELSE table.index[idx + 1].offset

(* One block is scanned up to the first key that is not smaller.           *)
FindKey(table, k) ==
  LET idx   == Cardinality(IndexedUpTo(table, k))
      block == SubSeq(table.entries, table.index[idx].offset + 1, BlockEnd(table, idx))
      stop  == SelectInSeq(block, LAMBDA entry : entry.key >= k)
  IN  IF ~MayContain(table.filter, k) \/ idx = 0 THEN Missing
      ELSE IF stop = 0 \/ block[stop].key # k THEN Missing
      ELSE Answer(block[stop])

-----------------------------------------------------------------------------
(* SSTableMerger: the loop over the tables, and what it writes after each. *)

NoEntry == [key |-> -1]
NoIndex == 0

(* Every table holds some keys in order, each with a value or a tombstone. *)
Lists ==
  {list \in BoundedSeq([key : Keys, gone : BOOLEAN], Cardinality(Keys)) :
     \A n \in 2..Len(list) : list[n - 1].key < list[n].key}
Contents(t, list) == [n \in DOMAIN list |-> Entry(list[n].key, list[n].gone, t)]

Init ==
  /\ \E lists \in [Tables -> Lists] :
       tables = [t \in Tables |-> Flush(Contents(t, lists[t]))]
  /\ remove_tombstones \in BOOLEAN
  /\ current_offset = [t \in Tables |-> 0]
  /\ file_data = [t \in Tables |-> NoEntry]
  /\ i = 1 /\ min_index = NoIndex
  /\ merged = EmptyTable
  /\ merger = "examine"

HasNext(t) == current_offset[t] < Len(tables[t].entries)
GetNext(t) == tables[t].entries[current_offset[t] + 1]

(* The entry of table i: the one it still has, or the next one.            *)
Candidate ==
  IF file_data[i] # NoEntry THEN file_data[i] ELSE IF HasNext(i) THEN GetNext(i) ELSE NoEntry

(* Mutant: the entry of the older table stays.                             *)
SupersededNever(entry) == {}

(* Of two entries of a key the one of the younger table is kept.           *)
Superseded(entry) ==
  IF min_index # NoIndex /\ file_data[min_index].key = entry.key THEN {min_index} ELSE {}

Examine ==
  /\ merger = "examine" /\ merger' = IF i = NumTables THEN "write" ELSE "examine"
  /\ i' = i + 1
  /\ current_offset' = IF file_data[i] = NoEntry /\ HasNext(i)
                       THEN [current_offset EXCEPT ![i] = @ + 1] ELSE current_offset
  /\ LET entry == Candidate IN
     /\ file_data' = [t \in Tables |-> IF entry # NoEntry /\ t \in Superseded(entry) THEN NoEntry
                                       ELSE IF t = i THEN entry ELSE file_data[t]]
     /\ min_index' = IF entry # NoEntry
                        /\ (min_index = NoIndex \/ file_data[min_index].key >= entry.key)
                     THEN i ELSE min_index
  /\ UNCHANGED <<tables, remove_tombstones, merged>>

(* Mutant: a table that is not the oldest loses its tombstones as well.    *)
IsDroppedAlways(entry) == entry.is_tombstone

IsDropped(entry) == remove_tombstones /\ entry.is_tombstone

WriteSmallest ==
  /\ merger = "write" /\ merger' = "examine"
  /\ min_index # NoIndex
  /\ merged' = IF IsDropped(file_data[min_index]) THEN merged
               ELSE WriteEntry(merged, file_data[min_index])
  /\ file_data' = [file_data EXCEPT ![min_index] = NoEntry]
  /\ i' = 1 /\ min_index' = NoIndex
  /\ UNCHANGED <<tables, remove_tombstones, current_offset>>

WriteIndex ==
  /\ merger = "write" /\ merger' = "done"
  /\ min_index = NoIndex
  /\ UNCHANGED <<tables, remove_tombstones, current_offset, file_data, i, min_index, merged>>

Terminated == merger = "done" /\ UNCHANGED vars

Next == Examine \/ WriteSmallest \/ WriteIndex \/ Terminated

Spec == Init /\ [][Next]_vars

-----------------------------------------------------------------------------
TypeOK ==
  /\ remove_tombstones \in BOOLEAN
  /\ \A t \in Tables : current_offset[t] \in 0..Len(tables[t].entries)
  /\ \A t \in Tables : file_data[t] = NoEntry \/ file_data[t] \in ToSet(tables[t].entries)
  /\ i \in 1..(NumTables + 1) /\ min_index \in Tables \union {NoIndex}
  /\ min_index # NoIndex => file_data[min_index] # NoEntry
  /\ merged.added \in 0..(INDEX_ENTRY_SIZE - 1)
  /\ merger \in {"examine", "write", "done"}

-----------------------------------------------------------------------------
(* Properties.                                                             *)

(* What the tables hold of a key, as a map and not as a file.              *)
Holding(k) == {t \in Tables : \E entry \in ToSet(tables[t].entries) : entry.key = k}
Youngest(k) ==
  LET t == CHOOSE t \in Holding(k) : \A u \in Holding(k) : u <= t
  IN  CHOOSE entry \in ToSet(tables[t].entries) : entry.key = k

(* The keys of a complete merge, and those that are still to be read.      *)
Survivors == {k \in Keys : Holding(k) # {} /\ ~IsDropped(Youngest(k))}
Pending ==
  {k \in Keys : \E t \in Tables :
     \/ file_data[t] # NoEntry /\ file_data[t].key = k
     \/ \E n \in (current_offset[t] + 1)..Len(tables[t].entries) : tables[t].entries[n].key = k}

(* At every moment of a merge the table written so far holds, in order,    *)
(* the youngest entry of exactly the keys that survive and are no longer   *)
(* pending, and these are smaller than those that are; nothing is written  *)
(* twice or dropped because its table ran ahead of the others.             *)
MergeKeepsYoungest ==
  /\ ToSet(merged.entries) = {Youngest(k) : k \in Survivors \ Pending}
  /\ \A n \in 2..Len(merged.entries) : merged.entries[n - 1].key < merged.entries[n].key
  /\ \A entry \in ToSet(merged.entries) : \A k \in Pending : entry.key < k
  /\ merger = "done" => Pending = {}

(* A lookup in a file, through its filter, its index and one block, finds  *)
(* the entry of the key exactly when there is one, when the builder hands  *)
(* over the filter as well as when recovery reads it from the file.        *)
LookupIsExact(table) ==
  \A k \in Keys, opened \in {Published(table), Recovered(table)} :
    LET held == {entry \in ToSet(table.entries) : entry.key = k} IN
    FindKey(opened, k) = IF held = {} THEN Missing ELSE Answer(CHOOSE entry \in held : TRUE)
LookupsAreExact ==
  /\ merger = "done" => LookupIsExact(merged)
  /\ merger = "examine" => \A t \in Tables : LookupIsExact(tables[t])

(* A finished merge answers every lookup as its inputs did when they were  *)
(* asked from the youngest to the oldest; only where it dropped tombstones *)
(* a deleted key is missing instead.                                       *)
Lookup(k) ==
  LET answering == {t \in Tables : FindKey(Published(tables[t]), k) # Missing} IN
  IF answering = {} THEN Missing
  ELSE FindKey(Published(tables[CHOOSE t \in answering : \A u \in answering : u <= t]), k)
MergeAnswersAsInputs ==
  merger = "done" => \A k \in Keys :
    FindKey(Published(merged), k) =
      IF remove_tombstones /\ Lookup(k) = Deleted THEN Missing ELSE Lookup(k)
=============================================================================
