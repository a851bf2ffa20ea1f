---------------------------- MODULE SSTable_proofs ----------------------------
(***************************************************************************)
(* Proofs about SSTable, for any keys, any number and contents of tables,  *)
(* any size of block and filter and any hashes: a file answers every       *)
(* lookup exactly, and a merge keeps the youngest entry of each key.       *)
(*                                                                         *)
(* What a builder has written so far is WellBuilt; that alone makes a file *)
(* answer its lookups.  The loop over the tables keeps RoundInv: of the    *)
(* tables it has seen none holds a smaller entry than the smallest it      *)
(* knows, and an equal one only in the same place.                         *)
(***************************************************************************)
EXTENDS SSTable, DataLemmas, SequenceTheorems

-----------------------------------------------------------------------------
(* What a builder has written so far.                                      *)

TableEntry == [key : Keys, is_tombstone : BOOLEAN, val : Tables]
IndexEntry == [key : Keys, offset : Nat]
Builder ==
  [entries : Seq(TableEntry), index : Seq(IndexEntry),
   filter : [size : {table_size}, bits : SUBSET (0..(table_size - 1))],
   added : 0..(INDEX_ENTRY_SIZE - 1)]

Ascending(entries) == \A m, n \in 1..Len(entries) : m < n => entries[m].key < entries[n].key

(* The first entry is in the index, the index is in order, and each of its *)
(* entries leads to an entry of the same key.                              *)
IndexIsRight(table) ==
  /\ Len(table.index) = 0 => Len(table.entries) = 0 /\ table.added = 0
  /\ Len(table.index) > 0 => table.index[1].offset = 0
  /\ \A j \in 1..Len(table.index) :
       /\ table.index[j].offset < Len(table.entries)
       /\ table.index[j].key = table.entries[table.index[j].offset + 1].key
  /\ \A j, l \in 1..Len(table.index) : j < l => table.index[j].offset < table.index[l].offset

FilterIsRight(table) == \A n \in 1..Len(table.entries) : MayContain(table.filter, table.entries[n].key)

WellBuilt(table) ==
  table \in Builder /\ Ascending(table.entries) /\ IndexIsRight(table) /\ FilterIsRight(table)

LEMMA Constants_ ==
  /\ Keys \subseteq Nat /\ NumTables \in Nat \ {0} /\ INDEX_ENTRY_SIZE \in Nat \ {0}
  /\ num_hashes \in Nat /\ table_size \in Nat \ {0} /\ word_size \in Nat \ {0}
  /\ table_size % word_size = 0 /\ \A k \in Keys : Hash1[k] \in Nat /\ Hash2[k] \in Nat
  /\ IsFiniteSet(Keys) /\ Tables = 1..NumTables /\ 2^HashWidth \in Nat \ {0}
  BY ConstantsAssumption DEF ConstantsAssumption, Tables

LEMMA BuilderFacts ==
  ASSUME NEW table, WellBuilt(table)
  PROVE  /\ table.entries \in Seq(TableEntry) /\ table.index \in Seq(IndexEntry)
         /\ Len(table.entries) \in Nat /\ Len(table.index) \in Nat
         /\ table.filter \in [size : {table_size}, bits : SUBSET (0..(table_size - 1))]
         /\ table.filter.size = table_size /\ table.filter.bits \subseteq 0..(table_size - 1)
         /\ table.added \in 0..(INDEX_ENTRY_SIZE - 1)
         /\ \A n \in 1..Len(table.entries) :
              table.entries[n] \in TableEntry /\ table.entries[n].key \in Keys
              /\ table.entries[n].key \in Nat
         /\ \A j \in 1..Len(table.index) :
              table.index[j].key \in Nat /\ table.index[j].offset \in Nat
<1>1. /\ table.entries \in Seq(TableEntry) /\ table.index \in Seq(IndexEntry)
      /\ table.filter \in [size : {table_size}, bits : SUBSET (0..(table_size - 1))]
      /\ table.added \in 0..(INDEX_ENTRY_SIZE - 1)
  BY DEF WellBuilt, Builder
<1>2. \A e \in TableEntry : e.key \in Keys /\ e.key \in Nat
  BY Constants_ DEF TableEntry
<1>3. \A e \in IndexEntry : e.key \in Nat /\ e.offset \in Nat
  BY Constants_ DEF IndexEntry
<1>4. \A n \in 1..Len(table.entries) : table.entries[n] \in TableEntry
  BY <1>1
<1>5. \A j \in 1..Len(table.index) : table.index[j] \in IndexEntry
  BY <1>1
<1>6. QED
  BY <1>1, <1>2, <1>3, <1>4, <1>5

LEMMA ModShrinks ==
  ASSUME NEW x \in Nat, NEW m \in Nat \ {0}
  PROVE  x % m \in 0..x
<1>1. x % m \in 0..(m - 1)
  BY ModParts
<1>2. CASE x < m
  BY <1>2
<1>3. CASE x >= m
  BY <1>1, <1>3
<1>4. QED
  BY <1>2, <1>3

(* The cast takes the number of a bit to one of the filter again.          *)
LEMMA BitsFacts ==
  ASSUME NEW k \in Keys, NEW filter, filter.size = table_size
  PROVE  Bits(filter, k) \subseteq 0..(table_size - 1)
<1>1. ASSUME NEW n \in 0..(num_hashes - 1)
      PROVE  ((Hash1[k] + n * Hash2[k]) % filter.size) % 2^HashWidth \in 0..(table_size - 1)
  <2>1. PICK a \in Nat, b \in Nat : a = Hash1[k] /\ b = Hash2[k]
    BY Constants_
  <2>2. PICK c \in Nat : c = n * b
    BY Constants_
  <2>3. PICK x \in Nat : x = a + c
    OBVIOUS
  <2>4. PICK m \in Nat \ {0}, w \in Nat \ {0} : m = table_size /\ w = 2^HashWidth
    BY Constants_
  <2>5. x % m \in 0..(m - 1)
    <3>1. \A z \in Int : z % m \in 0..(m - 1)
      BY ModParts
    <3>2. QED
      BY <3>1
  <2>6. PICK y \in 0..(m - 1) : y = x % m
    BY <2>5
  <2>7. y % w \in 0..y
    BY ModShrinks
  <2>8. y % w \in 0..(m - 1)
    BY <2>7
  <2>9. QED
    BY <2>1, <2>2, <2>3, <2>4, <2>6, <2>8
<1>2. QED
  BY <1>1 DEF Bits

LEMMA EmptyIsWellBuilt == WellBuilt(EmptyTable) /\ EmptyTable.entries = <<>>
<1>1. EmptyTable \in Builder
  <2>1. 0 \in 0..(INDEX_ENTRY_SIZE - 1)
    BY Constants_
  <2>2. EmptyFilter(table_size) \in [size : {table_size}, bits : SUBSET (0..(table_size - 1))]
    BY DEF EmptyFilter
  <2>3. <<>> \in Seq(TableEntry) /\ <<>> \in Seq(IndexEntry)
    OBVIOUS
  <2>4. QED
    BY <2>1, <2>2, <2>3 DEF EmptyTable, Builder
<1>2. EmptyTable.entries = <<>> /\ EmptyTable.index = <<>> /\ EmptyTable.added = 0
  BY DEF EmptyTable
<1>3. Ascending(EmptyTable.entries) /\ IndexIsRight(EmptyTable) /\ FilterIsRight(EmptyTable)
  BY <1>2 DEF Ascending, IndexIsRight, FilterIsRight
<1>4. QED
  BY <1>1, <1>2, <1>3 DEF WellBuilt

(* SSTableBuilder: an entry with a greater key than all before it.         *)
LEMMA WriteEntryKeeps ==
  ASSUME NEW table, WellBuilt(table), NEW entry \in TableEntry,
         \A n \in 1..Len(table.entries) : table.entries[n].key < entry.key,
         NEW new, new = WriteEntry(table, entry)
  PROVE  WellBuilt(new) /\ new.entries = Append(table.entries, entry)
<1>1. /\ table.entries \in Seq(TableEntry) /\ table.index \in Seq(IndexEntry)
      /\ table.filter \in [size : {table_size}, bits : SUBSET (0..(table_size - 1))]
      /\ table.filter.size = table_size /\ table.filter.bits \subseteq 0..(table_size - 1)
      /\ table.added \in 0..(INDEX_ENTRY_SIZE - 1)
      /\ \A n \in 1..Len(table.entries) : table.entries[n].key \in Keys
  BY BuilderFacts
<1>2. PICK e \in Seq(TableEntry), x \in Seq(IndexEntry) : e = table.entries /\ x = table.index
  BY <1>1
<1>3. PICK len \in Nat, last \in Nat : len = Len(e) /\ last = Len(x)
  BY <1>2
<1>4. PICK e1 : e1 = Append(e, entry)
  OBVIOUS
<1>5. /\ e1 \in Seq(TableEntry) /\ Len(e1) = len + 1 /\ e1[len + 1] = entry
      /\ \A n \in 1..len : e1[n] = e[n]
  BY <1>3, <1>4
<1>6. PICK bookmark \in IndexEntry : bookmark = [key |-> entry.key, offset |-> len]
  BY <1>3 DEF IndexEntry, TableEntry
<1>7. PICK x1 : x1 = IF table.added = 0 THEN Append(x, bookmark) ELSE x
  OBVIOUS
<1>8. /\ x1 \in Seq(IndexEntry)
      /\ table.added = 0 => Len(x1) = last + 1 /\ x1[last + 1] = bookmark
      /\ table.added # 0 => Len(x1) = last
      /\ \A j \in 1..last : x1[j] = x[j]
  BY <1>3, <1>7
<1>9. PICK f1 : f1 = Add(table.filter, entry.key)
  OBVIOUS
<1>10. entry.key \in Keys
  BY DEF TableEntry
<1>11. /\ f1 \in [size : {table_size}, bits : SUBSET (0..(table_size - 1))]
       /\ f1.size = table_size
       /\ f1.bits = table.filter.bits \union Bits(table.filter, entry.key)
  <2>1. Bits(table.filter, entry.key) \subseteq 0..(table_size - 1)
    BY <1>1, <1>10, BitsFacts
  <2>2. QED
    BY <1>1, <1>9, <2>1 DEF Add
<1>12. NextAdded(table.added) \in 0..(INDEX_ENTRY_SIZE - 1)
  BY <1>1, Constants_ DEF NextAdded
<1>13. new = [entries |-> e1, index |-> x1, filter |-> f1, added |-> NextAdded(table.added)]
  BY <1>2, <1>3, <1>4, <1>6, <1>7, <1>9 DEF WriteEntry
<1>14. /\ new \in Builder
       /\ new.entries = e1 /\ new.index = x1 /\ new.filter = f1
       /\ new.added = NextAdded(table.added)
  BY <1>5, <1>8, <1>11, <1>12, <1>13 DEF Builder
<1>15. Ascending(e1)
  <2>1. ASSUME NEW m \in 1..(len + 1), NEW n \in 1..(len + 1), m < n
        PROVE  e1[m].key < e1[n].key
    <3>1. m \in 1..len /\ (n \in 1..len \/ n = len + 1)
      BY <2>1
    <3>2. QED
      BY <1>2, <1>3, <1>5, <2>1, <3>1 DEF WellBuilt, Ascending
  <2>2. QED
    BY <1>5, <2>1 DEF Ascending
<1>16. IndexIsRight(new)
  <2>1. /\ last = 0 => len = 0 /\ table.added = 0
        /\ last > 0 => x[1].offset = 0
        /\ \A j \in 1..last : x[j].offset < len /\ x[j].key = e[x[j].offset + 1].key
        /\ \A j, l \in 1..last : j < l => x[j].offset < x[l].offset
        /\ \A j \in 1..last : x[j].offset \in Nat
    BY <1>2, <1>3, BuilderFacts DEF WellBuilt, IndexIsRight
  <2>2. PICK last1 \in Nat : last1 = Len(x1)
    BY <1>8
  <2>3. last1 > 0 /\ x1[1].offset = 0
    <3>1. CASE last = 0
      <4>1. len = 0 /\ last1 = last + 1 /\ x1[last + 1] = bookmark /\ last + 1 = 1
        BY <1>8, <2>1, <2>2, <3>1
      <4>2. x1[1] = bookmark /\ bookmark.offset = 0
        BY <1>6, <4>1
      <4>3. QED
        BY <4>1, <4>2
    <3>2. CASE last > 0
      BY <1>8, <2>1, <2>2, <3>2
    <3>3. QED
      BY <3>1, <3>2
  <2>4. ASSUME NEW j \in 1..last1
        PROVE  x1[j].offset < len + 1 /\ x1[j].key = e1[x1[j].offset + 1].key
    <3>1. CASE j \in 1..last
      <4>1. x1[j] = x[j] /\ x[j].offset < len /\ x[j].offset \in Nat
            /\ x[j].key = e[x[j].offset + 1].key
        BY <1>8, <2>1, <3>1
      <4>2. x[j].offset + 1 \in 1..len
        BY <4>1
      <4>3. QED
        BY <1>5, <4>1, <4>2, SMTT(30)
    <3>2. CASE j \notin 1..last
      <4>1. j = last + 1 /\ x1[j] = bookmark
        BY <1>8, <2>2, <3>2
      <4>2. QED
        BY <1>5, <1>6, <4>1
    <3>3. QED
      BY <3>1, <3>2
  <2>5. ASSUME NEW j \in 1..last1, NEW l \in 1..last1, j < l
        PROVE  x1[j].offset < x1[l].offset
    <3>1. j \in 1..last /\ x1[j] = x[j] /\ x[j].offset < len
      BY <1>8, <2>1, <2>2, <2>5
    <3>2. CASE l \in 1..last
      BY <1>8, <2>1, <2>5, <3>1, <3>2
    <3>3. CASE l \notin 1..last
      <4>1. l = last + 1 /\ x1[l] = bookmark
        BY <1>8, <2>2, <3>3
      <4>2. QED
        BY <1>6, <3>1, <4>1
    <3>4. QED
      BY <3>2, <3>3
  <2>6. QED
    BY <1>5, <1>14, <2>2, <2>3, <2>4, <2>5 DEF IndexIsRight
<1>17. FilterIsRight(new)
  <2>1. \A k : Bits(f1, k) = Bits(table.filter, k)
    BY <1>1, <1>11 DEF Bits
  <2>2. ASSUME NEW n \in 1..(len + 1)
        PROVE  MayContain(f1, e1[n].key)
    <3>1. CASE n \in 1..len
      BY <1>2, <1>3, <1>5, <1>11, <2>1, <3>1 DEF WellBuilt, FilterIsRight, MayContain
    <3>2. CASE n = len + 1
      BY <1>5, <1>11, <2>1, <3>2 DEF MayContain
    <3>3. QED
      BY <3>1, <3>2
  <2>3. QED
    BY <1>5, <1>14, <2>2 DEF FilterIsRight
<1>18. QED
  BY <1>2, <1>4, <1>14, <1>15, <1>16, <1>17 DEF WellBuilt

-----------------------------------------------------------------------------
(* SSTableBuilder::flush, a recursion over the entries.                    *)

IsFlush(s, g) ==
  g = [n \in 0..Len(s) |-> IF n = 0 THEN EmptyTable ELSE WriteEntry(g[n - 1], s[n])]

LEMMA FlushExists ==
  ASSUME NEW s, Len(s) \in Nat
  PROVE  \E g : IsFlush(s, g) /\ Flush(s) = g[Len(s)]
<1> DEFINE T == {m \in Nat : \E g : g = [n \in 0..m |-> IF n = 0 THEN EmptyTable
                                                       ELSE WriteEntry(g[n - 1], s[n])]}
<1>1. 0 \in T
  <2>1. PICK g : g = [n \in 0..0 |-> EmptyTable]
    OBVIOUS
  <2>2. g = [n \in 0..0 |-> IF n = 0 THEN EmptyTable ELSE WriteEntry(g[n - 1], s[n])]
    BY <2>1
  <2>3. QED
    BY <2>2
<1>2. ASSUME NEW m \in 0..(Len(s) - 1), m \in T
      PROVE  m + 1 \in T
  <2>1. PICK g : g = [n \in 0..m |-> IF n = 0 THEN EmptyTable ELSE WriteEntry(g[n - 1], s[n])]
    BY <1>2
  <2>2. PICK h : h = [n \in 0..(m + 1) |-> IF n = m + 1 THEN WriteEntry(g[m], s[m + 1]) ELSE g[n]]
    OBVIOUS
  <2>3. ASSUME NEW n \in 0..(m + 1)
        PROVE  h[n] = IF n = 0 THEN EmptyTable ELSE WriteEntry(h[n - 1], s[n])
    <3>1. CASE n = m + 1
      <4>1. n # 0 /\ n - 1 = m /\ m \in 0..(m + 1) /\ m # m + 1
        BY <3>1
      <4>2. h[m] = g[m] /\ h[n] = WriteEntry(g[m], s[m + 1])
        BY <2>2, <3>1, <4>1
      <4>3. QED
        BY <3>1, <4>1, <4>2
    <3>2. CASE n # m + 1
      <4>1. n \in 0..m /\ h[n] = g[n]
        BY <2>2, <3>2
      <4>2. n = 0 => h[n] = EmptyTable
        BY <2>1, <4>1
      <4>3. n # 0 => h[n - 1] = g[n - 1] /\ g[n] = WriteEntry(g[n - 1], s[n])
        BY <2>1, <2>2, <4>1
      <4>4. QED
        BY <4>1, <4>2, <4>3
    <3>3. QED
      BY <3>1, <3>2
  <2>4. h = [n \in 0..(m + 1) |-> IF n = 0 THEN EmptyTable ELSE WriteEntry(h[n - 1], s[n])]
    BY <2>2, <2>3
  <2>5. QED
    BY <2>4
<1>3. 0..Len(s) \subseteq T
  <2> HIDE DEF T
  <2>1. QED
    BY <1>1, <1>2, InductionTo
<1>4. \E g : IsFlush(s, g)
  BY <1>3 DEF IsFlush
<1>5. QED
  BY <1>4 DEF Flush, IsFlush

LEMMA FlushBuilds ==
  ASSUME NEW s \in Seq(TableEntry), Ascending(s)
  PROVE  WellBuilt(Flush(s)) /\ Flush(s).entries = s
<1>1. PICK len \in Nat : len = Len(s)
  OBVIOUS
<1>2. PICK g : IsFlush(s, g) /\ Flush(s) = g[len]
  BY <1>1, FlushExists
<1>3. g[0] = EmptyTable /\ \A n \in 0..(len - 1) : g[n + 1] = WriteEntry(g[n], s[n + 1])
  <2>1. \A n \in 0..len : g[n] = IF n = 0 THEN EmptyTable ELSE WriteEntry(g[n - 1], s[n])
    BY <1>1, <1>2 DEF IsFlush
  <2>2. \A n \in 0..(len - 1) : n + 1 \in 0..len /\ n + 1 # 0 /\ (n + 1) - 1 = n
    OBVIOUS
  <2>3. QED
    BY <1>1, <2>1, <2>2
<1> DEFINE Good(n) == /\ WellBuilt(g[n]) /\ Len(g[n].entries) = n
                      /\ \A m \in 1..n : g[n].entries[m] = s[m]
           T == {n \in 0..len : Good(n)}
<1>4. 0 \in T
  BY <1>1, <1>3, EmptyIsWellBuilt
<1>5. ASSUME NEW n \in 0..(len - 1), n \in T
      PROVE  n + 1 \in T
  <2>1. PICK table : table = g[n]
    OBVIOUS
  <2>2. PICK entry \in TableEntry : entry = s[n + 1]
    BY <1>1
  <2>3. WellBuilt(table) /\ Len(table.entries) = n /\ \A m \in 1..n : table.entries[m] = s[m]
    BY <1>5, <2>1
  <2>4. \A m \in 1..n : s[m].key < s[n + 1].key
    BY <1>1 DEF Ascending
  <2>5. \A m \in 1..Len(table.entries) : table.entries[m].key < entry.key
    BY <2>2, <2>3, <2>4
  <2>6. PICK new : new = g[n + 1] /\ new = WriteEntry(table, entry)
    BY <1>3, <2>1, <2>2
  <2>7. WellBuilt(new) /\ new.entries = Append(table.entries, entry)
    BY <2>3, <2>5, <2>6, WriteEntryKeeps
  <2>8. table.entries \in Seq(TableEntry)
    BY <2>3, BuilderFacts
  <2>9. Len(new.entries) = n + 1 /\ \A m \in 1..(n + 1) : new.entries[m] = s[m]
    BY <2>2, <2>3, <2>7, <2>8
  <2>10. Good(n + 1) /\ n + 1 \in 0..len
    BY <2>6, <2>7, <2>9
  <2>11. QED
    BY <2>10
<1>6. len \in T
  <2>1. 0..len \subseteq T
    <3> HIDE DEF T
    <3>1. QED
      BY <1>4, <1>5, InductionTo
  <2>2. QED
    BY <2>1
<1>7. PICK e : e = g[len].entries /\ Len(e) = len /\ \A m \in 1..len : e[m] = s[m]
  BY <1>6
<1>8. e \in Seq(TableEntry)
  BY <1>6, <1>7, BuilderFacts
<1>9. e = s
  BY <1>1, <1>7, <1>8, SeqEqual
<1>10. QED
  BY <1>2, <1>6, <1>7, <1>9

-----------------------------------------------------------------------------
(* The file, and what is found in it again.                                *)

(* A part of a sequence that has the elements of another is that sequence. *)
LEMMA Slice ==
  ASSUME NEW S, NEW s \in Seq(S), NEW t, NEW a \in Nat,
         \A n \in 1..Len(s) : t[a + n] = s[n]
  PROVE  SubSeq(t, a + 1, a + Len(s)) = s
<1>1. PICK len \in Nat : len = Len(s)
  OBVIOUS
<1>2. PICK lo \in Int, hi \in Int : lo = a + 1 /\ hi = a + len
  OBVIOUS
<1>3. \A n \in lo..hi : t[n] \in S
  <2>1. TAKE n \in lo..hi
  <2>2. PICK m \in 1..len : m = n - a /\ n = a + m
    BY <1>2
  <2>3. QED
    BY <1>1, <2>2, SMTT(30)
<1>4. /\ SubSeq(t, lo, hi) \in Seq(S)
      /\ Len(SubSeq(t, lo, hi)) = IF lo <= hi THEN hi - lo + 1 ELSE 0
      /\ \A n \in 1..(hi - lo + 1) : SubSeq(t, lo, hi)[n] = t[lo + n - 1]
  BY <1>3, SubSeqProperties
<1>5. PICK u \in Seq(S) : u = SubSeq(t, lo, hi)
  BY <1>4
<1>6. Len(u) = len /\ \A n \in 1..len : u[n] = t[a + n]
  <2>1. hi - lo + 1 = len /\ \A n \in 1..len : lo + n - 1 = a + n
    BY <1>2
  <2>2. QED
    BY <1>2, <1>4, <1>5, <2>1
<1>7. u = s
  BY <1>1, <1>6, SeqEqual
<1>8. QED
  BY <1>1, <1>2, <1>5, <1>7

Laid(f, e, x, w, p, q) ==
  /\ f[Len(f)] = q /\ f[Len(f) - 1] = p
  /\ SubSeq(f, 1, Len(e)) = e
  /\ SubSeq(f, Len(e) + 1, Len(e) + Len(x)) = x
  /\ SubSeq(f, Len(e) + Len(x) + 1, Len(f) - 2) = w

LEMMA FileParts ==
  ASSUME NEW S, NEW e \in Seq(S), NEW x \in Seq(S), NEW w \in Seq(S), NEW p \in S, NEW q \in S,
         NEW f, f = e \o x \o w \o <<p, q>>
  PROVE  Laid(f, e, x, w, p, q)
<1>1. PICK a \in Nat, b \in Nat, c \in Nat : a = Len(e) /\ b = Len(x) /\ c = Len(w)
  OBVIOUS
<1>2. PICK g \in Seq(S) : /\ g = e \o x /\ Len(g) = a + b /\ \A n \in 1..a : g[n] = e[n]
                          /\ \A n \in 1..b : g[a + n] = x[n]
  <2>1. e \o x \in Seq(S) /\ Len(e \o x) = a + b
    BY <1>1
  <2>2. \A n \in 1..a : (e \o x)[n] = e[n]
    BY <1>1
  <2>3. \A n \in 1..b : (e \o x)[a + n] = x[n]
    BY <1>1
  <2>4. QED
    BY <2>1, <2>2, <2>3
<1>3. PICK h \in Seq(S) : /\ h = g \o w /\ Len(h) = a + b + c /\ \A n \in 1..(a + b) : h[n] = g[n]
                          /\ \A n \in 1..c : h[a + b + n] = w[n]
  <2>1. g \o w \in Seq(S) /\ Len(g \o w) = a + b + c
    BY <1>1, <1>2
  <2>2. \A n \in 1..(a + b) : (g \o w)[n] = g[n]
    BY <1>2
  <2>3. \A n \in 1..c : (g \o w)[a + b + n] = w[n]
    BY <1>1, <1>2
  <2>4. QED
    BY <2>1, <2>2, <2>3
<1>4. PICK d \in Seq(S) : d = <<p, q>> /\ Len(d) = 2 /\ d[1] = p /\ d[2] = q
  <2>1. <<p, q>> \in Seq(S)
    OBVIOUS
  <2>2. QED
    BY <2>1
<1>5. PICK k \in Nat : k = a + b + c
  OBVIOUS
<1>6. /\ f \in Seq(S) /\ Len(f) = k + 2 /\ \A n \in 1..k : f[n] = h[n]
      /\ f[k + 1] = p /\ f[k + 2] = q
  <2>1. f = h \o d /\ Len(h) = k
    BY <1>2, <1>3, <1>4, <1>5
  <2>2. f \in Seq(S) /\ Len(f) = k + 2 /\ \A n \in 1..k : f[n] = h[n]
    <3>1. h \in Seq(S) /\ d \in Seq(S) /\ Len(d) = 2
      BY <1>4
    <3>2. f \in Seq(S) /\ Len(f) = k + 2
      <4>1. h \o d \in Seq(S) /\ Len(h \o d) = Len(h) + Len(d)
        BY ONLY <3>1, ConcatProperties
      <4>2. QED
        BY ONLY <2>1, <3>1, <4>1
    <3>3. \A n \in 1..k : f[n] = h[n]
      BY ONLY <2>1, <3>1, ConcatProperties
    <3>4. QED
      BY <3>2, <3>3
  <2>3. f[k + 1] = d[1] /\ f[k + 2] = d[2]
    BY <1>4, <2>1
  <2>4. QED
    BY <1>4, <2>2, <2>3
<1>7. SubSeq(f, 1, a) = e
  <2>1. \A n \in 1..a : n \in 1..k /\ n \in 1..(a + b) /\ 0 + n = n
    BY <1>5
  <2>2. \A n \in 1..Len(e) : f[0 + n] = e[n]
    BY <1>1, <1>2, <1>3, <1>6, <2>1
  <2>3. SubSeq(f, 0 + 1, 0 + Len(e)) = e
    BY <2>2, Slice
  <2>4. 0 + 1 = 1 /\ 0 + Len(e) = a
    BY <1>1
  <2>5. QED
    BY <2>3, <2>4
<1>8. SubSeq(f, a + 1, a + b) = x
  <2>1. \A n \in 1..b : a + n \in 1..k /\ a + n \in 1..(a + b)
    BY <1>5
  <2>2. \A n \in 1..Len(x) : f[a + n] = x[n]
    BY <1>1, <1>2, <1>3, <1>6, <2>1
  <2>3. QED
    BY <1>1, <2>2, Slice
<1>9. SubSeq(f, a + b + 1, k) = w
  <2>1. PICK m \in Nat : m = a + b /\ m + c = k
    BY <1>5
  <2>2. \A n \in 1..c : m + n \in 1..k
    BY <2>1
  <2>3. \A n \in 1..Len(w) : f[m + n] = w[n]
    BY <1>1, <1>3, <1>6, <2>1, <2>2
  <2>4. SubSeq(f, m + 1, m + Len(w)) = w
    BY <2>3, Slice
  <2>5. QED
    BY <1>1, <2>1, <2>4
<1>10. QED
  <2>1. Len(f) - 1 = k + 1 /\ Len(f) - 2 = k
    BY <1>5, <1>6
  <2>2. QED
    BY <1>1, <1>5, <1>6, <1>7, <1>8, <1>9, <2>1 DEF Laid

(* The words of the filter are all that recovery has of it, and enough.    *)
LEMMA WordsFacts ==
  ASSUME NEW filter, filter \in [size : {table_size}, bits : SUBSET (0..(table_size - 1))],
         NEW words, words = Words(filter)
  PROVE  /\ words \in Seq(SUBSET Nat) /\ Len(words) * word_size = table_size
         /\ UNION {{(w - 1) * word_size + b : b \in words[w]} : w \in DOMAIN words} = filter.bits
<1>1. PICK ws \in Nat \ {0}, size \in Nat \ {0} : /\ ws = word_size /\ size = table_size
                                                 /\ size % ws = 0
  BY Constants_
<1>2. filter.size = size /\ filter.bits \subseteq 0..(size - 1)
  BY <1>1
<1>3. PICK num \in Nat : num = size \div ws /\ size = num * ws
  <2>1. size \div ws \in Nat /\ size = (size \div ws) * ws + (size % ws)
    BY DivParts
  <2>2. PICK num \in Nat : num = size \div ws
    BY <2>1
  <2>3. PICK p \in Nat : p = num * ws
    OBVIOUS
  <2>4. size = p
    BY <1>1, <2>1, <2>2, <2>3
  <2>5. QED
    BY <2>2, <2>3, <2>4
<1>4. words = [w \in 1..num |-> {b \in 0..(ws - 1) : (w - 1) * ws + b \in filter.bits}]
  BY <1>1, <1>2, <1>3 DEF Words
<1>5. words \in Seq(SUBSET Nat) /\ Len(words) = num /\ DOMAIN words = 1..num
  <2>1. \A w \in 1..num : words[w] \in SUBSET Nat
    BY <1>4
  <2>2. words \in [1..num -> SUBSET Nat]
    BY <1>4, <2>1
  <2>3. QED
    BY <2>2
<1>6. ASSUME NEW x \in filter.bits
      PROVE  \E w \in DOMAIN words : x \in {(w - 1) * ws + b : b \in words[w]}
  <2>1. x \in Nat /\ x < size
    BY <1>2
  <2>2. /\ x \div ws \in Nat /\ x % ws \in 0..(ws - 1) /\ x = (x \div ws) * ws + (x % ws)
        /\ x \div ws < size \div ws
    BY <1>1, <2>1, DivParts
  <2>3. PICK q \in Nat, r \in 0..(ws - 1) : q = x \div ws /\ r = x % ws
    BY <2>2
  <2>4. x = q * ws + r /\ q < num
    BY <1>3, <2>2, <2>3
  <2>5. PICK w \in 1..num : w = q + 1 /\ w - 1 = q
    BY <2>4
  <2>6. r \in words[w]
    BY <1>4, <2>4, <2>5
  <2>7. QED
    BY <1>5, <2>4, <2>5, <2>6
<1>7. ASSUME NEW w \in DOMAIN words, NEW b \in words[w]
      PROVE  (w - 1) * ws + b \in filter.bits
  BY <1>4
<1>8. UNION {{(w - 1) * ws + b : b \in words[w]} : w \in DOMAIN words} = filter.bits
  <2> DEFINE U == UNION {{(w - 1) * ws + b : b \in words[w]} : w \in DOMAIN words}
  <2>1. ASSUME NEW x \in filter.bits
        PROVE  x \in U
    BY <1>6
  <2>2. ASSUME NEW x \in U
        PROVE  x \in filter.bits
    <3>1. PICK w \in DOMAIN words : x \in {(w - 1) * ws + b : b \in words[w]}
      OBVIOUS
    <3>2. PICK b \in words[w] : x = (w - 1) * ws + b
      BY <3>1
    <3>3. QED
      BY <1>7, <3>2
  <2>3. QED
    <3> HIDE DEF U
    <3>1. U = filter.bits
      BY <2>1, <2>2
    <3>2. QED
      BY <3>1 DEF U
<1>9. Len(words) * word_size = table_size
  <2>1. Len(words) = num /\ num * ws = size
    BY <1>3, <1>5
  <2>2. QED
    BY <1>1, <2>1
<1>10. UNION {{(w - 1) * word_size + b : b \in words[w]} : w \in DOMAIN words} = filter.bits
  <2>1. ws = word_size
    BY <1>1
  <2>2. QED
    BY <1>8, <2>1
<1>11. QED
  BY <1>5, <1>9, <1>10

(* Opened by its builder or by recovery, a file is what was built.         *)
LEMMA OpenedFacts ==
  ASSUME NEW table, WellBuilt(table)
  PROVE  /\ Published(table) =
              [entries |-> table.entries, index |-> table.index, filter |-> table.filter]
         /\ Recovered(table) = Published(table)
<1> DEFINE S == TableEntry \union IndexEntry \union (SUBSET Nat) \union Nat
<1>1. PICK w : w = Words(table.filter)
  OBVIOUS
<1>2. /\ table.entries \in Seq(TableEntry) /\ table.index \in Seq(IndexEntry)
      /\ Len(table.entries) \in Nat /\ Len(table.index) \in Nat
      /\ table.filter \in [size : {table_size}, bits : SUBSET (0..(table_size - 1))]
      /\ table.filter.size = table_size
  BY BuilderFacts
<1>3. /\ w \in Seq(SUBSET Nat) /\ Len(w) * word_size = table_size
      /\ UNION {{(v - 1) * word_size + b : b \in w[v]} : v \in DOMAIN w} = table.filter.bits
  BY <1>1, <1>2, WordsFacts
<1>4. PICK e, x : e = table.entries /\ x = table.index
  OBVIOUS
<1>5. PICK p \in Nat, q \in Nat : q = Len(e) /\ p = q + Len(x)
  BY <1>2, <1>4
<1>6. PICK f : f = File(table)
  OBVIOUS
<1>7. f = e \o x \o w \o <<p, q>>
  BY <1>1, <1>4, <1>5, <1>6 DEF File
<1>8. e \in Seq(S) /\ x \in Seq(S) /\ w \in Seq(S) /\ p \in S /\ q \in S
  <2>1. TableEntry \subseteq S /\ IndexEntry \subseteq S /\ SUBSET Nat \subseteq S /\ Nat \subseteq S
    OBVIOUS
  <2>2. QED
    <3> HIDE DEF S
    <3>1. e \in Seq(S)
      BY <1>2, <1>4, <2>1, SeqMonotonic
    <3>2. x \in Seq(S)
      BY <1>2, <1>4, <2>1, SeqMonotonic
    <3>3. w \in Seq(S)
      BY <1>3, <2>1, SeqMonotonic
    <3>4. QED
      BY <2>1, <3>1, <3>2, <3>3
<1> HIDE DEF S
<1>9. /\ f[Len(f)] = q /\ f[Len(f) - 1] = p
      /\ SubSeq(f, 1, Len(e)) = e
      /\ SubSeq(f, Len(e) + 1, Len(e) + Len(x)) = x
      /\ SubSeq(f, Len(e) + Len(x) + 1, Len(f) - 2) = w
  <2>1. Laid(f, e, x, w, p, q)
    BY <1>7, <1>8, FileParts
  <2>2. QED
    BY <2>1 DEF Laid
<1>10. IndexOffset(f) = q /\ FilterOffset(f) = p
  BY <1>9 DEF IndexOffset, FilterOffset, Last
<1>11. \A filter : Opened(f, filter) = [entries |-> e, index |-> x, filter |-> filter]
  BY <1>5, <1>9, <1>10 DEF Opened
<1>12. RecoveredFilter(f) = table.filter
  <2>1. SubSeq(f, FilterOffset(f) + 1, Len(f) - 2) = w
    BY <1>5, <1>9, <1>10
  <2>2. RecoveredFilter(f) = [size |-> table_size, bits |-> table.filter.bits]
    <3>1. RecoveredFilter(f) = FilterOf(w)
      BY <2>1 DEF RecoveredFilter
    <3>2. QED
      BY <1>3, <3>1 DEF FilterOf
  <2>3. QED
    BY <1>2, <2>2
<1>13. QED
  BY <1>4, <1>6, <1>11, <1>12 DEF Published, Recovered

-----------------------------------------------------------------------------
(* SSTableReader::getKey: the index leads to the only block that can hold  *)
(* the key.                                                                *)

Reader(table) == [entries |-> table.entries, index |-> table.index, filter |-> table.filter]

LEMMA IndexedFacts ==
  ASSUME NEW table, WellBuilt(table), NEW k \in Nat,
         NEW idx, idx = Cardinality(IndexedUpTo(Reader(table), k))
  PROVE  /\ idx \in 0..Len(table.index)
         /\ \A j \in 1..Len(table.index) : table.index[j].key <= k <=> j <= idx
<1>1. PICK last \in Nat : last = Len(table.index)
  BY BuilderFacts
<1>2. PICK I : I = IndexedUpTo(Reader(table), k)
  OBVIOUS
<1>3. I = {j \in 1..last : table.index[j].key <= k}
  <2>1. DOMAIN table.index = 1..last
    BY <1>1, BuilderFacts
  <2>2. QED
    BY <1>2, <2>1 DEF IndexedUpTo, Reader
<1>4. ASSUME NEW j \in 1..last, NEW l \in 1..last, j < l
      PROVE  /\ table.index[j].key \in Nat /\ table.index[l].key \in Nat
             /\ table.index[j].key < table.index[l].key
  <2>1. PICK a \in Nat, b \in Nat : a = table.index[j].offset /\ b = table.index[l].offset
    BY <1>1, BuilderFacts
  <2>2. /\ a < b /\ b < Len(table.entries)
        /\ table.index[j].key = table.entries[a + 1].key
        /\ table.index[l].key = table.entries[b + 1].key
    BY <1>1, <1>4, <2>1 DEF WellBuilt, IndexIsRight
  <2>3. Len(table.entries) \in Nat
    BY BuilderFacts
  <2>4. PICK m \in 1..Len(table.entries), n \in 1..Len(table.entries) : m = a + 1 /\ n = b + 1
    BY <2>2, <2>3
  <2>5. m < n
    BY <2>2, <2>4
  <2>6. table.entries[m].key < table.entries[n].key
    BY <2>5 DEF WellBuilt, Ascending
  <2>7. QED
    BY <1>1, <2>2, <2>4, <2>6, BuilderFacts
<1>5. ASSUME NEW m \in 0..last, I = 1..m
      PROVE  idx = m
  <2>1. Cardinality(1..m) = m
    <3>1. m \in Nat /\ 1 \in Int /\ m \in Int
      OBVIOUS
    <3>2. Cardinality(1..m) = IF 1 > m THEN 0 ELSE m - 1 + 1
      BY <3>1, FS_Interval
    <3>3. QED
      BY <3>1, <3>2
  <2>2. QED
    BY <1>2, <1>5, <2>1
<1>6. CASE I = {}
  <2>1. I = 1..0 /\ 0 \in 0..last
    BY <1>6
  <2>2. idx = 0
    BY <1>5, <2>1
  <2>3. \A j \in 1..last : ~(table.index[j].key <= k) /\ ~(j <= 0)
    BY <1>3, <1>6
  <2>4. QED
    BY <1>1, <2>1, <2>2, <2>3
<1>7. CASE I # {}
  <2>1. PICK m \in I : \A j \in I : j <= m
    <3>1. I \subseteq 0..last
      BY <1>3
    <3>2. QED
      BY <1>7, <3>1, GreatestExists
  <2>2. m \in 1..last /\ table.index[m].key <= k
    BY <1>3
  <2>3. I = 1..m
    <3>1. \A j \in I : j \in 1..m
      BY <1>3, <2>1
    <3>2. ASSUME NEW j \in 1..m
          PROVE  j \in I
      <4>1. j \in 1..last
        BY <2>2
      <4>2. CASE j = m
        BY <4>2
      <4>3. CASE j < m
        <5>1. /\ table.index[j].key \in Nat /\ table.index[m].key \in Nat
              /\ table.index[j].key < table.index[m].key
          BY <1>4, <2>2, <4>1, <4>3
        <5>2. table.index[j].key <= k
          BY <2>2, <5>1
        <5>3. QED
          BY <1>3, <4>1, <5>2
      <4>4. QED
        BY <2>2, <4>2, <4>3
    <3>3. QED
      BY <3>1, <3>2
  <2>4. idx = m
    BY <1>5, <2>2, <2>3
  <2>5. \A j \in 1..last : table.index[j].key <= k <=> j <= m
    <3>1. \A j \in 1..last : table.index[j].key <= k <=> j \in I
      BY <1>3
    <3>2. \A j \in 1..last : j \in I <=> j <= m
      BY <2>3
    <3>3. QED
      BY <3>1, <3>2
  <2>6. QED
    BY <1>1, <2>2, <2>4, <2>5
<1>8. QED
  BY <1>6, <1>7

LEMMA FindKeyIsExact ==
  ASSUME NEW table, WellBuilt(table), NEW k \in Keys
  PROVE  /\ \A n \in 1..Len(table.entries) :
              table.entries[n].key = k => FindKey(Reader(table), k) = Answer(table.entries[n])
         /\ (\A n \in 1..Len(table.entries) : table.entries[n].key # k) =>
              FindKey(Reader(table), k) = Missing
<1>1. PICK e \in Seq(TableEntry), len \in Nat, last \in Nat :
        e = table.entries /\ len = Len(e) /\ last = Len(table.index)
  BY BuilderFacts
<1>2. PICK r : /\ r = Reader(table) /\ r.entries = e /\ r.index = table.index
               /\ r.filter = table.filter
  <2>1. PICK r : r = Reader(table)
    OBVIOUS
  <2>2. r.entries = e /\ r.index = table.index /\ r.filter = table.filter
    BY <1>1, <2>1 DEF Reader
  <2>3. QED
    BY <2>1, <2>2
<1>3. k \in Nat /\ \A n \in 1..len : e[n].key \in Nat
  BY <1>1, Constants_, BuilderFacts
<1>4. PICK idx : idx = Cardinality(IndexedUpTo(r, k))
  OBVIOUS
<1>5. idx \in 0..last /\ \A j \in 1..last : table.index[j].key <= k <=> j <= idx
  BY <1>1, <1>2, <1>3, <1>4, IndexedFacts
<1>6. PICK lo, hi : lo = r.index[idx].offset + 1 /\ hi = BlockEnd(r, idx)
  OBVIOUS
<1>7. PICK block : block = SubSeq(e, lo, hi)
  OBVIOUS
<1>8. PICK stop : stop = SelectInSeq(block, LAMBDA entry : entry.key >= k)
  OBVIOUS
<1>9. FindKey(r, k) = IF ~MayContain(r.filter, k) \/ idx = 0 THEN Missing
                      ELSE IF stop = 0 \/ block[stop].key # k THEN Missing
                      ELSE Answer(block[stop])
  BY <1>2, <1>4, <1>6, <1>7, <1>8 DEF FindKey
<1>10. ASSUME idx # 0
       PROVE  /\ lo \in 1..len /\ hi \in Nat /\ hi <= len /\ lo <= hi + 1
              /\ e[lo].key <= k
              /\ \A n \in 1..len : n > hi => e[n].key > k
  <2>1. idx \in 1..last
    BY <1>5, <1>10
  <2>2. PICK off \in Nat : /\ off = table.index[idx].offset /\ off < len
                           /\ table.index[idx].key = e[off + 1].key /\ lo = off + 1
    BY <1>1, <1>2, <1>6, <2>1, BuilderFacts DEF WellBuilt, IndexIsRight
  <2>3. lo \in 1..len /\ e[lo].key <= k
    BY <1>5, <2>1, <2>2, SMTT(30)
  <2>4. CASE idx = last
    <3>1. hi = len
      BY <1>1, <1>2, <1>6, <2>4 DEF BlockEnd
    <3>2. QED
      BY <2>3, <3>1
  <2>5. CASE idx # last
    <3>1. idx + 1 \in 1..last /\ idx < idx + 1 /\ ~(idx + 1 <= idx)
      BY <2>1, <2>5
    <3>2. PICK end \in Nat : /\ end = table.index[idx + 1].offset /\ end < len
                             /\ table.index[idx + 1].key = e[end + 1].key /\ off < end
      BY <1>1, <2>1, <2>2, <3>1, BuilderFacts DEF WellBuilt, IndexIsRight
    <3>3. hi = end
      BY <1>1, <1>2, <1>6, <2>5, <3>2 DEF BlockEnd
    <3>4. PICK m \in 1..len : m = end + 1 /\ ~(e[m].key <= k)
      <4>1. ~(e[end + 1].key <= k) /\ end + 1 \in 1..len
        <5>1. PICK j \in 1..last : j = idx + 1 /\ ~(j <= idx)
          BY <3>1
        <5>2. ~(table.index[j].key <= k)
          BY <1>5, <5>1
        <5>3. table.index[j].key = e[end + 1].key
          BY <3>2, <5>1
        <5>4. end + 1 \in 1..len
          BY <3>2, SMTT(30)
        <5>5. QED
          BY <5>2, <5>3, <5>4
      <4>2. PICK m : m = end + 1
        OBVIOUS
      <4>3. QED
        BY <4>1, <4>2
    <3>5. ASSUME NEW n \in 1..len, n > hi
          PROVE  e[n].key > k
      <4>1. n = m \/ m < n
        BY <3>3, <3>4, <3>5
      <4>2. m < n => e[m].key < e[n].key
        BY <1>1 DEF WellBuilt, Ascending
      <4>3. QED
        BY <1>3, <3>4, <4>1, <4>2
    <3>6. QED
      BY <2>2, <2>3, <3>2, <3>3, <3>5, SMTT(30)
  <2>6. QED
    BY <2>4, <2>5
<1>11. ASSUME idx # 0
       PROVE  /\ Len(block) = hi - lo + 1 /\ Len(block) \in Nat
              /\ \A n \in 1..Len(block) : block[n] = e[lo + n - 1] /\ lo + n - 1 \in 1..len
              /\ \A m \in lo..hi : m - lo + 1 \in 1..Len(block) /\ block[m - lo + 1] = e[m]
  <2>1. lo \in 1..len /\ hi \in Nat /\ hi <= len /\ lo <= hi + 1
    BY <1>10, <1>11
  <2>2. \A m \in lo..hi : e[m] \in TableEntry
    BY <1>1, <2>1
  <2>3. /\ Len(SubSeq(e, lo, hi)) = IF lo <= hi THEN hi - lo + 1 ELSE 0
        /\ \A n \in 1..(hi - lo + 1) : SubSeq(e, lo, hi)[n] = e[lo + n - 1]
    BY <2>1, <2>2, SubSeqProperties
  <2>4. PICK b \in Nat : b = Len(block) /\ b = hi - lo + 1
    BY <1>7, <2>1, <2>3
  <2>5. \A n \in 1..b : block[n] = e[lo + n - 1] /\ lo + n - 1 \in 1..len
    BY <1>7, <2>1, <2>3, <2>4
  <2>6. ASSUME NEW m \in lo..hi
        PROVE  m - lo + 1 \in 1..b /\ block[m - lo + 1] = e[m]
    <3>1. PICK n \in 1..b : n = m - lo + 1 /\ lo + n - 1 = m
      BY <2>1, <2>4
    <3>2. QED
      BY <2>5, <3>1
  <2>7. QED
    BY <2>4, <2>5, <2>6
<1>12. ASSUME idx # 0
       PROVE  IF \E n \in 1..Len(block) : block[n].key >= k
              THEN /\ stop \in 1..Len(block) /\ block[stop].key >= k
                   /\ \A n \in 1..Len(block) : block[n].key >= k => stop <= n
              ELSE stop = 0
  <2> DEFINE I == {n \in 1..Len(block) : block[n].key >= k}
  <2>1. stop = IF I # {} THEN Min(I) ELSE 0
    BY <1>8 DEF SelectInSeq
  <2>2. CASE I = {}
    BY <2>1, <2>2
  <2>3. CASE I # {}
    <3>1. I \subseteq Nat
      BY <1>11, <1>12
    <3>2. \E x \in I : \A y \in I : x <= y
      <4> HIDE DEF I
      <4>1. QED
        BY <2>3, <3>1, LeastExists
    <3>3. stop \in I /\ \A y \in I : stop <= y
      BY <2>1, <2>3, <3>2 DEF Min
    <3>4. QED
      BY <3>3
  <2>4. QED
    BY <2>2, <2>3
<1>13. ASSUME NEW n \in 1..len, e[n].key = k
       PROVE  FindKey(r, k) = Answer(e[n])
  <2>1. MayContain(r.filter, k)
    BY <1>1, <1>2, <1>13 DEF WellBuilt, FilterIsRight
  <2>2. idx # 0
    <3>1. last # 0 /\ last > 0
      BY <1>1 DEF WellBuilt, IndexIsRight
    <3>2. 1 \in 1..last /\ table.index[1].offset = 0 /\ table.index[1].key = e[0 + 1].key
      BY <1>1, <3>1 DEF WellBuilt, IndexIsRight
    <3>3. e[1].key <= e[n].key
      <4>1. n = 1 \/ 1 < n
        OBVIOUS
      <4>2. 1 \in 1..len /\ (1 < n => e[1].key < e[n].key)
        BY <1>1 DEF WellBuilt, Ascending
      <4>3. QED
        BY <1>3, <4>1, <4>2
    <3>4. 1 <= idx
      BY <1>5, <1>13, <3>2, <3>3
    <3>5. QED
      BY <3>4
  <2>3. lo \in 1..len /\ hi \in Nat /\ e[lo].key <= k /\ ~(n > hi)
    <3>1. \A m \in 1..len : m > hi => e[m].key > k
      BY <1>10, <2>2
    <3>2. QED
      BY <1>3, <1>10, <1>13, <2>2, <3>1
  <2>4. n \in lo..hi
    <3>1. n < lo => e[n].key < e[lo].key
      BY <1>1, <2>3 DEF WellBuilt, Ascending
    <3>2. ~(n < lo)
      BY <1>3, <1>13, <2>3, <3>1
    <3>3. QED
      BY <2>3, <3>2
  <2>5. PICK p \in 1..Len(block) : p = n - lo + 1 /\ block[p] = e[n]
    BY <1>11, <2>2, <2>4
  <2>6. stop \in 1..Len(block) /\ block[stop].key >= k /\ stop <= p
    <3>1. block[p].key >= k
      BY <1>3, <1>13, <2>5
    <3>2. QED
      BY <1>12, <2>2, <2>5, <3>1
  <2>7. stop = p
    <3>1. PICK m \in 1..len : m = lo + stop - 1 /\ block[stop] = e[m]
      BY <1>11, <2>2, <2>6
    <3>2. m <= n
      BY <2>3, <2>5, <2>6, <3>1
    <3>3. m < n => e[m].key < e[n].key
      BY <1>1 DEF WellBuilt, Ascending
    <3>4. m = n
      BY <1>3, <1>13, <2>6, <3>1, <3>2, <3>3
    <3>5. QED
      BY <1>11, <2>2, <2>3, <2>5, <2>6, <3>1, <3>4
  <2>8. stop # 0 /\ block[stop] = e[n] /\ block[stop].key = k
    BY <1>13, <2>5, <2>6, <2>7
  <2>9. QED
    BY <1>9, <2>1, <2>2, <2>8
<1>14. ASSUME \A n \in 1..len : e[n].key # k
       PROVE  FindKey(r, k) = Missing
  <2>1. CASE idx = 0
    BY <1>9, <2>1
  <2>2. CASE idx # 0
    <3>1. stop # 0 => block[stop].key # k
      <4>1. SUFFICES ASSUME stop # 0
                     PROVE  block[stop].key # k
        OBVIOUS
      <4>2. stop \in 1..Len(block)
        BY <1>12, <2>2, <4>1
      <4>3. QED
        BY <1>11, <1>14, <2>2, <4>2
    <3>2. QED
      BY <1>9, <3>1
  <2>3. QED
    BY <2>1, <2>2
<1>15. QED
  BY <1>1, <1>2, <1>13, <1>14

(* Every lookup in the file of a table that is well built, published or    *)
(* recovered.                                                              *)
LEMMA LookupFacts ==
  ASSUME NEW table, WellBuilt(table)
  PROVE  LookupIsExact(table)
<1>1. SUFFICES ASSUME NEW k \in Keys, NEW opened \in {Published(table), Recovered(table)},
                      NEW held, held = {entry \in ToSet(table.entries) : entry.key = k}
               PROVE  FindKey(opened, k) = IF held = {} THEN Missing
                                           ELSE Answer(CHOOSE entry \in held : TRUE)
  BY DEF LookupIsExact
<1>2. opened = Reader(table)
  BY OpenedFacts DEF Reader
<1>3. DOMAIN table.entries = 1..Len(table.entries)
  BY BuilderFacts
<1>4. CASE held = {}
  <2>1. \A n \in 1..Len(table.entries) : table.entries[n].key # k
    BY <1>1, <1>3, <1>4 DEF ToSet
  <2>2. QED
    BY <1>2, <1>4, <2>1, FindKeyIsExact
<1>5. CASE held # {}
  <2>1. PICK entry : entry = CHOOSE x \in held : TRUE
    OBVIOUS
  <2>2. entry \in held
    BY <1>5, <2>1
  <2>3. PICK n \in 1..Len(table.entries) : entry = table.entries[n] /\ entry.key = k
    BY <1>1, <1>3, <2>2 DEF ToSet
  <2>4. FindKey(opened, k) = Answer(entry)
    BY <1>2, <2>3, FindKeyIsExact
  <2>5. QED
    BY <1>5, <2>1, <2>4
<1>6. QED
  BY <1>4, <1>5

-----------------------------------------------------------------------------
(* The inductive invariant of the merge.                                   *)

KeyAt(t, n) == tables[t].entries[n].key

(* The entries of a table that are still to be merged.                     *)
Remaining(t) ==
  {n \in 1..Len(tables[t].entries) :
     n > current_offset[t] \/ (n = current_offset[t] /\ file_data[t] # NoEntry)}

Shape ==
  /\ remove_tombstones \in BOOLEAN /\ merger \in {"examine", "write", "done"}
  /\ \A t \in Tables : WellBuilt(tables[t])
  /\ \A t \in Tables : \A n \in 1..Len(tables[t].entries) : tables[t].entries[n].val = t
  /\ current_offset \in [Tables -> Nat] /\ file_data = [t \in Tables |-> file_data[t]]
  /\ \A t \in Tables : /\ current_offset[t] <= Len(tables[t].entries)
                       /\ file_data[t] # NoEntry =>
                            /\ current_offset[t] >= 1
                            /\ file_data[t] = tables[t].entries[current_offset[t]]
  /\ WellBuilt(merged)

(* Of the tables seen in this round none has an entry before the smallest  *)
(* known, and an equal one only there.                                     *)
RoundInv ==
  /\ i \in 1..(NumTables + 1) /\ (merger = "examine" <=> i # NumTables + 1)
  /\ min_index \in Tables \union {NoIndex}
  /\ merger = "done" => min_index = NoIndex
  /\ min_index # NoIndex => min_index < i /\ file_data[min_index] # NoEntry
  /\ \A t \in Tables : \A n \in Remaining(t) :
       t < i =>
         /\ min_index # NoIndex
         /\ file_data[min_index].key <= KeyAt(t, n)
         /\ file_data[min_index].key = KeyAt(t, n) => t = min_index /\ n = current_offset[t]

(* No entry is merged before the older ones of its key.                    *)
YoungerRemain ==
  \A t, u \in Tables : \A n \in Remaining(t), m \in 1..Len(tables[u].entries) :
    t < u /\ KeyAt(t, n) = KeyAt(u, m) => m \in Remaining(u)

MergedInv ==
  /\ ToSet(merged.entries) = {Youngest(k) : k \in Survivors \ Pending}
  /\ \A entry \in ToSet(merged.entries) : \A k \in Pending : entry.key < k

MInv == Shape /\ RoundInv /\ YoungerRemain /\ MergedInv

LEMMA ShapeFacts ==
  ASSUME Shape, NEW t \in Tables
  PROVE  /\ WellBuilt(tables[t]) /\ Len(tables[t].entries) \in Nat
         /\ DOMAIN tables[t].entries = 1..Len(tables[t].entries)
         /\ current_offset[t] \in Nat /\ current_offset[t] <= Len(tables[t].entries)
         /\ \A n \in 1..Len(tables[t].entries) :
              /\ tables[t].entries[n] \in TableEntry /\ tables[t].entries[n] # NoEntry
              /\ KeyAt(t, n) \in Keys /\ KeyAt(t, n) \in Nat /\ tables[t].entries[n].val = t
         /\ \A m, n \in 1..Len(tables[t].entries) :
              /\ m < n => KeyAt(t, m) < KeyAt(t, n)
              /\ KeyAt(t, m) = KeyAt(t, n) => m = n
         /\ Remaining(t) \subseteq 1..Len(tables[t].entries)
<1>1. /\ WellBuilt(tables[t]) /\ current_offset[t] \in Nat
      /\ current_offset[t] <= Len(tables[t].entries)
      /\ \A n \in 1..Len(tables[t].entries) : tables[t].entries[n].val = t
  BY DEF Shape
<1>2. PICK e : e = tables[t].entries
  OBVIOUS
<1>3. /\ e \in Seq(TableEntry) /\ Len(e) \in Nat
      /\ \A n \in 1..Len(e) : e[n] \in TableEntry /\ e[n].key \in Keys /\ e[n].key \in Nat
  BY <1>1, <1>2, BuilderFacts
<1>4. DOMAIN e = 1..Len(e)
  BY <1>3
<1>5. \A n \in 1..Len(e) : e[n] # NoEntry
  BY <1>3 DEF NoEntry
<1>6. \A m, n \in 1..Len(e) : m < n => e[m].key < e[n].key
  BY <1>1, <1>2 DEF WellBuilt, Ascending
<1>7. \A m, n \in 1..Len(e) : e[m].key = e[n].key => m = n
  BY <1>3, <1>6
<1>8. QED
  BY <1>1, <1>2, <1>3, <1>4, <1>5, <1>6, <1>7 DEF KeyAt, Remaining

LEMMA PendingFacts ==
  ASSUME Shape, NEW k
  PROVE  k \in Pending <=> \E t \in Tables : \E n \in Remaining(t) : KeyAt(t, n) = k
<1>1. ASSUME k \in Pending
      PROVE  \E t \in Tables : \E n \in Remaining(t) : KeyAt(t, n) = k
  <2>1. PICK t \in Tables :
           \/ file_data[t] # NoEntry /\ file_data[t].key = k
           \/ \E n \in (current_offset[t] + 1)..Len(tables[t].entries) : tables[t].entries[n].key = k
    BY <1>1 DEF Pending
  <2>2. current_offset[t] \in Nat /\ Len(tables[t].entries) \in Nat
    BY ShapeFacts
  <2>3. CASE file_data[t] # NoEntry /\ file_data[t].key = k
    <3>1. /\ current_offset[t] \in 1..Len(tables[t].entries)
          /\ file_data[t] = tables[t].entries[current_offset[t]]
      BY <2>2, <2>3 DEF Shape
    <3>2. current_offset[t] \in Remaining(t) /\ KeyAt(t, current_offset[t]) = k
      BY <2>2, <2>3, <3>1 DEF Remaining, KeyAt
    <3>3. QED
      BY <3>2
  <2>4. CASE \E n \in (current_offset[t] + 1)..Len(tables[t].entries) : tables[t].entries[n].key = k
    <3>1. PICK n \in (current_offset[t] + 1)..Len(tables[t].entries) : tables[t].entries[n].key = k
      BY <2>4
    <3>2. n \in Remaining(t) /\ KeyAt(t, n) = k
      BY <2>2, <3>1 DEF Remaining, KeyAt
    <3>3. QED
      BY <3>2
  <2>5. QED
    BY <2>1, <2>3, <2>4
<1>2. ASSUME NEW t \in Tables, NEW n \in Remaining(t), KeyAt(t, n) = k
      PROVE  k \in Pending
  <2>1. /\ n \in 1..Len(tables[t].entries) /\ k \in Keys /\ tables[t].entries[n].key = k
        /\ current_offset[t] \in Nat /\ Len(tables[t].entries) \in Nat
    BY <1>2, ShapeFacts DEF KeyAt
  <2>2. \/ n \in (current_offset[t] + 1)..Len(tables[t].entries)
        \/ file_data[t] # NoEntry /\ n = current_offset[t]
    BY <1>2, <2>1 DEF Remaining
  <2>3. file_data[t] # NoEntry => file_data[t] = tables[t].entries[current_offset[t]]
    BY DEF Shape
  <2>4. QED
    BY <2>1, <2>2, <2>3 DEF Pending
<1>3. QED
  BY <1>1, <1>2

PendingIsRemaining ==
  \A k : k \in Pending <=> \E t \in Tables : \E n \in Remaining(t) : KeyAt(t, n) = k

LEMMA PendingIs == Shape => PendingIsRemaining
  BY PendingFacts DEF PendingIsRemaining

(* The youngest entry of a key is the one of the last table that holds it. *)
LEMMA YoungestIs ==
  ASSUME Shape, NEW k, NEW t \in Tables, NEW n \in 1..Len(tables[t].entries), KeyAt(t, n) = k,
         \A u \in Tables : \A m \in 1..Len(tables[u].entries) : KeyAt(u, m) = k => u <= t
  PROVE  t \in Holding(k) /\ Youngest(k) = tables[t].entries[n]
<1>1. \A u \in Tables : DOMAIN tables[u].entries = 1..Len(tables[u].entries)
  BY ShapeFacts
<1>2. t \in Holding(k)
  BY <1>1 DEF Holding, KeyAt, ToSet
<1>3. \A u \in Holding(k) : u <= t
  BY <1>1 DEF Holding, KeyAt, ToSet
<1>4. \A u \in Holding(k) : u \in Int
  BY Constants_ DEF Holding
<1>5. PICK y : y = CHOOSE u \in Holding(k) : \A v \in Holding(k) : v <= u
  OBVIOUS
<1>6. y \in Holding(k) /\ \A v \in Holding(k) : v <= y
  BY <1>2, <1>3, <1>5
<1>7. y = t
  BY <1>2, <1>3, <1>4, <1>6
<1>8. PICK e : e = CHOOSE entry \in ToSet(tables[t].entries) : entry.key = k
  OBVIOUS
<1>9. e \in ToSet(tables[t].entries) /\ e.key = k
  BY <1>1, <1>8 DEF KeyAt, ToSet
<1>10. PICK m \in 1..Len(tables[t].entries) : e = tables[t].entries[m]
  BY <1>1, <1>9 DEF ToSet
<1>11. m = n
  BY <1>9, <1>10, ShapeFacts DEF KeyAt
<1>12. QED
  BY <1>2, <1>5, <1>7, <1>8, <1>10, <1>11 DEF Youngest

LEMMA HasYoungest ==
  ASSUME Shape, NEW k, Holding(k) # {}
  PROVE  \E t \in Tables : \E n \in 1..Len(tables[t].entries) :
           /\ KeyAt(t, n) = k
           /\ \A u \in Tables : \A m \in 1..Len(tables[u].entries) : KeyAt(u, m) = k => u <= t
<1>1. \A u \in Tables : DOMAIN tables[u].entries = 1..Len(tables[u].entries)
  BY ShapeFacts
<1>2. PICK S : S = Holding(k)
  OBVIOUS
<1>3. S \subseteq 0..NumTables /\ S # {} /\ NumTables \in Nat
  BY <1>2, Constants_ DEF Holding
<1>4. PICK t \in S : \A u \in S : u <= t
  BY <1>3, GreatestExists
<1>5. t \in Tables /\ \E n \in 1..Len(tables[t].entries) : KeyAt(t, n) = k
  BY <1>1, <1>2, <1>4 DEF Holding, KeyAt, ToSet
<1>6. \A u \in Tables : \A m \in 1..Len(tables[u].entries) : KeyAt(u, m) = k => u \in S
  BY <1>1, <1>2 DEF Holding, KeyAt, ToSet
<1>7. QED
  BY <1>4, <1>5, <1>6

-----------------------------------------------------------------------------
(* The merge starts with tables that are well built.                       *)

LEMMA ContentsFacts ==
  ASSUME NEW t \in Tables, NEW list \in Lists
  PROVE  /\ Contents(t, list) \in Seq(TableEntry) /\ Ascending(Contents(t, list))
         /\ \A n \in 1..Len(Contents(t, list)) : Contents(t, list)[n].val = t
<1>1. /\ list \in Seq([key : Keys, gone : BOOLEAN])
      /\ \A n \in 2..Len(list) : list[n - 1].key < list[n].key
  <2>1. PICK R : R = [key : Keys, gone : BOOLEAN]
    OBVIOUS
  <2>2. PICK c \in Nat : c = Cardinality(Keys)
    BY Constants_, FS_CardinalityType
  <2>3. list \in UNION {[1..m -> R] : m \in 0..c}
    BY <2>1, <2>2 DEF Lists, BoundedSeq, SeqOf
  <2>4. PICK m \in 0..c : list \in [1..m -> R]
    BY <2>3
  <2>5. list \in Seq(R)
    BY <2>4
  <2>6. \A n \in 2..Len(list) : list[n - 1].key < list[n].key
    BY DEF Lists
  <2>7. QED
    BY <2>1, <2>5, <2>6
<1>2. PICK len \in Nat : len = Len(list) /\ DOMAIN list = 1..len
  BY <1>1
<1>3. \A n \in 1..len : list[n].key \in Keys /\ list[n].key \in Nat /\ list[n].gone \in BOOLEAN
  <2>1. PICK R : R = [key : Keys, gone : BOOLEAN]
    OBVIOUS
  <2>2. list \in Seq(R)
    BY <1>1, <2>1
  <2>3. \A n \in 1..len : list[n] \in R
    BY <1>2, <2>2
  <2>4. QED
    BY <2>1, <2>3, Constants_
<1>4. PICK s : s = Contents(t, list)
  OBVIOUS
<1>5. s = [n \in 1..len |-> Entry(list[n].key, list[n].gone, t)]
  BY <1>2, <1>4 DEF Contents
<1>6. \A n \in 1..len : s[n] \in TableEntry /\ s[n].key = list[n].key /\ s[n].val = t
  BY <1>3, <1>5 DEF Entry, TableEntry
<1>7. s \in Seq(TableEntry) /\ Len(s) = len
  BY <1>2, <1>5, <1>6
<1> DEFINE T == {n \in 0..len : \A a, b \in 1..n : a < b => list[a].key < list[b].key}
<1>8. 0 \in T
  OBVIOUS
<1>9. ASSUME NEW n \in 0..(len - 1), n \in T
      PROVE  n + 1 \in T
  <2>1. ASSUME NEW a \in 1..n
        PROVE  list[a].key < list[n + 1].key
    <3>1. list[n].key < list[n + 1].key
      <4>1. n + 1 \in 2..Len(list) /\ (n + 1) - 1 = n
        BY <1>2, <2>1
      <4>2. QED
        BY <1>1, <4>1
    <3>2. a < n => list[a].key < list[n].key
      BY <1>9, <2>1
    <3>3. QED
      BY <1>3, <2>1, <3>1, <3>2
  <2>2. QED
    BY <1>9, <2>1
<1>10. len \in T
  <2> HIDE DEF T
  <2>1. 0..len \subseteq T
    BY <1>8, <1>9, InductionTo
  <2>2. QED
    BY <2>1
<1>11. Ascending(s)
  BY <1>6, <1>7, <1>10 DEF Ascending
<1>12. QED
  BY <1>4, <1>6, <1>7, <1>11

LEMMA InitStep == Init => MInv
<1> SUFFICES ASSUME Init
             PROVE  MInv
  OBVIOUS
<1>1. PICK lists \in [Tables -> Lists] : tables = [t \in Tables |-> Flush(Contents(t, lists[t]))]
  BY DEF Init
<1>2. \A t \in Tables : /\ WellBuilt(tables[t])
                        /\ \A n \in 1..Len(tables[t].entries) : tables[t].entries[n].val = t
  BY <1>1, ContentsFacts, FlushBuilds
<1>3. /\ remove_tombstones \in BOOLEAN
      /\ current_offset = [t \in Tables |-> 0]
      /\ file_data = [t \in Tables |-> NoEntry]
      /\ i = 1 /\ min_index = NoIndex /\ merged = EmptyTable /\ merger = "examine"
  BY DEF Init
<1>4. \A t \in Tables : file_data[t] = NoEntry /\ current_offset[t] = 0
  BY <1>3
<1>5. \A t \in Tables : Len(tables[t].entries) \in Nat
  BY <1>2, BuilderFacts
<1>6. Shape
  <2>1. current_offset \in [Tables -> Nat] /\ file_data = [t \in Tables |-> file_data[t]]
    BY <1>3
  <2>2. WellBuilt(merged)
    BY <1>3, EmptyIsWellBuilt
  <2>3. QED
    BY <1>2, <1>3, <1>4, <1>5, <2>1, <2>2 DEF Shape
<1>7. RoundInv
  BY <1>3, Constants_ DEF RoundInv
<1>8. \A t \in Tables : Remaining(t) = 1..Len(tables[t].entries)
  BY <1>4, <1>5 DEF Remaining
<1>9. YoungerRemain
  BY <1>8 DEF YoungerRemain
<1>10. Survivors \ Pending = {}
  <2>1. SUFFICES ASSUME NEW k \in Survivors
                 PROVE  k \in Pending
    OBVIOUS
  <2>2. Holding(k) # {}
    BY DEF Survivors
  <2>3. PICK t \in Tables : \E n \in 1..Len(tables[t].entries) : KeyAt(t, n) = k
    BY <1>6, <2>2, HasYoungest
  <2>4. QED
    BY <1>6, <1>8, <2>3, PendingFacts
<1>11. ToSet(merged.entries) = {}
  BY <1>3, EmptyIsWellBuilt DEF ToSet
<1>12. MergedInv
  BY <1>10, <1>11 DEF MergedInv
<1>13. QED
  BY <1>6, <1>7, <1>9, <1>12 DEF MInv

-----------------------------------------------------------------------------
(* A step of the loop over the tables.                                     *)

(* The entries that remain after a step that leaves the tables alone.      *)
LEMMA SameTables ==
  ASSUME UNCHANGED <<tables, remove_tombstones>>
  PROVE  /\ \A t, n : KeyAt(t, n)' = KeyAt(t, n)
         /\ \A k : Youngest(k)' = Youngest(k)
         /\ Survivors' = Survivors
  BY DEF KeyAt, Youngest, Holding, Survivors, IsDropped

(* The entry of table i: the first that remains, if any does.              *)
LEMMA CandidateFacts ==
  ASSUME Shape, i \in Tables, merger = "examine", Examine
  PROVE  /\ current_offset' \in [Tables -> Nat]
         /\ \A t \in Tables : t # i => current_offset'[t] = current_offset[t]
         /\ current_offset'[i] <= Len(tables[i].entries)
         /\ IF Candidate # NoEntry
            THEN /\ current_offset'[i] \in Remaining(i)
                 /\ Candidate = tables[i].entries[current_offset'[i]]
                 /\ Remaining(i) = {n \in 1..Len(tables[i].entries) : n >= current_offset'[i]}
            ELSE /\ Remaining(i) = {} /\ file_data[i] = NoEntry
                 /\ current_offset'[i] = current_offset[i]
<1>1. PICK len \in Nat, c \in Nat : len = Len(tables[i].entries) /\ c = current_offset[i] /\ c <= len
  BY ShapeFacts
<1>2. current_offset \in [Tables -> Nat]
  BY DEF Shape
<1>3. \A n \in 1..len : tables[i].entries[n] # NoEntry
  BY <1>1, ShapeFacts
<1>4. /\ Remaining(i) = {n \in 1..len : n > c \/ (n = c /\ file_data[i] # NoEntry)}
      /\ HasNext(i) <=> c < len
      /\ GetNext(i) = tables[i].entries[c + 1]
      /\ Candidate = IF file_data[i] # NoEntry THEN file_data[i]
                     ELSE IF HasNext(i) THEN GetNext(i) ELSE NoEntry
  BY <1>1 DEF Remaining, HasNext, GetNext, Candidate
<1>5. current_offset' = IF file_data[i] = NoEntry /\ HasNext(i)
                        THEN [current_offset EXCEPT ![i] = @ + 1] ELSE current_offset
  BY DEF Examine
<1>6. CASE file_data[i] # NoEntry
  <2>1. c >= 1 /\ file_data[i] = tables[i].entries[c] /\ current_offset' = current_offset
    BY <1>1, <1>5, <1>6 DEF Shape
  <2>2. Remaining(i) = {n \in 1..len : n >= c} /\ c \in Remaining(i)
    BY <1>1, <1>4, <1>6, <2>1
  <2>3. QED
    BY <1>1, <1>2, <1>4, <1>6, <2>1, <2>2
<1>7. CASE file_data[i] = NoEntry /\ HasNext(i)
  <2>1. /\ current_offset' \in [Tables -> Nat] /\ current_offset'[i] = c + 1 /\ c + 1 \in 1..len
        /\ \A t \in Tables : t # i => current_offset'[t] = current_offset[t]
    BY <1>1, <1>2, <1>4, <1>5, <1>7
  <2>2. Candidate = tables[i].entries[c + 1] /\ Candidate # NoEntry
    BY <1>3, <1>4, <1>7, <2>1
  <2>3. Remaining(i) = {n \in 1..len : n >= c + 1}
    BY <1>4, <1>7
  <2>4. QED
    BY <1>1, <2>1, <2>2, <2>3
<1>8. CASE file_data[i] = NoEntry /\ ~HasNext(i)
  BY <1>1, <1>2, <1>4, <1>5, <1>8
<1>9. QED
  BY <1>6, <1>7, <1>8

LEMMA ExamineStep == MInv /\ Examine => MInv'
<1> SUFFICES ASSUME MInv, Examine
             PROVE  MInv'
  OBVIOUS
<1>1. Shape /\ RoundInv /\ YoungerRemain /\ MergedInv
  BY DEF MInv
<1>2. /\ merger = "examine" /\ merger' = IF i = NumTables THEN "write" ELSE "examine"
      /\ i' = i + 1 /\ UNCHANGED <<tables, remove_tombstones, merged>>
  BY DEF Examine
<1>3. i \in Tables /\ i \in Nat
  BY <1>1, <1>2, Constants_ DEF RoundInv
<1>4. PICK m : m = min_index
  OBVIOUS
<1>5. /\ m \in Tables \union {NoIndex}
      /\ m # NoIndex => m \in Tables /\ m < i /\ file_data[m] # NoEntry
      /\ \A t \in Tables : \A n \in Remaining(t) :
           t < i => /\ m # NoIndex /\ file_data[m].key <= KeyAt(t, n)
                    /\ file_data[m].key = KeyAt(t, n) => t = m /\ n = current_offset[t]
  BY <1>1, <1>4 DEF RoundInv
<1>6. PICK entry : entry = Candidate
  OBVIOUS
<1>7. PICK c : c = current_offset'[i]
  OBVIOUS
<1>8. /\ current_offset' \in [Tables -> Nat]
      /\ \A t \in Tables : t # i => current_offset'[t] = current_offset[t]
      /\ c \in Nat /\ c <= Len(tables[i].entries)
      /\ entry # NoEntry => /\ c \in Remaining(i) /\ entry = tables[i].entries[c]
                            /\ Remaining(i) = {n \in 1..Len(tables[i].entries) : n >= c}
      /\ entry = NoEntry => Remaining(i) = {} /\ file_data[i] = NoEntry /\ c = current_offset[i]
  BY <1>1, <1>2, <1>3, <1>6, <1>7, CandidateFacts
<1>9. PICK lost : lost = IF entry # NoEntry THEN Superseded(entry) ELSE {}
  OBVIOUS
<1>10. lost = IF entry # NoEntry /\ m # NoIndex /\ file_data[m].key = entry.key THEN {m} ELSE {}
  BY <1>4, <1>9 DEF Superseded
<1>11. /\ file_data' = [t \in Tables |-> IF t \in lost THEN NoEntry
                                         ELSE IF t = i THEN entry ELSE file_data[t]]
       /\ min_index' = IF entry # NoEntry /\ (m = NoIndex \/ file_data[m].key >= entry.key)
                       THEN i ELSE m
  BY <1>4, <1>6, <1>9 DEF Examine
<1>12. /\ i \notin lost /\ file_data'[i] = entry
       /\ \A t \in Tables : t # i /\ t \notin lost => file_data'[t] = file_data[t]
       /\ \A t \in lost : t \in Tables /\ t = m /\ file_data'[t] = NoEntry
  BY <1>3, <1>5, <1>10, <1>11, Constants_
<1>13. m # NoIndex => /\ current_offset[m] \in 1..Len(tables[m].entries)
                      /\ current_offset[m] \in Remaining(m)
                      /\ file_data[m] = tables[m].entries[current_offset[m]]
                      /\ file_data[m].key = KeyAt(m, current_offset[m])
                      /\ file_data[m].key \in Nat
  <2>1. SUFFICES ASSUME m # NoIndex
                 PROVE  /\ current_offset[m] \in 1..Len(tables[m].entries)
                        /\ file_data[m] = tables[m].entries[current_offset[m]]
    BY <1>1, <1>5, ShapeFacts DEF Remaining, KeyAt
  <2>2. Len(tables[m].entries) \in Nat /\ current_offset[m] \in Nat
    BY <1>1, <1>5, <2>1, ShapeFacts
  <2>3. QED
    BY <1>1, <1>5, <2>1, <2>2 DEF Shape
<1>14. entry # NoEntry => entry.key = KeyAt(i, c) /\ entry.key \in Nat
  BY <1>1, <1>3, <1>8, ShapeFacts DEF KeyAt
<1>15. \A t \in Tables : Remaining(t)' = IF t \in lost THEN Remaining(t) \ {current_offset[t]}
                                         ELSE Remaining(t)
  <2>1. SUFFICES ASSUME NEW t \in Tables
                 PROVE  Remaining(t)' = IF t \in lost THEN Remaining(t) \ {current_offset[t]}
                                        ELSE Remaining(t)
    OBVIOUS
  <2>2. Remaining(t)' = {n \in 1..Len(tables[t].entries) :
           n > current_offset'[t] \/ (n = current_offset'[t] /\ file_data'[t] # NoEntry)}
    BY <1>2 DEF Remaining
  <2>3. /\ Remaining(t) = {n \in 1..Len(tables[t].entries) :
             n > current_offset[t] \/ (n = current_offset[t] /\ file_data[t] # NoEntry)}
        /\ current_offset[t] \in Nat
    BY <1>1, ShapeFacts DEF Remaining
  <2>4. CASE t = i
    <3>1. CASE entry = NoEntry
      BY <1>7, <1>8, <1>12, <2>2, <2>3, <2>4, <3>1
    <3>2. CASE entry # NoEntry
      BY <1>7, <1>8, <1>12, <2>2, <2>4, <3>2
    <3>3. QED
      BY <3>1, <3>2
  <2>5. CASE t # i /\ t \notin lost
    BY <1>8, <1>12, <2>2, <2>3, <2>5
  <2>6. CASE t # i /\ t \in lost
    BY <1>8, <1>12, <2>2, <2>3, <2>6
  <2>7. QED
    BY <1>12, <2>4, <2>5, <2>6
<1>16. /\ \A t, n : KeyAt(t, n)' = KeyAt(t, n)
       /\ \A k : Youngest(k)' = Youngest(k)
       /\ Survivors' = Survivors
  BY <1>2, SameTables
<1>17. Shape'
  <2>1. ASSUME NEW t \in Tables
        PROVE  /\ current_offset'[t] <= Len(tables[t].entries)
               /\ file_data'[t] # NoEntry =>
                    /\ current_offset'[t] >= 1
                    /\ file_data'[t] = tables[t].entries[current_offset'[t]]
    <3>1. CASE t = i
      <4>1. entry # NoEntry => c \in 1..Len(tables[i].entries)
        BY <1>1, <1>3, <1>8, ShapeFacts
      <4>2. QED
        BY <1>7, <1>8, <1>12, <3>1, <4>1
    <3>2. CASE t # i
      BY <1>1, <1>8, <1>12, <3>2 DEF Shape
    <3>3. QED
      BY <3>1, <3>2
  <2>2. file_data' = [t \in Tables |-> file_data'[t]]
    BY <1>11
  <2>3. merger' \in {"examine", "write", "done"}
    BY <1>2
  <2>4. QED
    BY <1>1, <1>2, <1>8, <2>1, <2>2, <2>3 DEF Shape
<1>18. RoundInv'
  <2>1. PICK m2 : m2 = min_index'
    OBVIOUS
  <2>2. m2 = IF entry # NoEntry /\ (m = NoIndex \/ file_data[m].key >= entry.key) THEN i ELSE m
    BY <1>11, <2>1
  <2>3. m2 \in Tables \union {NoIndex} /\ m2 # i => m2 \notin lost
    BY <1>3, <1>5, <1>10, <1>13, <1>14, <2>2
  <2>4. m2 # NoIndex => m2 \in Tables /\ m2 < i + 1 /\ file_data'[m2] # NoEntry
    BY <1>3, <1>5, <1>10, <1>12, <1>13, <1>14, <2>2
  <2>5. ASSUME NEW t \in Tables, NEW n \in Remaining(t)', t < i + 1
        PROVE  /\ m2 # NoIndex /\ file_data'[m2].key <= KeyAt(t, n)
               /\ file_data'[m2].key = KeyAt(t, n) => t = m2 /\ n = current_offset'[t]
    <3>1. n \in Remaining(t) /\ (t \in lost => n # current_offset[t])
      BY <1>15, <2>5
    <3>2. KeyAt(t, n) \in Nat /\ n \in 1..Len(tables[t].entries)
      BY <1>1, <3>1, ShapeFacts
    <3>3. CASE t = i
      <4>1. entry # NoEntry /\ n >= c /\ c \in 1..Len(tables[i].entries)
        BY <1>1, <1>3, <1>8, <3>1, <3>3, ShapeFacts
      <4>2. entry.key <= KeyAt(t, n) /\ (entry.key = KeyAt(t, n) => n = c)
        <5>1. n = c \/ c < n
          BY <1>8, <3>2, <4>1
        <5>2. \A a, b \in 1..Len(tables[i].entries) : a < b => KeyAt(i, a) < KeyAt(i, b)
          BY <1>1, <1>3, ShapeFacts
        <5>3. QED
          BY <1>14, <3>2, <3>3, <4>1, <5>1, <5>2
      <4>3. CASE m2 = i
        BY <1>3, <1>7, <1>12, <3>3, <4>1, <4>2, <4>3, Constants_ DEF NoIndex
      <4>4. CASE m2 # i
        <5>1. m2 = m /\ m # NoIndex /\ file_data[m].key < entry.key
          BY <1>13, <1>14, <2>2, <4>1, <4>4
        <5>2. m \notin lost /\ m # i /\ file_data'[m] = file_data[m]
          BY <1>5, <1>10, <1>12, <1>13, <1>14, <4>4, <5>1
        <5>3. QED
          BY <1>13, <1>14, <3>2, <4>1, <4>2, <5>1, <5>2
      <4>5. QED
        BY <4>3, <4>4
    <3>4. CASE t # i
      <4>1. t < i
        BY <1>3, <2>5, <3>4, Constants_
      <4>2. /\ m # NoIndex /\ file_data[m].key <= KeyAt(t, n)
            /\ file_data[m].key = KeyAt(t, n) => t = m /\ n = current_offset[t]
        BY <1>5, <3>1, <4>1
      <4>3. CASE m2 = i
        <5>1. entry # NoEntry /\ file_data[m].key >= entry.key
          BY <1>5, <2>2, <4>2, <4>3, <1>3, Constants_
        <5>2. file_data'[i].key = entry.key /\ entry.key <= KeyAt(t, n)
          BY <1>12, <1>13, <1>14, <3>2, <4>2, <5>1
        <5>3. entry.key # KeyAt(t, n)
          BY <1>10, <1>13, <1>14, <3>1, <3>2, <4>2, <5>1
        <5>4. QED
          BY <1>3, <4>3, <5>2, <5>3, Constants_ DEF NoIndex
      <4>4. CASE m2 # i
        <5>1. m2 = m /\ m \notin lost
          BY <2>2, <2>3, <4>2, <4>4, <1>5
        <5>2. m # i /\ file_data'[m] = file_data[m]
          BY <1>5, <1>12, <4>2, <4>4, <5>1
        <5>3. QED
          BY <1>8, <3>4, <4>2, <5>1, <5>2
      <4>5. QED
        BY <4>3, <4>4
    <3>5. QED
      BY <3>3, <3>4
  <2>6. i + 1 \in 1..(NumTables + 1) /\ (merger' = "examine" <=> i + 1 # NumTables + 1)
        /\ merger' # "done"
    BY <1>2, <1>3, Constants_
  <2>7. QED
    BY <1>2, <1>16, <2>1, <2>3, <2>4, <2>5, <2>6 DEF RoundInv
<1>19. YoungerRemain'
  <2>1. SUFFICES ASSUME NEW t \in Tables, NEW u \in Tables, NEW n \in Remaining(t)',
                        NEW x \in 1..Len(tables[u].entries), t < u, KeyAt(t, n) = KeyAt(u, x)
                 PROVE  x \in Remaining(u)'
    BY <1>2, <1>16 DEF YoungerRemain
  <2>2. n \in Remaining(t)
    BY <1>15, <2>1
  <2>3. x \in Remaining(u)
    BY <1>1, <2>1, <2>2 DEF YoungerRemain
  <2>4. CASE u \notin lost
    BY <1>15, <2>3, <2>4
  <2>5. CASE u \in lost
    <3>1. u = m /\ m # NoIndex /\ u < i
      BY <1>5, <1>10, <2>5
    <3>2. t < i
      BY <1>3, <2>1, <3>1, Constants_
    <3>3. x # current_offset[u]
      <4>1. ASSUME x = current_offset[u]
            PROVE  t = m
        BY <1>5, <1>13, <2>1, <2>2, <3>1, <3>2, <4>1
      <4>2. QED
        BY <2>1, <3>1, <4>1, Constants_
    <3>4. QED
      BY <1>15, <2>3, <3>3
  <2>6. QED
    BY <2>4, <2>5
<1>20. Pending' = Pending
  <2>0. \A k : k \in Pending' <=> \E y \in Tables : \E z \in Remaining(y)' : KeyAt(y, z)' = k
    <3>1. PendingIsRemaining'
      BY <1>17, PendingIs, PTL
    <3>2. QED
      BY <3>1 DEF PendingIsRemaining
  <2>1. ASSUME NEW k \in Pending
        PROVE  k \in Pending'
    <3>1. PICK t, n : t \in Tables /\ n \in Remaining(t) /\ KeyAt(t, n) = k
      BY <1>1, <2>1, PendingFacts
    <3>2. CASE t \in lost /\ n = current_offset[t]
      <4>1. KeyAt(i, c) = k /\ c \in Remaining(i)
        BY <1>8, <1>10, <1>13, <1>14, <3>1, <3>2
      <4>2. PICK j \in Tables : j = i
        BY <1>3
      <4>3. c \in Remaining(j)' /\ KeyAt(j, c)' = k
        BY <1>12, <1>15, <1>16, <4>1, <4>2
      <4>4. \E y \in Tables : \E z \in Remaining(y)' : KeyAt(y, z)' = k
        BY <4>3
      <4>5. QED
        BY <2>0, <4>4
    <3>3. CASE ~(t \in lost /\ n = current_offset[t])
      <4>1. n \in Remaining(t)'
        BY <1>15, <3>1, <3>3
      <4>2. \E y \in Tables : \E z \in Remaining(y)' : KeyAt(y, z)' = k
        BY <1>16, <3>1, <4>1
      <4>3. QED
        BY <2>0, <4>2
    <3>4. QED
      BY <3>2, <3>3
  <2>2. ASSUME NEW k \in Pending'
        PROVE  k \in Pending
    <3>1. \E y \in Tables : \E z \in Remaining(y)' : KeyAt(y, z)' = k
      BY <2>0, <2>2
    <3>2. QED
      BY <1>1, <1>15, <1>16, <3>1, PendingFacts
  <2>3. QED
    BY <2>1, <2>2
<1>21. MergedInv'
  BY <1>1, <1>2, <1>16, <1>20 DEF MergedInv
<1>22. QED
  BY <1>17, <1>18, <1>19, <1>21 DEF MInv

LEMMA WriteStep == MInv /\ WriteSmallest => MInv'
<1> SUFFICES ASSUME MInv, WriteSmallest
             PROVE  MInv'
  OBVIOUS
<1>1. Shape /\ RoundInv /\ YoungerRemain /\ MergedInv
  BY DEF MInv
<1>2. /\ merger = "write" /\ merger' = "examine" /\ i' = 1 /\ min_index' = NoIndex
      /\ UNCHANGED <<tables, remove_tombstones, current_offset>>
  BY DEF WriteSmallest
<1>3. PICK m \in Tables : m = min_index /\ file_data[m] # NoEntry
  BY <1>1 DEF WriteSmallest, RoundInv
<1>4. PICK c \in Nat : /\ c = current_offset[m] /\ c \in 1..Len(tables[m].entries)
                       /\ file_data[m] = tables[m].entries[c]
  <2>1. current_offset[m] \in Nat /\ Len(tables[m].entries) \in Nat
    BY <1>1, ShapeFacts
  <2>2. QED
    BY <1>1, <1>3, <2>1 DEF Shape
<1>5. PICK entry \in TableEntry : entry = file_data[m]
  BY <1>1, <1>4, ShapeFacts
<1>6. PICK K \in Keys : K = entry.key /\ K = KeyAt(m, c) /\ K \in Nat
  BY <1>1, <1>4, <1>5, ShapeFacts DEF KeyAt
<1>7. c \in Remaining(m)
  BY <1>3, <1>4 DEF Remaining
<1>8. \A t \in Tables : \A n \in Remaining(t) :
        K <= KeyAt(t, n) /\ (KeyAt(t, n) = K => t = m /\ n = c)
  <2>1. \A t \in Tables : t < i
    BY <1>1, <1>2, Constants_ DEF RoundInv
  <2>2. QED
    BY <1>1, <1>3, <1>4, <1>5, <1>6, <2>1 DEF RoundInv
<1>9. \A t \in Tables : Remaining(t)' = IF t = m THEN Remaining(t) \ {c} ELSE Remaining(t)
  <2>1. SUFFICES ASSUME NEW t \in Tables
                 PROVE  Remaining(t)' = IF t = m THEN Remaining(t) \ {c} ELSE Remaining(t)
    OBVIOUS
  <2>2. file_data' = [u \in Tables |-> IF u = m THEN NoEntry ELSE file_data[u]]
    BY <1>1, <1>3 DEF WriteSmallest, Shape
  <2>3. /\ Remaining(t)' = {n \in 1..Len(tables[t].entries) :
             n > current_offset[t] \/ (n = current_offset[t] /\ file_data'[t] # NoEntry)}
        /\ Remaining(t) = {n \in 1..Len(tables[t].entries) :
             n > current_offset[t] \/ (n = current_offset[t] /\ file_data[t] # NoEntry)}
    BY <1>2 DEF Remaining
  <2>4. CASE t = m
    BY <1>3, <1>4, <2>2, <2>3, <2>4
  <2>5. CASE t # m
    BY <2>2, <2>3, <2>5
  <2>6. QED
    BY <2>4, <2>5
<1>10. /\ \A t, n : KeyAt(t, n)' = KeyAt(t, n)
       /\ \A k : Youngest(k)' = Youngest(k)
       /\ Survivors' = Survivors
  BY <1>2, SameTables
<1>11. m \in Holding(K) /\ Youngest(K) = entry
  <2>1. ASSUME NEW u \in Tables, NEW x \in 1..Len(tables[u].entries), KeyAt(u, x) = K
        PROVE  u <= m
    <3>1. SUFFICES ASSUME m < u
                   PROVE  FALSE
      BY Constants_
    <3>2. x \in Remaining(u)
      BY <1>1, <1>6, <1>7, <2>1, <3>1 DEF YoungerRemain
    <3>3. QED
      BY <1>8, <2>1, <3>1, <3>2, Constants_
  <2>2. QED
    BY <1>1, <1>4, <1>5, <1>6, <2>1, YoungestIs
<1>12. PICK b \in BOOLEAN : b = IsDropped(entry)
  BY <1>1 DEF IsDropped, Shape, TableEntry
<1>13. merged' = IF b THEN merged ELSE WriteEntry(merged, entry)
  BY <1>3, <1>5, <1>12 DEF WriteSmallest
<1>14. K \in Pending
  BY <1>1, <1>6, <1>7, PendingFacts
<1>15. WellBuilt(merged) /\ merged.entries \in Seq(TableEntry)
  BY <1>1, BuilderFacts DEF Shape
<1>16. \A e \in ToSet(merged.entries) : e.key < K
  BY <1>1, <1>14 DEF MergedInv
<1>17. \/ WellBuilt(merged') /\ merged' = merged /\ b
       \/ WellBuilt(merged') /\ merged'.entries = Append(merged.entries, entry) /\ ~b
  <2>1. CASE b
    BY <1>13, <1>15, <2>1
  <2>2. CASE ~b
    <3>1. \A n \in 1..Len(merged.entries) : merged.entries[n].key < entry.key
      BY <1>6, <1>15, <1>16 DEF ToSet
    <3>2. merged' = WriteEntry(merged, entry)
      BY <1>13, <2>2
    <3>3. QED
      BY <1>15, <2>2, <3>1, <3>2, WriteEntryKeeps
  <2>3. QED
    BY <2>1, <2>2
<1>18. PICK S : S = ToSet(merged.entries)
  OBVIOUS
<1>19. ToSet(merged.entries)' = IF b THEN S ELSE S \union {entry}
  <2>1. CASE b
    BY <1>17, <1>18, <2>1 DEF ToSet
  <2>2. CASE ~b
    <3>1. PICK s \in Seq(TableEntry) : s = merged.entries
      BY <1>15
    <3>2. PICK s1 : s1 = Append(s, entry)
      OBVIOUS
    <3>3. /\ DOMAIN s = 1..Len(s) /\ DOMAIN s1 = 1..(Len(s) + 1) /\ Len(s) \in Nat
          /\ s1[Len(s) + 1] = entry /\ \A n \in 1..Len(s) : s1[n] = s[n]
      BY <3>1, <3>2
    <3>4. {s1[n] : n \in DOMAIN s1} = {s[n] : n \in DOMAIN s} \union {entry}
      BY <3>3
    <3>5. merged'.entries = s1 /\ S = ToSet(s)
      BY <1>17, <1>18, <2>2, <3>1, <3>2
    <3>6. ToSet(s1) = ToSet(s) \union {entry}
      BY <3>4 DEF ToSet
    <3>7. PICK r : r = s1 /\ r = merged'.entries
      BY <3>5
    <3>8. ToSet(merged.entries)' = ToSet(r)
      BY <3>7 DEF ToSet
    <3>9. QED
      BY <2>2, <3>5, <3>6, <3>7, <3>8
  <2>3. QED
    BY <2>1, <2>2
<1>20. Shape'
  <2>1. file_data' = [t \in Tables |-> file_data'[t]]
    BY <1>1 DEF WriteSmallest, Shape
  <2>2. \A t \in Tables : file_data'[t] = NoEntry \/ file_data'[t] = file_data[t]
    BY <1>1 DEF WriteSmallest, Shape
  <2>3. WellBuilt(merged')
    BY <1>17
  <2>4. QED
    BY <1>1, <1>2, <2>1, <2>2, <2>3 DEF Shape
<1>21. RoundInv'
  BY <1>2, Constants_ DEF RoundInv
<1>22. YoungerRemain'
  <2>1. SUFFICES ASSUME NEW t \in Tables, NEW u \in Tables, NEW n \in Remaining(t)',
                        NEW x \in 1..Len(tables[u].entries), t < u, KeyAt(t, n) = KeyAt(u, x)
                 PROVE  x \in Remaining(u)'
    BY <1>2, <1>10 DEF YoungerRemain
  <2>2. n \in Remaining(t)
    BY <1>9, <2>1
  <2>3. x \in Remaining(u)
    BY <1>1, <2>1, <2>2 DEF YoungerRemain
  <2>4. ~(u = m /\ x = c)
    BY <1>6, <1>8, <2>1, <2>2, Constants_
  <2>5. QED
    BY <1>9, <2>3, <2>4
<1>23. Pending' = Pending \ {K}
  <2>1. PendingIsRemaining'
    BY <1>20, PendingIs, PTL
  <2>2. \A k : k \in Pending' <=> \E t \in Tables : \E n \in Remaining(t)' : KeyAt(t, n) = k
    BY <1>10, <2>1 DEF PendingIsRemaining
  <2>3. \A k : k \in Pending <=> \E t \in Tables : \E n \in Remaining(t) : KeyAt(t, n) = k
    BY <1>1, PendingFacts
  <2>4. \A k : k \in Pending' => k \in Pending /\ k # K
    BY <1>8, <1>9, <2>2, <2>3
  <2>5. ASSUME NEW k \in Pending, k # K
        PROVE  k \in Pending'
    <3>1. PICK t, n : t \in Tables /\ n \in Remaining(t) /\ KeyAt(t, n) = k
      BY <2>3, <2>5
    <3>2. n \in Remaining(t)'
      BY <1>6, <1>9, <2>5, <3>1
    <3>3. QED
      BY <2>2, <3>1, <3>2
  <2>6. QED
    BY <2>4, <2>5
<1>24. K \in Survivors <=> ~b
  BY <1>6, <1>11, <1>12 DEF Survivors
<1>25. MergedInv'
  <2>1. PICK P, V : P = Pending /\ V = Survivors
    OBVIOUS
  <2>2. S = {Youngest(k) : k \in V \ P} /\ \A e \in S : \A k \in P : e.key < k
    BY <1>1, <1>18, <2>1 DEF MergedInv
  <2>3. (IF b THEN S ELSE S \union {entry}) = {Youngest(k) : k \in V \ (P \ {K})}
    BY <1>11, <1>14, <1>24, <2>1, <2>2
  <2>4. \A k \in P \ {K} : K < k
    <3>1. SUFFICES ASSUME NEW k \in P \ {K}
                   PROVE  K < k
      OBVIOUS
    <3>2. PICK t, n : t \in Tables /\ n \in Remaining(t) /\ KeyAt(t, n) = k
      BY <1>1, <2>1, <3>1, PendingFacts
    <3>3. K <= k /\ k \in Nat
      BY <1>1, <1>8, <3>2, ShapeFacts
    <3>4. QED
      BY <1>6, <3>1, <3>3
  <2>5. \A e \in (IF b THEN S ELSE S \union {entry}) : \A k \in P \ {K} : e.key < k
    BY <1>6, <2>2, <2>4
  <2>6. QED
    BY <1>10, <1>19, <1>23, <2>1, <2>3, <2>5 DEF MergedInv
<1>26. QED
  BY <1>20, <1>21, <1>22, <1>25 DEF MInv

LEMMA OtherStep == MInv /\ (WriteIndex \/ Terminated \/ UNCHANGED vars) => MInv'
<1> SUFFICES ASSUME MInv, WriteIndex \/ Terminated \/ UNCHANGED vars
             PROVE  MInv'
  OBVIOUS
<1>1. /\ UNCHANGED <<tables, remove_tombstones, current_offset, file_data, i, min_index, merged>>
      /\ merger' = merger \/ (merger = "write" /\ merger' = "done" /\ min_index = NoIndex)
  BY DEF WriteIndex, Terminated, vars
<1>2. Shape'
  BY <1>1 DEF MInv, Shape
<1>3. RoundInv'
  BY <1>1 DEF MInv, RoundInv, Remaining, KeyAt
<1>4. YoungerRemain'
  BY <1>1 DEF MInv, YoungerRemain, Remaining, KeyAt
<1>5. MergedInv'
  <2>1. Pending' = Pending
    BY <1>1 DEF Pending
  <2>2. QED
    BY <1>1, <2>1, SameTables DEF MInv, MergedInv
<1>6. QED
  BY <1>2, <1>3, <1>4, <1>5 DEF MInv

(* MInv is an invariant of the merger: what it read, what is still to be   *)
(* merged and what it wrote always fit together.                           *)
THEOREM Invariance == Spec => []MInv
<1>1. Init => MInv
  BY InitStep
<1>2. MInv /\ [Next]_vars => MInv'
  BY ExamineStep, WriteStep, OtherStep DEF Next
<1>3. QED
  BY <1>1, <1>2, PTL DEF Spec

-----------------------------------------------------------------------------
(* The theorems.                                                           *)

(* Type correctness of the merger's state.                                 *)
THEOREM TypeCorrect == Spec => []TypeOK
<1>1. MInv => TypeOK
  <2> SUFFICES ASSUME MInv
               PROVE  TypeOK
    OBVIOUS
  <2>1. Shape /\ RoundInv
    BY DEF MInv
  <2>2. \A t \in Tables : current_offset[t] \in 0..Len(tables[t].entries)
    BY <2>1, ShapeFacts
  <2>3. ASSUME NEW t \in Tables, file_data[t] # NoEntry
        PROVE  file_data[t] \in ToSet(tables[t].entries)
    <3>1. /\ current_offset[t] \in Nat /\ Len(tables[t].entries) \in Nat
          /\ DOMAIN tables[t].entries = 1..Len(tables[t].entries)
      BY <2>1, ShapeFacts
    <3>2. /\ current_offset[t] \in 1..Len(tables[t].entries)
          /\ file_data[t] = tables[t].entries[current_offset[t]]
      BY <2>1, <2>3, <3>1 DEF Shape
    <3>3. QED
      BY <3>1, <3>2 DEF ToSet
  <2>4. merged.added \in 0..(INDEX_ENTRY_SIZE - 1)
    BY <2>1, BuilderFacts DEF Shape
  <2>5. QED
    BY <2>1, <2>2, <2>3, <2>4 DEF TypeOK, Shape, RoundInv
<1>2. QED
  BY <1>1, Invariance, PTL

LEMMA DoneFacts ==
  ASSUME MInv, merger = "done"
  PROVE  Pending = {}
<1>1. Shape /\ RoundInv
  BY DEF MInv
<1>2. \A t \in Tables : t < i /\ min_index = NoIndex
  BY <1>1, Constants_ DEF RoundInv
<1>3. \A t \in Tables : Remaining(t) = {}
  BY <1>1, <1>2 DEF RoundInv
<1>4. QED
  BY <1>1, <1>3, PendingFacts

(* At every moment of a merge the table written so far holds, in order,    *)
(* the youngest entry of exactly the keys that survive and are no longer   *)
(* pending, whatever the tables hold and however far each was read.        *)
THEOREM KeepsYoungest == Spec => []MergeKeepsYoungest
<1>1. MInv => MergeKeepsYoungest
  <2> SUFFICES ASSUME MInv
               PROVE  MergeKeepsYoungest
    OBVIOUS
  <2>1. WellBuilt(merged) /\ MergedInv
    BY DEF MInv, Shape
  <2>2. Len(merged.entries) \in Nat
    BY <2>1, BuilderFacts
  <2>3. \A n \in 2..Len(merged.entries) : merged.entries[n - 1].key < merged.entries[n].key
    BY <2>1, <2>2 DEF WellBuilt, Ascending
  <2>4. QED
    BY <2>1, <2>3, DoneFacts DEF MergeKeepsYoungest, MergedInv
<1>2. QED
  BY <1>1, Invariance, PTL

(* A lookup in the file of a table, with the builder's filter or with the  *)
(* one read back from the file, finds the key exactly when it is there,    *)
(* in every table of a merge and in its result.                            *)
THEOREM LookupsExact == Spec => []LookupsAreExact
<1>1. MInv => LookupsAreExact
  BY LookupFacts DEF MInv, Shape, LookupsAreExact
<1>2. QED
  BY <1>1, Invariance, PTL

(* What one table answers, and what the tables answer together.            *)
LEMMA TableAnswers ==
  ASSUME Shape, NEW k \in Keys, NEW t \in Tables
  PROVE  /\ \A n \in 1..Len(tables[t].entries) :
              KeyAt(t, n) = k => /\ FindKey(Published(tables[t]), k) = Answer(tables[t].entries[n])
                                 /\ FindKey(Published(tables[t]), k) # Missing
         /\ FindKey(Published(tables[t]), k) # Missing =>
              \E n \in 1..Len(tables[t].entries) : KeyAt(t, n) = k
<1>1. WellBuilt(tables[t])
  BY ShapeFacts
<1>2. Published(tables[t]) = Reader(tables[t])
  BY <1>1, OpenedFacts DEF Reader
<1>3. \A n \in 1..Len(tables[t].entries) : Answer(tables[t].entries[n]) # Missing
  <2>1. \A n \in 1..Len(tables[t].entries) : tables[t].entries[n] \in TableEntry
    BY ShapeFacts
  <2>2. \A entry \in TableEntry : entry.val \in Nat
    BY Constants_ DEF TableEntry
  <2>3. \A entry \in TableEntry : Answer(entry) # Missing
    BY <2>2 DEF Answer, Missing, Deleted
  <2>4. QED
    BY <2>1, <2>3
<1>4. QED
  BY <1>1, <1>2, <1>3, FindKeyIsExact DEF KeyAt

LEMMA InputsAnswer ==
  ASSUME Shape, NEW k \in Keys
  PROVE  Lookup(k) = IF Holding(k) = {} THEN Missing ELSE Answer(Youngest(k))
<1>1. PICK A : A = {t \in Tables : FindKey(Published(tables[t]), k) # Missing}
  OBVIOUS
<1>2. Lookup(k) = IF A = {} THEN Missing
                  ELSE FindKey(Published(tables[CHOOSE t \in A : \A u \in A : u <= t]), k)
  BY <1>1 DEF Lookup
<1>3. \A t \in Tables : t \in A <=> \E n \in 1..Len(tables[t].entries) : KeyAt(t, n) = k
  BY <1>1, TableAnswers
<1>4. \A t \in Tables : t \in Holding(k) <=> \E n \in 1..Len(tables[t].entries) : KeyAt(t, n) = k
  BY ShapeFacts DEF Holding, KeyAt, ToSet
<1>5. A = Holding(k)
  BY <1>1, <1>3, <1>4 DEF Holding
<1>6. CASE Holding(k) = {}
  BY <1>2, <1>5, <1>6
<1>7. CASE Holding(k) # {}
  <2>1. PICK t \in Tables : \E n \in 1..Len(tables[t].entries) :
           /\ KeyAt(t, n) = k
           /\ \A u \in Tables : \A m \in 1..Len(tables[u].entries) : KeyAt(u, m) = k => u <= t
    BY <1>7, HasYoungest
  <2>2. PICK n \in 1..Len(tables[t].entries) :
           /\ KeyAt(t, n) = k
           /\ \A u \in Tables : \A m \in 1..Len(tables[u].entries) : KeyAt(u, m) = k => u <= t
    BY <2>1
  <2>3. t \in Holding(k) /\ Youngest(k) = tables[t].entries[n]
    BY <2>2, YoungestIs
  <2>4. t \in A /\ \A u \in A : u <= t
    BY <1>1, <1>3, <1>5, <2>2, <2>3
  <2>5. PICK y : y = CHOOSE u \in A : \A v \in A : v <= u
    OBVIOUS
  <2>6. y \in A /\ \A v \in A : v <= y
    BY <2>4, <2>5
  <2>7. y = t
    BY <1>1, <2>4, <2>6, Constants_
  <2>8. Lookup(k) = FindKey(Published(tables[t]), k)
    BY <1>2, <2>4, <2>5, <2>7
  <2>9. QED
    BY <1>7, <2>2, <2>3, <2>8, TableAnswers
<1>8. QED
  BY <1>6, <1>7

(* A finished merge answers every lookup as its inputs did, from the       *)
(* youngest to the oldest; only a tombstone that it drops leaves its key   *)
(* missing.                                                                *)
THEOREM AnswersAsInputs == Spec => []MergeAnswersAsInputs
<1>1. MInv => MergeAnswersAsInputs
  <2>1. SUFFICES ASSUME MInv, merger = "done", NEW k \in Keys
                 PROVE  FindKey(Published(merged), k) =
                          IF remove_tombstones /\ Lookup(k) = Deleted THEN Missing ELSE Lookup(k)
    BY DEF MergeAnswersAsInputs
  <2>2. Shape /\ MergedInv /\ WellBuilt(merged)
    BY <2>1 DEF MInv, Shape
  <2>3. Pending = {}
    BY <2>1, DoneFacts
  <2>4. PICK e : e = merged.entries
    OBVIOUS
  <2>5. DOMAIN e = 1..Len(e)
    BY <2>2, <2>4, BuilderFacts
  <2>6. ToSet(e) = {Youngest(x) : x \in Survivors}
    BY <2>2, <2>3, <2>4 DEF MergedInv
  <2>7. \A x \in Survivors : x \in Keys /\ Youngest(x).key = x
    <3>1. SUFFICES ASSUME NEW x \in Survivors
                   PROVE  x \in Keys /\ Youngest(x).key = x
      OBVIOUS
    <3>2. x \in Keys /\ Holding(x) # {}
      BY DEF Survivors
    <3>3. PICK t \in Tables : \E n \in 1..Len(tables[t].entries) :
             /\ KeyAt(t, n) = x
             /\ \A u \in Tables : \A m \in 1..Len(tables[u].entries) : KeyAt(u, m) = x => u <= t
      BY <2>2, <3>2, HasYoungest
    <3>4. QED
      BY <2>2, <3>2, <3>3, YoungestIs DEF KeyAt
  <2>8. Lookup(k) = IF Holding(k) = {} THEN Missing ELSE Answer(Youngest(k))
    BY <2>2, InputsAnswer
  <2>9. /\ \A n \in 1..Len(e) : e[n].key = k => FindKey(Published(merged), k) = Answer(e[n])
        /\ (\A n \in 1..Len(e) : e[n].key # k) => FindKey(Published(merged), k) = Missing
    <3>1. Published(merged) = Reader(merged)
      BY <2>2, OpenedFacts DEF Reader
    <3>2. QED
      BY <2>2, <2>4, <3>1, FindKeyIsExact
  <2>10. CASE k \in Survivors
    <3>1. PICK n \in 1..Len(e) : e[n] = Youngest(k)
      BY <2>5, <2>6, <2>10 DEF ToSet
    <3>2. FindKey(Published(merged), k) = Answer(Youngest(k))
      BY <2>7, <2>9, <2>10, <3>1
    <3>3. Holding(k) # {} /\ Lookup(k) = Answer(Youngest(k))
      BY <2>8, <2>10 DEF Survivors
    <3>4. ~(remove_tombstones /\ Lookup(k) = Deleted)
      <4>1. PICK t \in Tables : \E n2 \in 1..Len(tables[t].entries) :
               /\ KeyAt(t, n2) = k
               /\ \A u \in Tables : \A m \in 1..Len(tables[u].entries) : KeyAt(u, m) = k => u <= t
        BY <2>2, <3>3, HasYoungest
      <4>2. Youngest(k) \in TableEntry
        <5>1. PICK n2 \in 1..Len(tables[t].entries) :
                 /\ KeyAt(t, n2) = k
                 /\ \A u \in Tables : \A m \in 1..Len(tables[u].entries) : KeyAt(u, m) = k => u <= t
          BY <4>1
        <5>2. Youngest(k) = tables[t].entries[n2]
          BY <2>2, <5>1, YoungestIs
        <5>3. QED
          BY <2>2, <5>2, ShapeFacts
      <4>3. Youngest(k).val \in Nat /\ Youngest(k).val # 0
        BY <4>2, Constants_ DEF TableEntry
      <4>4. QED
        BY <2>10, <3>3, <4>3 DEF Survivors, IsDropped, Answer, Deleted
    <3>5. QED
      BY <3>2, <3>3, <3>4
  <2>11. CASE k \notin Survivors
    <3>1. \A n \in 1..Len(e) : e[n].key # k
      BY <2>5, <2>6, <2>7, <2>11 DEF ToSet
    <3>2. FindKey(Published(merged), k) = Missing
      BY <2>9, <3>1
    <3>3. CASE Holding(k) = {}
      BY <2>8, <3>2, <3>3 DEF Missing, Deleted
    <3>4. CASE Holding(k) # {}
      BY <2>8, <2>11, <3>2, <3>4 DEF Survivors, IsDropped, Answer
    <3>5. QED
      BY <3>3, <3>4
  <2>12. QED
    BY <2>10, <2>11
<1>2. QED
  BY <1>1, Invariance, PTL
=============================================================================
