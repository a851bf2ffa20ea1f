---------------------------- MODULE LSMStore_proofs ----------------------------
(***************************************************************************)
(* Proofs about LSMStore, for every set of keys and of readers, every      *)
(* number of levels and of writes, and every trigger of at least two       *)
(* tables: a get answers as the store stood at one moment of the call.     *)
(*                                                                         *)
(* Inv is the inductive invariant.  It says what a search that starts at   *)
(* some level would find in this state: the newest write of its key, or    *)
(* nothing if that is a tombstone (CoverInv).  What is about to disappear, *)
(* the memtable that was flushed and the inputs of a merge, is found once  *)
(* more further down (FlushInv, FlightInv), and what is about to appear is *)
(* what the inputs have (MergeInv).  A get has nothing older than its      *)
(* target around it, and ahead of it what it must find (ReaderInv).        *)
(***************************************************************************)
EXTENDS LSMStore, FiniteSetTheorems, SequenceTheorems, WellFoundedInduction, TLAPS

List(l) == readers_at_level[l]
Active == memtable[active]
Inactive == memtable[1 - active]

(* Entry e may be found under key k.                                       *)
IsEntry(k, e) == e = 0 \/ (e \in 1..Len(writes) /\ writes[e].key = k)
EntryInv ==
  /\ \A i \in {0, 1} : \A k \in Keys : IsEntry(k, memtable[i][k])
  /\ \A l \in Levels : \A i \in 1..Len(List(l)) : \A k \in Keys : IsEntry(k, List(l)[i][k])
  /\ \A l \in 0..(MAX_LEVEL - 1) : \A k \in Keys : IsEntry(k, merge[l].table[k])
  /\ \A r \in Readers : \A i \in 1..Len(readers[r]) : \A k \in Keys :
       IsEntry(k, readers[r][i][k])

(* What the list of a level, the oldest tables of it, and what is left of  *)
(* the list that a get has loaded, have for key k: nothing, or x first.    *)
NoneAt(l, k) == \A i \in 1..Len(List(l)) : List(l)[i][k] = 0
FirstAt(l, k, x) ==
  x # 0 /\ \E i \in 1..Len(List(l)) :
    List(l)[i][k] = x /\ \A j \in 1..Len(List(l)) : i < j => List(l)[j][k] = 0

NoInput(l, k) == \A i \in 1..COMPACTION_TRIGGER : List(l)[i][k] = 0
FirstInput(l, k, x) ==
  x # 0 /\ \E i \in 1..COMPACTION_TRIGGER :
    List(l)[i][k] = x /\ \A j \in 1..COMPACTION_TRIGGER : i < j => List(l)[j][k] = 0

NoneLeft(r, k) == \A i \in 1..Len(readers[r]) : readers[r][i][k] = 0
FirstLeft(r, k, x) ==
  x # 0 /\ \E i \in 1..Len(readers[r]) :
    readers[r][i][k] = x /\ \A j \in 1..Len(readers[r]) : i < j => readers[r][j][k] = 0

(* A search for k from level l on, in this state, finds x, or nothing.     *)
Finds(k, l, x) ==
  \E m \in Levels : /\ m >= l /\ FirstAt(m, k, x)
                    /\ \A q \in Levels : l <= q /\ q < m => NoneAt(q, k)
FindsNone(k, l) == \A m \in Levels : m >= l => NoneAt(m, k)

(* It answers as if it found x.                                            *)
Serves(k, l, x) == Finds(k, l, x) \/ (FindsNone(k, l) /\ Answer(x) = 0)

(* A list is long enough for the merge that is under way, and no table is  *)
(* deeper than curr_max_level, but for one that has just been put there.   *)
DepthInv ==
  /\ \A l \in 0..(MAX_LEVEL - 1) :
       merge[l].at # "idle" => Len(List(l)) >= COMPACTION_TRIGGER
  /\ \A l \in Levels : l > curr_max_level =>
       \/ Len(List(l)) = 0
       \/ /\ l = curr_max_level + 1 /\ Len(List(l)) = 1
          /\ merge[curr_max_level].at = "remove"

(* A merged table has what comes first in its inputs, unless that is a     *)
(* tombstone with nothing below.                                           *)
MergeInv ==
  \A l \in 0..(MAX_LEVEL - 1) : merge[l].at = "add" => \A k \in Keys :
    /\ NoInput(l, k) => merge[l].table[k] = 0
    /\ \A x \in 1..MaxWrites : FirstInput(l, k, x) =>
         \/ merge[l].table[k] = x
         \/ merge[l].table[k] = 0 /\ FindsNone(k, l + 1) /\ Answer(x) = 0

(* Once it is in place the inputs are not needed any more.                 *)
FlightInv ==
  \A l \in 0..(MAX_LEVEL - 1) : merge[l].at = "remove" => \A k \in Keys :
    \A x \in 1..MaxWrites : FirstInput(l, k, x) => Serves(k, l + 1, x)

(* The store as a whole answers with the newest write that was applied.    *)
CoverInv ==
  \A k \in Keys : \A w \in 0..MaxWrites : w = NewestOf(k, completed) =>
    /\ Active[k] # 0 => Active[k] = w
    /\ Active[k] = 0 /\ Inactive[k] # 0 => Inactive[k] = w
    /\ Active[k] = 0 /\ Inactive[k] = 0 => Serves(k, 0, w)

(* The inactive memtable is not needed any more when it is cleared.        *)
FlushInv ==
  /\ flusher = "idle" => Inactive = Empty
  /\ flusher = "clear" => \A k \in Keys : \A x \in 1..MaxWrites :
       Inactive[k] = x => Serves(k, 0, x)

(* Nothing that was overwritten at v, the newest write of k among the      *)
(* first n.                                                                *)
Newer(v, e) == e = 0 \/ e >= v

(* It is right to find nothing, at some moment since n.                    *)
MayMiss(k, n) == \E m \in n..Len(writes) : Answer(NewestOf(k, m)) = 0
Ahead(k, n, v, l) ==
  \/ \E x \in 1..MaxWrites : x >= v /\ Finds(k, l, x)
  \/ FindsNone(k, l) /\ MayMiss(k, n)

(* Get r, which looks for k with target n and is at level l.               *)
Looking(r) == reader[r] \in {"inactive", "load", "tables"}
Behind(r, k, n, v, l) ==
  /\ Looking(r) => n <= completed /\ result[r] = 0 /\ Newer(v, Active[k])
  /\ reader[r] \in {"load", "tables"} =>
       /\ Newer(v, Inactive[k])
       /\ \A m \in Levels : m < l => \A i \in 1..Len(List(m)) : Newer(v, List(m)[i][k])
InMemory(r, k, n, v) ==
  reader[r] = "inactive" =>
    /\ Newer(v, Inactive[k])
    /\ Inactive[k] = 0 => Ahead(k, n, v, 0)
AtLevel(r, k, n, v, l) ==
  /\ reader[r] = "load" => Ahead(k, n, v, l)
  /\ reader[r] = "tables" =>
       /\ \/ \E x \in 1..MaxWrites : x >= v /\ FirstLeft(r, k, x)
          \/ NoneLeft(r, k) /\ Ahead(k, n, v, l + 1)
       /\ \A i \in 1..Len(List(l)) :
            \/ Newer(v, List(l)[i][k])
            \/ \E j \in 1..Len(readers[r]) : readers[r][j][k] = List(l)[i][k]
ReaderInv ==
  \A r \in Readers : \A k \in Keys : \A n, v \in 0..MaxWrites : \A l \in Levels :
    key[r] = k /\ target[r] = n /\ level[r] = l =>
      /\ n <= Len(writes)
      /\ v = NewestOf(k, n) =>
           Behind(r, k, n, v, l) /\ InMemory(r, k, n, v) /\ AtLevel(r, k, n, v, l)

FindInv == DepthInv /\ MergeInv /\ FlightInv
Inv == TypeOK /\ EntryInv /\ FindInv /\ CoverInv /\ FlushInv /\ ReaderInv

-----------------------------------------------------------------------------
(* What a step of a get and of a compactor leaves alone.                   *)

LEMMA GetFrame ==
  ASSUME NEW r \in Readers, Search(r) \/ \E k \in Keys : Call(r, k)
  PROVE  UNCHANGED <<writerVars, memVars, flusher, levelVars>>
  BY DEF Search, LookInActive, LookInInactive, LoadReaders, FindKey, LeaveLevel, Call

LEMMA CompactorFrame ==
  ASSUME NEW l, MergeFiles(l) \/ AddMerged(l) \/ RemoveFiles(l)
  PROVE  UNCHANGED <<writerVars, memVars, flusher, getVars>>
  BY DEF MergeFiles, AddMerged, RemoveFiles

-----------------------------------------------------------------------------
(* Maxima.                                                                 *)

(* A set of numbers up to n has a greatest one.                            *)
LEMMA MaxExists ==
  ASSUME NEW n \in Nat, NEW S, S \subseteq 0..n, S # {}
  PROVE  \E x \in S : \A y \in S : x >= y
<1> DEFINE Above(x) == {y \in S : y > x}
           F == {Above(x) : x \in S}
<1>1. IsFiniteSet(S)
  <2>1. IsFiniteSet(0..n)
    <3>1. 0 \in Int /\ n \in Int
      OBVIOUS
    <3>2. QED
      BY ONLY <3>1, FS_Interval
  <2>2. QED
    BY ONLY <2>1, S \subseteq 0..n, FS_Subset
<1>2. F \subseteq FiniteSubsetsOf(S)
  BY <1>1, FS_Subset DEF FiniteSubsetsOf
<1>3. PICK A \in F : \A B \in F : <<B, A>> \notin StrictSubsetOrdering(S)
  <2>1. F # {}
    OBVIOUS
  <2>2. QED
    BY <1>2, <2>1, FS_StrictSubsetOrderingWellFounded, WFMin
<1>4. PICK x \in S : A = Above(x)
  OBVIOUS
<1>5. ASSUME NEW y \in S, y > x
      PROVE  FALSE
  <2>1. Above(y) \in F /\ Above(y) \subseteq Above(x) /\ y \in Above(x) /\ y \notin Above(y)
    <3>1. \A z \in S : z \in Nat
      OBVIOUS
    <3>2. \A z \in S : z > y => z > x
      BY <1>5, <3>1
    <3>3. ~(y > y)
      BY <1>5, <3>1
    <3>4. QED
      BY <1>5, <3>2, <3>3
  <2>2. <<Above(y), A>> \in StrictSubsetOrdering(S)
    BY <1>4, <2>1 DEF StrictSubsetOrdering
  <2>3. QED
    BY <1>3, <2>1, <2>2
<1>6. QED
  BY <1>5

LEMMA MaxFacts ==
  ASSUME NEW n \in Nat, NEW S, S \subseteq 0..n, S # {}
  PROVE  Max(S) \in S /\ \A y \in S : Max(S) >= y
  BY MaxExists DEF Max

-----------------------------------------------------------------------------
(* The newest of the first writes of a key.                                *)

LEMMA NewestFacts ==
  ASSUME TypeOK, NEW k \in Keys, NEW n \in 0..Len(writes),
         NEW w, w = NewestOf(k, n)
  PROVE  /\ w \in 0..n /\ w \in 0..Len(writes) /\ w \in 0..MaxWrites
         /\ w # 0 => writes[w].key = k
         /\ \A u \in 1..n : writes[u].key = k => u <= w
<1> DEFINE S == {u \in 1..n : writes[u].key = k} \union {0}
<1>1. n \in Nat /\ S \subseteq 0..n /\ S # {} /\ w = Max(S)
  BY DEF NewestOf
<1>2. w \in S /\ \A u \in S : w >= u
  BY <1>1, MaxFacts
<1>3. w \in 0..n /\ n <= Len(writes) /\ Len(writes) \in Nat /\ Len(writes) <= MaxWrites
  BY <1>1, <1>2 DEF TypeOK
<1>4. w # 0 => writes[w].key = k
  BY <1>2
<1>5. \A u \in 1..n : writes[u].key = k => u <= w
  BY <1>2, <1>3
<1>6. QED
  BY <1>3, <1>4, <1>5, ConstantsAssumption DEF ConstantsAssumption

LEMMA NewestUnique ==
  ASSUME TypeOK, NEW k \in Keys, NEW n \in 0..Len(writes), NEW x \in 0..n,
         x # 0 => writes[x].key = k,
         \A u \in 1..n : writes[u].key = k => u <= x
  PROVE  NewestOf(k, n) = x
<1>1. PICK w : w = NewestOf(k, n)
  OBVIOUS
<1>2. /\ w \in 0..n /\ (w # 0 => writes[w].key = k)
      /\ \A u \in 1..n : writes[u].key = k => u <= w
  BY <1>1, NewestFacts
<1>3. n \in Nat /\ w \in Nat /\ x \in Nat
  BY <1>2
<1>4. w <= x /\ x <= w
  BY <1>2, <1>3
<1>5. QED
  BY <1>1, <1>3, <1>4

(* It never changes: a step only appends to the writes.                    *)
LEMMA WritesGrow ==
  ASSUME TypeOK, Next
  PROVE  /\ Len(writes) \in Nat /\ Len(writes') \in Nat /\ Len(writes') >= Len(writes)
         /\ \A i \in 1..Len(writes) : writes'[i] = writes[i]
         /\ writes' \in Seq([key : Keys, tombstone : BOOLEAN])
         /\ Len(writes') <= MaxWrites
<1>1. Len(writes) \in Nat /\ writes \in Seq([key : Keys, tombstone : BOOLEAN])
  BY DEF TypeOK
<1>2. ASSUME NEW k \in Keys, NEW tombstone \in BOOLEAN, Put(k, tombstone)
      PROVE  /\ Len(writes') = Len(writes) + 1 /\ Len(writes') <= MaxWrites
             /\ \A i \in 1..Len(writes) : writes'[i] = writes[i]
             /\ writes' \in Seq([key : Keys, tombstone : BOOLEAN])
  <2>1. [key |-> k, tombstone |-> tombstone] \in [key : Keys, tombstone : BOOLEAN]
    OBVIOUS
  <2>2. /\ Len(writes') = Len(writes) + 1
        /\ \A i \in 1..Len(writes) : writes'[i] = writes[i]
        /\ writes' \in Seq([key : Keys, tombstone : BOOLEAN])
    BY <1>1, <1>2, <2>1, AppendProperties DEF Put
  <2>3. Len(writes') <= MaxWrites
    BY <1>1, <1>2, <2>2, ConstantsAssumption DEF Put, ConstantsAssumption
  <2>4. QED
    BY <2>2, <2>3
<1>3. UNCHANGED writes \/ \E k \in Keys, tombstone \in BOOLEAN : Put(k, tombstone)
  BY GetFrame, CompactorFrame DEF Next, Insert, SwapActive, AddTable, ClearMemtable, writerVars
<1>4. CASE UNCHANGED writes
  BY <1>1, <1>4 DEF TypeOK
<1>5. CASE \E k \in Keys, tombstone \in BOOLEAN : Put(k, tombstone)
  <2>1. /\ Len(writes') = Len(writes) + 1 /\ Len(writes') <= MaxWrites
        /\ \A i \in 1..Len(writes) : writes'[i] = writes[i]
        /\ writes' \in Seq([key : Keys, tombstone : BOOLEAN])
    BY ONLY <1>2, <1>5, Zenon
  <2>2. QED
    BY <1>1, <2>1
<1>6. QED
  BY <1>3, <1>4, <1>5

LEMMA NewestStays ==
  ASSUME TypeOK, Next, NEW k \in Keys, NEW n \in 0..Len(writes)
  PROVE  NewestOf(k, n)' = NewestOf(k, n)
<1>1. \A u \in 1..n : writes'[u] = writes[u]
  BY WritesGrow
<1>2. {u \in 1..n : writes'[u].key = k} = {u \in 1..n : writes[u].key = k}
  BY <1>1
<1>3. QED
  BY <1>2 DEF NewestOf

LEMMA AnswerStays ==
  ASSUME TypeOK, Next, NEW w \in 0..Len(writes)
  PROVE  Answer(w)' = Answer(w)
<1>1. w # 0 => writes'[w] = writes[w]
  BY WritesGrow
<1>2. w = 0 \/ w > 0
  OBVIOUS
<1>3. CASE w = 0
  BY <1>3 DEF Answer, IsTombstone
<1>4. CASE w # 0
  BY <1>1, <1>4 DEF Answer, IsTombstone
<1>5. QED
  BY <1>3, <1>4

LEMMA EntryStays ==
  ASSUME TypeOK, Next, NEW k, NEW e, IsEntry(k, e)
  PROVE  IsEntry(k, e)'
  BY WritesGrow DEF IsEntry

LEMMA MissStays ==
  ASSUME TypeOK, Next, NEW k \in Keys, NEW n \in 0..Len(writes), MayMiss(k, n)
  PROVE  MayMiss(k, n)'
<1>1. PICK m \in n..Len(writes) : Answer(NewestOf(k, m)) = 0
  BY DEF MayMiss
<1>2. m \in 0..Len(writes) /\ m \in n..Len(writes')
  BY WritesGrow
<1>3. PICK w : w = NewestOf(k, m)
  OBVIOUS
<1>4. w \in 0..Len(writes) /\ NewestOf(k, m)' = w
  BY <1>2, <1>3, NewestFacts, NewestStays
<1>5. Answer(w)' = 0
  BY <1>1, <1>3, <1>4, AnswerStays
<1>6. QED
  BY <1>2, <1>4, <1>5 DEF MayMiss, Answer, IsTombstone

(* More writes have a newer one.                                           *)
LEMMA NewestGrows ==
  ASSUME TypeOK, NEW k \in Keys, NEW n \in 0..Len(writes), NEW m \in 0..Len(writes), n <= m
  PROVE  NewestOf(k, n) <= NewestOf(k, m)
<1>1. PICK v : v = NewestOf(k, n)
  OBVIOUS
<1>2. PICK w : w = NewestOf(k, m)
  OBVIOUS
<1>3. v \in 0..n /\ (v # 0 => writes[v].key = k)
  BY <1>1, NewestFacts
<1>4. w \in 0..m /\ \A u \in 1..m : writes[u].key = k => u <= w
  BY <1>2, NewestFacts
<1>5. n \in Nat /\ m \in Nat /\ v \in Nat /\ w \in Nat
  BY <1>3, <1>4
<1>6. v <= w
  BY <1>3, <1>4, <1>5
<1>7. QED
  BY <1>1, <1>2, <1>6

(* An entry of k that is not older than the newest of n writes was the     *)
(* newest at some moment since.                                            *)
LEMMA EntryWasNewest ==
  ASSUME TypeOK, NEW k \in Keys, NEW n \in 0..Len(writes),
         NEW x, x # 0, IsEntry(k, x), x >= NewestOf(k, n)
  PROVE  \E m \in n..Len(writes) : NewestOf(k, m) = x
<1>1. x \in 1..Len(writes) /\ writes[x].key = k /\ n \in Nat
  BY DEF IsEntry
<1>2. PICK v : v = NewestOf(k, n)
  OBVIOUS
<1>3. v \in 0..n /\ (\A u \in 1..n : writes[u].key = k => u <= v) /\ x >= v
  BY <1>2, NewestFacts
<1>4. CASE x >= n
  <2>1. x \in 0..Len(writes) /\ x \in 0..x /\ x \in n..Len(writes) /\ \A u \in 1..x : u <= x
    BY <1>1, <1>4
  <2>2. QED
    BY <1>1, <2>1, NewestUnique
<1>5. CASE x < n
  <2>1. x = v
    BY <1>1, <1>3, <1>5
  <2>2. n \in n..Len(writes)
    BY <1>1
  <2>3. QED
    BY <1>2, <2>1, <2>2
<1>6. QED
  BY <1>1, <1>4, <1>5

LEMMA TombstoneMayMiss ==
  ASSUME TypeOK, NEW k \in Keys, NEW n \in 0..Len(writes),
         NEW x, x # 0, IsEntry(k, x), x >= NewestOf(k, n), Answer(x) = 0
  PROVE  MayMiss(k, n)
  BY EntryWasNewest DEF MayMiss

-----------------------------------------------------------------------------
(* The lists after a step that changes one.                                *)

Merging == 0..(MAX_LEVEL - 1)

(* Table t is appended to level l.                                         *)
Appended(l, t) ==
  readers_at_level' = [readers_at_level EXCEPT ![l] = Append(List(l), t)]

(* The oldest tables of level l are erased.                                *)
Dropped(l) ==
  readers_at_level' =
    [readers_at_level EXCEPT ![l] = SubSeq(List(l), COMPACTION_TRIGGER + 1, Len(List(l)))]

LEMMA AppendedLists ==
  ASSUME TypeOK, NEW l \in Levels, NEW t \in Table, Appended(l, t)
  PROVE  /\ \A m \in Levels : m # l => List(m)' = List(m)
         /\ List(l)' \in Seq(Table)
         /\ Len(List(l)) \in Nat /\ Len(List(l)') = Len(List(l)) + 1
         /\ \A i \in 1..Len(List(l)) : List(l)'[i] = List(l)[i]
         /\ List(l)'[Len(List(l)) + 1] = t
<1>1. List(l) \in Seq(Table) /\ List(l)' = Append(List(l), t)
  BY DEF TypeOK, Appended, List
<1>2. \A m \in Levels : m # l => List(m)' = List(m)
  BY DEF TypeOK, Appended, List
<1>3. QED
  BY <1>1, <1>2, AppendProperties

LEMMA DroppedLists ==
  ASSUME TypeOK, NEW l \in Levels, Dropped(l), Len(List(l)) >= COMPACTION_TRIGGER
  PROVE  /\ \A m \in Levels : m # l => List(m)' = List(m)
         /\ List(l)' \in Seq(Table)
         /\ Len(List(l)) \in Nat /\ COMPACTION_TRIGGER \in Nat
         /\ Len(List(l)') = Len(List(l)) - COMPACTION_TRIGGER
         /\ \A i \in 1..Len(List(l)') : List(l)'[i] = List(l)[i + COMPACTION_TRIGGER]
<1>1. /\ List(l) \in Seq(Table) /\ Len(List(l)) \in Nat
      /\ List(l)' = SubSeq(List(l), COMPACTION_TRIGGER + 1, Len(List(l)))
  <2>1. readers_at_level \in [Levels -> Seq(Table)]
    BY DEF TypeOK
  <2>2. List(l) \in Seq(Table)
    BY <2>1 DEF List
  <2>3. List(l)' = SubSeq(List(l), COMPACTION_TRIGGER + 1, Len(List(l)))
    BY <2>1 DEF Dropped, List
  <2>4. QED
    BY <2>2, <2>3
<1>2. \A m \in Levels : m # l => List(m)' = List(m)
  BY DEF TypeOK, Dropped, List
<1>3. COMPACTION_TRIGGER \in Nat
  BY ConstantsAssumption DEF ConstantsAssumption
<1>4. /\ List(l)' \in Seq(Table)
      /\ Len(List(l)') = Len(List(l)) - COMPACTION_TRIGGER
  BY <1>1, <1>3
<1>5. ASSUME NEW i \in 1..Len(List(l)')
      PROVE  List(l)'[i] = List(l)[i + COMPACTION_TRIGGER]
  BY <1>1, <1>3, <1>4
<1>6. QED
  BY <1>1, <1>2, <1>3, <1>4, <1>5

(* What an append does to the first entry at a level.                      *)
LEMMA AppendedFirst ==
  ASSUME TypeOK, NEW l \in Levels, NEW t \in Table, Appended(l, t), NEW k \in Keys,
         NEW m \in Levels, m # l \/ t[k] = 0
  PROVE  /\ NoneAt(m, k) => NoneAt(m, k)'
         /\ \A x : FirstAt(m, k, x) => FirstAt(m, k, x)'
<1>1. CASE m # l
  <2>1. List(m)' = List(m)
    BY <1>1, AppendedLists
  <2>2. QED
    BY <2>1 DEF NoneAt, FirstAt
<1>2. CASE m = l /\ t[k] = 0
  <2>1. PICK n \in Nat : n = Len(List(l))
    BY AppendedLists
  <2>2. /\ \A i \in 1..n : List(l)'[i] = List(l)[i]
        /\ List(l)'[n + 1] = t /\ Len(List(l)') = n + 1
    BY <2>1, AppendedLists
  <2>3. \A i \in 1..(n + 1) : i \in 1..n \/ i = n + 1
    OBVIOUS
  <2>4. \A i \in 1..n : i \in 1..(n + 1)
    OBVIOUS
  <2>5. NoneAt(l, k) => NoneAt(l, k)'
    BY <1>2, <2>1, <2>2, <2>3 DEF NoneAt
  <2>6. ASSUME NEW x, FirstAt(l, k, x)
        PROVE  FirstAt(l, k, x)'
    <3>1. PICK i \in 1..n :
            List(l)[i][k] = x /\ \A j \in 1..n : i < j => List(l)[j][k] = 0
      BY <2>1, <2>6 DEF FirstAt
    <3>2. /\ i \in 1..(n + 1) /\ List(l)'[i][k] = x
          /\ \A j \in 1..(n + 1) : i < j => List(l)'[j][k] = 0
      BY <1>2, <2>2, <2>3, <2>4, <3>1
    <3>3. QED
      BY <2>2, <2>6, <3>2 DEF FirstAt
  <2>7. QED
    BY <1>2, <2>5, <2>6
<1>3. QED
  BY <1>1, <1>2

LEMMA AppendedIsFirst ==
  ASSUME TypeOK, NEW l \in Levels, NEW t \in Table, Appended(l, t), NEW k \in Keys, t[k] # 0
  PROVE  FirstAt(l, k, t[k])'
<1>1. PICK n \in Nat : n = Len(List(l))
  BY AppendedLists
<1>2. PICK x : x = t[k]
  OBVIOUS
<1>3. List(l)'[n + 1] = t /\ Len(List(l)') = n + 1
  BY <1>1, AppendedLists
<1>4. n + 1 \in 1..(n + 1) /\ \A j \in 1..(n + 1) : ~(n + 1 < j)
  OBVIOUS
<1>5. FirstAt(l, k, x)'
  BY <1>2, <1>3, <1>4 DEF FirstAt
<1>6. QED
  BY <1>2, <1>5

(* A search that does not meet the new table finds what it found before.   *)
LEMMA AppendedFinds ==
  ASSUME TypeOK, NEW l \in Levels, NEW t \in Table, Appended(l, t), NEW k \in Keys,
         NEW p \in Nat,
         t[k] = 0 \/ l < p \/ \E q \in Levels : p <= q /\ q < l /\ ~NoneAt(q, k)
  PROVE  /\ FindsNone(k, p) => FindsNone(k, p)'
         /\ \A x : Finds(k, p, x) => Finds(k, p, x)'
<1>1. \A m \in Levels : m \in Nat
  BY ConstantsAssumption DEF Levels, ConstantsAssumption
<1>2. ASSUME FindsNone(k, p), NEW m \in Levels, m >= p
      PROVE  NoneAt(m, k)'
  <2>1. m # l \/ t[k] = 0
    BY <1>1, <1>2 DEF FindsNone
  <2>2. NoneAt(m, k)
    BY <1>2 DEF FindsNone
  <2>3. QED
    BY <2>1, <2>2, AppendedFirst
<1>3. ASSUME NEW x, Finds(k, p, x)
      PROVE  Finds(k, p, x)'
  <2>1. PICK m \in Levels : /\ m >= p /\ FirstAt(m, k, x)
                            /\ \A q \in Levels : p <= q /\ q < m => NoneAt(q, k)
    BY <1>3 DEF Finds
  <2>2. t[k] = 0 \/ l < p \/ m < l
    <3>1. ASSUME NEW q \in Levels, p <= q, q < l, ~NoneAt(q, k)
          PROVE  m < l
      BY <1>1, <2>1, <3>1
    <3>2. QED
      BY <3>1
  <2>3. (m # l \/ t[k] = 0) /\ \A q \in Levels : p <= q /\ q < m => q # l \/ t[k] = 0
    BY <1>1, <2>1, <2>2
  <2>4. FirstAt(m, k, x)' /\ \A q \in Levels : p <= q /\ q < m => NoneAt(q, k)'
    BY <2>1, <2>3, AppendedFirst
  <2>5. QED
    BY <2>1, <2>4 DEF Finds
<1>4. QED
  BY <1>2, <1>3 DEF FindsNone

(* What comes first at a level that loses the inputs of a merge comes      *)
(* first there still, or was one of them.                                  *)
LEMMA DroppedFirst ==
  ASSUME TypeOK, NEW l \in Levels, Dropped(l), Len(List(l)) >= COMPACTION_TRIGGER,
         NEW k \in Keys
  PROVE  /\ NoneAt(l, k) => NoneAt(l, k)'
         /\ \A x : FirstAt(l, k, x) => FirstAt(l, k, x)' \/ (NoneAt(l, k)' /\ FirstInput(l, k, x))
<1>1. PICK n \in Nat : n = Len(List(l))
  BY DroppedLists
<1>2. PICK T \in Nat : T = COMPACTION_TRIGGER
  BY ConstantsAssumption DEF ConstantsAssumption
<1>3. /\ n >= T /\ Len(List(l)') = n - T
      /\ \A i \in 1..(n - T) : List(l)'[i] = List(l)[i + T]
  BY <1>1, <1>2, DroppedLists
<1>4. \A i \in 1..(n - T) : i + T \in 1..n
  BY <1>3
<1>5. NoneAt(l, k) => NoneAt(l, k)'
  BY <1>1, <1>3, <1>4 DEF NoneAt
<1>6. ASSUME NEW x, FirstAt(l, k, x)
      PROVE  FirstAt(l, k, x)' \/ (NoneAt(l, k)' /\ FirstInput(l, k, x))
  <2>1. PICK i \in 1..n : List(l)[i][k] = x /\ \A j \in 1..n : i < j => List(l)[j][k] = 0
    BY <1>1, <1>6 DEF FirstAt
  <2>2. x # 0
    BY <1>6 DEF FirstAt
  <2>3. CASE i > T
    <3>1. i - T \in 1..(n - T) /\ (i - T) + T = i
      BY <1>3, <2>3
    <3>2. \A j \in 1..(n - T) : i - T < j => i < j + T
      BY <2>3
    <3>3. \A j \in 1..(n - T) : i - T < j => List(l)'[j][k] = 0
      BY <1>3, <1>4, <2>1, <3>2
    <3>4. List(l)'[i - T][k] = x
      BY <1>3, <2>1, <3>1
    <3>5. QED
      BY <1>3, <2>2, <3>1, <3>3, <3>4 DEF FirstAt
  <2>4. CASE i <= T
    <3>1. \A j \in 1..(n - T) : i < j + T
      BY <2>4
    <3>2. NoneAt(l, k)'
      BY <1>3, <1>4, <2>1, <3>1 DEF NoneAt
    <3>3. i \in 1..T /\ \A j \in 1..T : j \in 1..n
      BY <1>3, <2>4
    <3>4. FirstInput(l, k, x)
      BY <1>2, <2>1, <2>2, <3>3 DEF FirstInput
    <3>5. QED
      BY <3>2, <3>4
  <2>5. QED
    BY <2>3, <2>4
<1>7. QED
  BY <1>5, <1>6

(* A search that would have met one of them finds the same further down,   *)
(* or rightly nothing.                                                     *)
LEMMA DroppedFinds ==
  ASSUME TypeOK, NEW l \in Merging, Dropped(l), Len(List(l)) >= COMPACTION_TRIGGER,
         NEW k \in Keys, UNCHANGED writes,
         \A x \in 1..MaxWrites : FirstInput(l, k, x) => Serves(k, l + 1, x),
         NEW p \in Nat
  PROVE  /\ FindsNone(k, p) => FindsNone(k, p)'
         /\ \A x \in 1..MaxWrites : Finds(k, p, x) => Serves(k, p, x)'
<1>1. l \in Levels /\ l \in Nat /\ \A m \in Levels : m \in Nat
  BY ConstantsAssumption DEF Levels, Merging, ConstantsAssumption
<1>2. \A m \in Levels : /\ NoneAt(m, k) => NoneAt(m, k)'
                        /\ m # l => \A x : FirstAt(m, k, x) => FirstAt(m, k, x)'
  <2>1. ASSUME NEW m \in Levels, m # l
        PROVE  /\ NoneAt(m, k) => NoneAt(m, k)'
               /\ \A x : FirstAt(m, k, x) => FirstAt(m, k, x)'
    <3>1. List(m)' = List(m)
      BY <1>1, <2>1, DroppedLists
    <3>2. QED
      BY <3>1 DEF NoneAt, FirstAt
  <2>2. QED
    BY <1>1, <2>1, DroppedFirst
<1>3. \A m \in Nat : FindsNone(k, m) => FindsNone(k, m)'
  BY <1>2 DEF FindsNone
<1>4. ASSUME NEW x \in 1..MaxWrites, NEW m \in Levels, m >= p, FirstAt(m, k, x)',
             \A q \in Levels : p <= q /\ q < m => NoneAt(q, k)
      PROVE  Finds(k, p, x)'
  BY <1>2, <1>4 DEF Finds
<1>5. ASSUME NEW x \in 1..MaxWrites, Finds(k, p, x)
      PROVE  Serves(k, p, x)'
  <2>1. PICK m \in Levels : /\ m >= p /\ FirstAt(m, k, x)
                            /\ \A q \in Levels : p <= q /\ q < m => NoneAt(q, k)
    BY <1>5 DEF Finds
  <2>2. CASE FirstAt(m, k, x)'
    BY <1>4, <2>1, <2>2 DEF Serves
  <2>3. CASE m = l /\ NoneAt(l, k)' /\ FirstInput(l, k, x)
    <3>1. Serves(k, l + 1, x)
      BY <2>3
    <3>2. \A q \in Levels : p <= q /\ q < l + 1 => NoneAt(q, k)'
      <4>1. ASSUME NEW q \in Levels, p <= q, q < l + 1
            PROVE  q = l \/ q < l
        BY <1>1, <4>1
      <4>2. QED
        BY <1>2, <2>1, <2>3, <4>1
    <3>3. CASE Finds(k, l + 1, x)
      <4>1. PICK d \in Levels : /\ d >= l + 1 /\ FirstAt(d, k, x)
                                /\ \A q \in Levels : l + 1 <= q /\ q < d => NoneAt(q, k)
        BY <3>3 DEF Finds
      <4>2. d # l /\ d >= p
        BY <1>1, <2>1, <2>3, <4>1
      <4>3. \A q \in Levels : p <= q /\ q < d => NoneAt(q, k)'
        <5>1. ASSUME NEW q \in Levels
              PROVE  q < l + 1 \/ l + 1 <= q
          BY <1>1, <5>1
        <5>2. QED
          BY <1>2, <3>2, <4>1, <5>1
      <4>4. FirstAt(d, k, x)'
        BY <1>2, <4>1, <4>2
      <4>5. QED
        BY <4>2, <4>3, <4>4 DEF Serves, Finds
    <3>4. CASE FindsNone(k, l + 1) /\ Answer(x) = 0
      <4>1. ASSUME NEW q \in Levels, q >= p
            PROVE  NoneAt(q, k)'
        <5>1. q < l + 1 \/ q >= l + 1
          BY <1>1
        <5>2. QED
          BY <1>2, <3>2, <3>4, <4>1, <5>1 DEF FindsNone
      <4>2. Answer(x)' = 0
        BY <3>4 DEF Answer, IsTombstone
      <4>3. QED
        BY <4>1, <4>2 DEF Serves, FindsNone
    <3>5. QED
      BY <3>1, <3>3, <3>4 DEF Serves
  <2>4. QED
    BY <1>1, <1>2, <2>1, <2>2, <2>3, DroppedFirst
<1>6. QED
  BY <1>3, <1>5

-----------------------------------------------------------------------------
(* What a step does to the lists, and to a search.                         *)

LEMMA LevelFacts ==
  ASSUME TypeOK, NEW l \in Merging
  PROVE  /\ l \in Nat /\ l \in Levels /\ l + 1 \in Levels /\ 0 \in Levels
         /\ merge[l] \in [at : {"idle", "add", "remove"}, table : Table]
         /\ List(l) \in Seq(Table) /\ Len(List(l)) \in Nat
<1>1. l \in Nat /\ l \in Levels /\ l + 1 \in Levels /\ 0 \in Levels
  BY ConstantsAssumption DEF Levels, Merging, ConstantsAssumption
<1>2. merge[l] \in [at : {"idle", "add", "remove"}, table : Table]
  BY DEF TypeOK, Merging
<1>3. List(l) \in Seq(Table)
  BY <1>1 DEF TypeOK, List
<1>4. QED
  BY <1>1, <1>2, <1>3

LEMMA InactiveType ==
  ASSUME TypeOK
  PROVE  /\ Active \in Table /\ Inactive \in Table /\ active \in {0, 1} /\ 1 - active \in {0, 1}
         /\ 1 - active # active /\ 1 - (1 - active) = active
  BY DEF TypeOK, Active, Inactive

LEMMA AddTableEffect ==
  ASSUME TypeOK, AddTable
  PROVE  /\ Appended(0, Inactive) /\ Inactive \in Table /\ 0 \in Levels
         /\ flusher = "flush" /\ flusher' = "clear"
         /\ UNCHANGED <<writes, completed, full, active, memtable, curr_max_level, merge,
                        reader, key, target, level, readers, result>>
<1>1. 0 \in Levels
  BY ConstantsAssumption DEF Levels, ConstantsAssumption
<1>2. QED
  BY <1>1, InactiveType
    DEF AddTable, Appended, List, Inactive, writerVars, memVars, getVars, TypeOK

LEMMA AddMergedEffect ==
  ASSUME TypeOK, NEW l \in Merging, AddMerged(l)
  PROVE  /\ Appended(l + 1, merge[l].table) /\ merge[l].table \in Table
         /\ merge[l].at = "add" /\ merge'[l].at = "remove" /\ merge'[l].table = merge[l].table
         /\ \A m \in Merging : m # l => merge'[m] = merge[m]
         /\ UNCHANGED <<writes, completed, full, active, memtable, flusher, curr_max_level,
                        reader, key, target, level, readers, result>>
<1>1. UNCHANGED <<writes, completed, full, active, memtable, flusher, curr_max_level,
                  reader, key, target, level, readers, result>>
  BY DEF AddMerged, writerVars, memVars, getVars
<1>2. Appended(l + 1, merge[l].table)
  BY LevelFacts DEF AddMerged, Appended, List, TypeOK
<1>3. /\ merge[l].at = "add" /\ merge'[l].at = "remove" /\ merge'[l].table = merge[l].table
      /\ \A m \in Merging : m # l => merge'[m] = merge[m]
  BY LevelFacts DEF AddMerged, TypeOK, Merging
<1>4. QED
  BY <1>1, <1>2, <1>3, LevelFacts

LEMMA RemoveFilesEffect ==
  ASSUME TypeOK, NEW l \in Merging, RemoveFiles(l)
  PROVE  /\ Dropped(l) /\ merge[l].at = "remove" /\ merge'[l] = Idle
         /\ \A m \in Merging : m # l => merge'[m] = merge[m]
         /\ UNCHANGED <<writes, completed, full, active, memtable, flusher,
                        reader, key, target, level, readers, result>>
<1>1. UNCHANGED <<writes, completed, full, active, memtable, flusher,
                  reader, key, target, level, readers, result>>
  BY DEF RemoveFiles, writerVars, memVars, getVars
<1>2. Dropped(l)
  BY LevelFacts DEF RemoveFiles, Dropped, List, TypeOK
<1>3. /\ merge[l].at = "remove" /\ merge'[l] = Idle
      /\ \A m \in Merging : m # l => merge'[m] = merge[m]
  BY DEF RemoveFiles, TypeOK, Merging
<1>4. QED
  BY <1>1, <1>2, <1>3

LEMMA ListSteps ==
  ASSUME TypeOK, Next
  PROVE  \/ UNCHANGED readers_at_level
         \/ AddTable
         \/ \E l \in Merging : AddMerged(l) \/ RemoveFiles(l)
<1>1. DOMAIN merge = Merging
  BY DEF TypeOK, Merging
<1>2. ASSUME NEW l \in Merging, MergeFiles(l)
      PROVE  UNCHANGED readers_at_level
  BY <1>2 DEF MergeFiles
<1>3. ASSUME NEW r \in Readers, Search(r) \/ \E k \in Keys : Call(r, k)
      PROVE  UNCHANGED readers_at_level
  BY <1>3, GetFrame DEF levelVars
<1>4. QED
  BY <1>1, <1>2, <1>3 DEF Next, Put, Insert, SwapActive, ClearMemtable, levelVars

(* Inputs that have an entry have a first one.                             *)
LEMMA FirstInputExists ==
  ASSUME TypeOK, NEW l \in Merging, Len(List(l)) >= COMPACTION_TRIGGER, NEW k \in Keys,
         ~NoInput(l, k)
  PROVE  \E x \in 1..MaxWrites : FirstInput(l, k, x)
<1>1. PICK T \in Nat : T = COMPACTION_TRIGGER
  BY ConstantsAssumption DEF ConstantsAssumption
<1> DEFINE S == {i \in 1..T : List(l)[i][k] # 0}
<1>2. S # {} /\ S \subseteq 0..T
  BY <1>1 DEF NoInput
<1>3. PICK i \in S : \A j \in S : i >= j
  BY <1>2, MaxExists
<1>4. i \in 1..T /\ List(l)[i][k] # 0
  BY <1>3
<1>5. \A j \in 1..T : i < j => List(l)[j][k] = 0
  BY <1>3, <1>4
<1>6. List(l)[i] \in Table
  BY <1>1, <1>4, LevelFacts, ElementOfSeq
<1>7. List(l)[i][k] \in 1..MaxWrites
  BY <1>4, <1>6 DEF Table
<1>8. FirstInput(l, k, List(l)[i][k])
  BY <1>1, <1>4, <1>5 DEF FirstInput
<1>9. QED
  BY <1>7, <1>8

(* What a merged table has comes from an input.                            *)
LEMMA MergedIsInput ==
  ASSUME TypeOK, DepthInv, MergeInv, NEW l \in Merging, merge[l].at = "add", NEW k \in Keys,
         merge[l].table[k] # 0
  PROVE  /\ \E i \in 1..Len(List(l)) : List(l)[i][k] = merge[l].table[k]
         /\ ~NoneAt(l, k)
         /\ merge[l].table[k] \in 1..MaxWrites
         /\ Len(List(l)) >= COMPACTION_TRIGGER
<1>1. Len(List(l)) >= COMPACTION_TRIGGER
  BY DEF DepthInv, Merging
<1>2. ~NoInput(l, k)
  BY DEF MergeInv, Merging
<1>3. PICK x \in 1..MaxWrites : FirstInput(l, k, x)
  BY <1>1, <1>2, FirstInputExists
<1>4. merge[l].table[k] = x
  BY <1>3 DEF MergeInv, Merging
<1>5. PICK i \in 1..COMPACTION_TRIGGER : List(l)[i][k] = x
  BY <1>3 DEF FirstInput
<1>6. i \in 1..Len(List(l))
  BY <1>1, LevelFacts, ConstantsAssumption DEF ConstantsAssumption
<1>7. QED
  BY <1>1, <1>4, <1>5, <1>6 DEF NoneAt

(* A step keeps the answer of a search from level p on, or puts something  *)
(* new where the search begins.                                            *)
LEMMA FindsStep ==
  ASSUME TypeOK, FindInv, Next, NEW k \in Keys, NEW p \in Nat
  PROVE  \/ /\ FindsNone(k, p) => FindsNone(k, p)'
            /\ \A x \in 1..MaxWrites : Finds(k, p, x) => Serves(k, p, x)'
         \/ p = 0 /\ AddTable /\ Inactive[k] # 0
         \/ \E l \in Merging : p = l + 1 /\ AddMerged(l) /\ merge[l].table[k] # 0
<1>1. CASE UNCHANGED readers_at_level
  BY <1>1 DEF FindsNone, Finds, Serves, NoneAt, FirstAt, List
<1>2. CASE AddTable
  <2>1. CASE Inactive[k] = 0 \/ p # 0
    <3>1. Inactive[k] = 0 \/ 0 < p
      BY <2>1
    <3>2. QED
      BY <1>2, <3>1, AddTableEffect, AppendedFinds DEF Serves
  <2>2. QED
    BY <1>2, <2>1
<1>3. ASSUME NEW l \in Merging, AddMerged(l), p # l + 1 \/ merge[l].table[k] = 0
      PROVE  /\ FindsNone(k, p) => FindsNone(k, p)'
             /\ \A x \in 1..MaxWrites : Finds(k, p, x) => Serves(k, p, x)'
  <2>1. l \in Nat /\ l \in Levels /\ l + 1 \in Levels
    BY LevelFacts
  <2>2. \/ merge[l].table[k] = 0 \/ l + 1 < p
        \/ \E q \in Levels : p <= q /\ q < l + 1 /\ ~NoneAt(q, k)
    <3>1. CASE merge[l].table[k] # 0 /\ p < l + 1
      <4>1. ~NoneAt(l, k)
        BY <1>3, <3>1, AddMergedEffect, MergedIsInput DEF FindInv
      <4>2. p <= l /\ l < l + 1
        BY <2>1, <3>1
      <4>3. QED
        BY <2>1, <4>1, <4>2
    <3>2. QED
      BY <1>3, <2>1, <3>1
  <2>3. QED
    BY <1>3, <2>1, <2>2, AddMergedEffect, AppendedFinds DEF Serves
<1>4. ASSUME NEW l \in Merging, RemoveFiles(l)
      PROVE  /\ FindsNone(k, p) => FindsNone(k, p)'
             /\ \A x \in 1..MaxWrites : Finds(k, p, x) => Serves(k, p, x)'
  <2>1. Dropped(l) /\ merge[l].at = "remove" /\ UNCHANGED writes
    BY <1>4, RemoveFilesEffect
  <2>2. Len(List(l)) >= COMPACTION_TRIGGER
    BY <2>1 DEF FindInv, DepthInv, Merging
  <2>3. \A x \in 1..MaxWrites : FirstInput(l, k, x) => Serves(k, l + 1, x)
    BY <2>1 DEF FindInv, FlightInv, Merging
  <2>4. QED
    BY <2>1, <2>2, <2>3, DroppedFinds
<1>5. QED
  BY <1>1, <1>2, <1>3, <1>4, ListSteps

(* What is put there is what the search finds.                             *)
LEMMA AppendedFound ==
  ASSUME TypeOK, NEW l \in Levels, NEW t \in Table, Appended(l, t), NEW k \in Keys,
         NEW x, x = t[k], x # 0
  PROVE  Finds(k, l, x)'
<1>1. FirstAt(l, k, x)'
  <2>1. FirstAt(l, k, t[k])'
    BY AppendedIsFirst
  <2>2. QED
    BY <2>1 DEF FirstAt
<1>2. l \in Nat /\ \A q \in Levels : q \in Nat
  BY ConstantsAssumption DEF Levels, ConstantsAssumption
<1>3. l >= l /\ \A q \in Levels : ~(l <= q /\ q < l)
  BY <1>2
<1>4. QED
  BY <1>1, <1>3 DEF Finds

(* A step keeps what a search serves, with the same exceptions.            *)
LEMMA ServesStep ==
  ASSUME TypeOK, FindInv, Next, NEW k \in Keys, NEW p \in Nat, NEW x \in 0..Len(writes),
         Serves(k, p, x)
  PROVE  \/ Serves(k, p, x)'
         \/ p = 0 /\ AddTable /\ Inactive[k] # 0
         \/ \E l \in Merging : p = l + 1 /\ AddMerged(l) /\ merge[l].table[k] # 0
<1>1. Finds(k, p, x) => x \in 1..MaxWrites
  <2>1. Finds(k, p, x) => x # 0
    BY DEF Finds, FirstAt
  <2>2. QED
    BY <2>1, ConstantsAssumption DEF TypeOK, ConstantsAssumption
<1>2. Answer(x)' = Answer(x)
  BY AnswerStays
<1>3. QED
  BY <1>1, <1>2, FindsStep DEF Serves

-----------------------------------------------------------------------------
(* What a merge writes.                                                    *)

LEMMA YoungestFacts ==
  ASSUME TypeOK, NEW l \in Merging, Len(List(l)) >= COMPACTION_TRIGGER, NEW k \in Keys,
         NEW w, w = YoungestEntry(k, SubSeq(List(l), 1, COMPACTION_TRIGGER))
  PROVE  /\ NoInput(l, k) => w = 0
         /\ \A x : FirstInput(l, k, x) => w = x
         /\ w = 0 \/ \E i \in 1..Len(List(l)) : w = List(l)[i][k]
         /\ w \in 0..MaxWrites
<1>1. PICK T \in Nat : T = COMPACTION_TRIGGER
  BY ConstantsAssumption DEF ConstantsAssumption
<1>2. PICK ts : ts = SubSeq(List(l), 1, COMPACTION_TRIGGER)
  OBVIOUS
<1>3. List(l) \in Seq(Table) /\ Len(List(l)) \in Nat /\ Len(List(l)) >= T
  BY <1>1, LevelFacts
<1>4. Len(ts) = T /\ \A i \in 1..T : ts[i] = List(l)[i]
  BY <1>1, <1>2, <1>3
<1> DEFINE S == {i \in 1..T : List(l)[i][k] # 0}
<1>5. {i \in 1..Len(ts) : ts[i][k] # 0} = S
  BY <1>4
<1>6. w = IF S = {} THEN 0 ELSE ts[Max(S)][k]
  BY <1>2, <1>5 DEF YoungestEntry
<1>7. NoInput(l, k) <=> S = {}
  BY <1>1 DEF NoInput
<1>8. ASSUME S # {}
      PROVE  \E i \in S : w = List(l)[i][k] /\ \A j \in S : i >= j
  <2>1. S \subseteq 0..T
    OBVIOUS
  <2>2. Max(S) \in S /\ \A j \in S : Max(S) >= j
    BY <1>8, <2>1, MaxFacts
  <2>3. w = List(l)[Max(S)][k]
    BY <1>4, <1>6, <1>8, <2>2
  <2>4. QED
    BY <2>2, <2>3
<1>9. ASSUME NEW x, FirstInput(l, k, x)
      PROVE  w = x
  <2>1. PICK i \in 1..T : List(l)[i][k] = x /\ \A j \in 1..T : i < j => List(l)[j][k] = 0
    BY <1>1, <1>9 DEF FirstInput
  <2>2. x # 0 /\ i \in S
    BY <1>9, <2>1 DEF FirstInput
  <2>3. PICK m \in S : w = List(l)[m][k] /\ \A j \in S : m >= j
    BY <1>8, <2>2
  <2>4. m \in 1..T /\ m >= i /\ ~(i < m)
    BY <2>1, <2>2, <2>3
  <2>5. m = i
    BY <2>4
  <2>6. QED
    BY <2>1, <2>3, <2>5
<1>10. ASSUME S # {}
       PROVE  \E i \in 1..Len(List(l)) : w = List(l)[i][k] /\ List(l)[i] \in Table
  <2>1. PICK m \in S : w = List(l)[m][k]
    BY <1>8, <1>10
  <2>2. m \in 1..Len(List(l))
    BY <1>3, <2>1
  <2>3. List(l)[m] \in Table
    BY <1>3, <2>2, ElementOfSeq
  <2>4. QED
    BY <2>1, <2>2, <2>3
<1>11. w \in 0..MaxWrites
  <2>1. 0 \in 0..MaxWrites
    BY ConstantsAssumption DEF ConstantsAssumption
  <2>2. CASE S = {}
    BY <1>6, <2>1, <2>2
  <2>3. CASE S # {}
    BY <1>10, <2>3 DEF Table
  <2>4. QED
    BY <2>2, <2>3
<1>12. QED
  BY <1>6, <1>7, <1>9, <1>10, <1>11

LEMMA MergeFilesEffect ==
  ASSUME TypeOK, NEW l \in Merging, MergeFiles(l)
  PROVE  /\ merge[l].at = "idle" /\ Len(List(l)) >= COMPACTION_TRIGGER
         /\ merge'[l].at = "add" /\ merge'[l].table \in Table
         /\ \A k \in Keys :
              LET w == YoungestEntry(k, SubSeq(List(l), 1, COMPACTION_TRIGGER)) IN
              \/ merge'[l].table[k] = w
              \/ merge'[l].table[k] = 0 /\ Purges(l) /\ IsTombstone(w)
         /\ \A m \in Merging : m # l => merge'[m] = merge[m]
         /\ merge'[l] \in [at : {"idle", "add", "remove"}, table : Table]
         /\ merge' \in [Merging -> [at : {"idle", "add", "remove"}, table : Table]]
         /\ UNCHANGED <<writes, completed, full, active, memtable, flusher, readers_at_level,
                        curr_max_level, reader, key, target, level, readers, result>>
<1>1. UNCHANGED <<writes, completed, full, active, memtable, flusher, readers_at_level,
                  curr_max_level, reader, key, target, level, readers, result>>
  BY DEF MergeFiles, writerVars, memVars, getVars
<1>2. merge[l].at = "idle" /\ Len(List(l)) >= COMPACTION_TRIGGER
  BY DEF MergeFiles, List
<1> DEFINE w(k) == YoungestEntry(k, SubSeq(List(l), 1, COMPACTION_TRIGGER))
           purged == {k \in Keys : Purges(l) /\ IsTombstone(w(k))}
           t == [k \in Keys |-> IF k \in purged THEN 0 ELSE w(k)]
<1>3. merge' = [merge EXCEPT ![l] = [at |-> "add", table |-> t]]
  BY DEF MergeFiles, List
<1>4. \A k \in Keys : w(k) \in 0..MaxWrites
  BY <1>2, YoungestFacts
<1>5. \A k \in Keys : t[k] = w(k) \/ (t[k] = 0 /\ Purges(l) /\ IsTombstone(w(k)))
  OBVIOUS
<1>6. t \in Table
  BY <1>4, ConstantsAssumption DEF Table, ConstantsAssumption
<1> HIDE DEF t
<1>7. merge \in [Merging -> [at : {"idle", "add", "remove"}, table : Table]]
  BY DEF TypeOK, Merging
<1>8. /\ merge'[l] = [at |-> "add", table |-> t] /\ \A m \in Merging : m # l => merge'[m] = merge[m]
      /\ merge' \in [Merging -> [at : {"idle", "add", "remove"}, table : Table]]
  BY <1>3, <1>6, <1>7
<1>9. QED
  BY <1>1, <1>2, <1>5, <1>6, <1>8

LEMMA MergeSteps ==
  ASSUME TypeOK, Next
  PROVE  \/ UNCHANGED <<merge, curr_max_level>>
            /\ (UNCHANGED readers_at_level \/ AddTable)
         \/ \E l \in Merging : MergeFiles(l) \/ AddMerged(l) \/ RemoveFiles(l)
<1>1. DOMAIN merge = Merging
  BY DEF TypeOK, Merging
<1>2. ASSUME NEW r \in Readers, Search(r) \/ \E k \in Keys : Call(r, k)
      PROVE  UNCHANGED <<merge, curr_max_level, readers_at_level>>
  BY <1>2, GetFrame DEF levelVars
<1>3. AddTable => UNCHANGED <<merge, curr_max_level>>
  BY DEF AddTable
<1>4. QED
  BY <1>1, <1>2, <1>3 DEF Next, Put, Insert, SwapActive, ClearMemtable, levelVars

-----------------------------------------------------------------------------
(* How deep the levels are filled.                                         *)

(* Only the merge of a level makes its list shorter.                       *)
LEMMA ListsGrow ==
  ASSUME TypeOK, DepthInv, Next, NEW m \in Levels
  PROVE  \/ Len(List(m)') >= Len(List(m)) /\ \A i \in 1..Len(List(m)) : List(m)'[i] = List(m)[i]
         \/ m \in Merging /\ RemoveFiles(m)
<1>1. Len(List(m)) \in Nat
  BY DEF TypeOK, List
<1>2. CASE UNCHANGED readers_at_level
  BY <1>1, <1>2 DEF List
<1>3. ASSUME NEW l \in Levels, NEW t \in Table, Appended(l, t)
      PROVE  Len(List(m)') >= Len(List(m)) /\ \A i \in 1..Len(List(m)) : List(m)'[i] = List(m)[i]
  <2>1. CASE m = l
    BY <1>1, <1>3, <2>1, AppendedLists
  <2>2. CASE m # l
    <3>1. List(m)' = List(m)
      BY <1>3, <2>2, AppendedLists
    <3>2. QED
      BY <1>1, <3>1
  <2>3. QED
    BY <2>1, <2>2
<1>4. CASE AddTable
  BY <1>3, <1>4, AddTableEffect
<1>5. ASSUME NEW l \in Merging, AddMerged(l)
      PROVE  Len(List(m)') >= Len(List(m)) /\ \A i \in 1..Len(List(m)) : List(m)'[i] = List(m)[i]
  BY <1>3, <1>5, AddMergedEffect, LevelFacts
<1>6. ASSUME NEW l \in Merging, RemoveFiles(l), m # l
      PROVE  Len(List(m)') >= Len(List(m)) /\ \A i \in 1..Len(List(m)) : List(m)'[i] = List(m)[i]
  <2>1. Dropped(l) /\ l \in Levels /\ Len(List(l)) >= COMPACTION_TRIGGER
    BY <1>6, RemoveFilesEffect, LevelFacts DEF DepthInv, Merging
  <2>2. List(m)' = List(m)
    BY <1>6, <2>1, DroppedLists
  <2>3. QED
    BY <1>1, <2>2
<1>7. QED
  BY <1>2, <1>4, <1>5, <1>6, ListSteps

(* A level with a batch is not below curr_max_level.                       *)
LEMMA FullLevels ==
  ASSUME TypeOK, DepthInv, NEW l \in Merging, Len(List(l)) >= COMPACTION_TRIGGER
  PROVE  l <= curr_max_level
<1>1. l \in Levels /\ l \in Nat /\ curr_max_level \in Nat /\ COMPACTION_TRIGGER >= 2
  <2>1. l \in Levels /\ l \in Nat
    BY LevelFacts
  <2>2. curr_max_level \in Nat
    BY DEF TypeOK, Levels
  <2>3. QED
    BY <2>1, <2>2, ConstantsAssumption DEF ConstantsAssumption
<1>2. Len(List(l)) # 0 /\ Len(List(l)) # 1
  <2>1. PICK n \in Nat : n = Len(List(l))
    BY LevelFacts
  <2>2. PICK T \in Nat : T = COMPACTION_TRIGGER
    BY ConstantsAssumption DEF ConstantsAssumption
  <2>3. n >= T /\ T >= 2
    BY <1>1, <2>1, <2>2
  <2>4. n # 0 /\ n # 1
    BY ONLY n \in Nat, T \in Nat, <2>3
  <2>5. QED
    BY <2>1, <2>4
<1>3. ~(l > curr_max_level)
  BY <1>1, <1>2 DEF DepthInv
<1>4. QED
  BY <1>1, <1>3

LEMMA BatchesStay ==
  ASSUME TypeOK, DepthInv, Next, NEW l \in Merging, merge'[l].at # "idle"
  PROVE  Len(List(l)') >= COMPACTION_TRIGGER
<1>1. Len(List(l)) \in Nat /\ l \in Levels /\ COMPACTION_TRIGGER \in Nat
  BY LevelFacts, ConstantsAssumption DEF ConstantsAssumption
<1>2. ~RemoveFiles(l)
  BY RemoveFilesEffect DEF Idle
<1>3. Len(List(l)') >= Len(List(l)) /\ Len(List(l)') \in Nat
  <2>1. Len(List(l)') >= Len(List(l))
    BY <1>1, <1>2, ListsGrow
  <2>2. List(l)' \in Seq(Table)
    <3>1. CASE UNCHANGED readers_at_level
      BY <3>1, LevelFacts DEF List
    <3>2. CASE AddTable
      <4>1. CASE l = 0
        BY <3>2, <4>1, AddTableEffect, AppendedLists
      <4>2. CASE l # 0
        BY <1>1, <3>2, <4>2, AddTableEffect, AppendedLists, LevelFacts
      <4>3. QED
        BY <4>1, <4>2
    <3>3. ASSUME NEW m \in Merging, AddMerged(m)
          PROVE  List(l)' \in Seq(Table)
      <4>1. m + 1 \in Levels
        BY LevelFacts
      <4>2. CASE l = m + 1
        BY <3>3, <4>1, <4>2, AddMergedEffect, AppendedLists
      <4>3. CASE l # m + 1
        BY <1>1, <3>3, <4>1, <4>3, AddMergedEffect, AppendedLists, LevelFacts
      <4>4. QED
        BY <4>2, <4>3
    <3>4. ASSUME NEW m \in Merging, RemoveFiles(m)
          PROVE  List(l)' \in Seq(Table)
      <4>1. Dropped(m) /\ m \in Levels /\ Len(List(m)) >= COMPACTION_TRIGGER /\ m # l
        BY <1>2, <3>4, RemoveFilesEffect, LevelFacts DEF DepthInv, Merging
      <4>2. List(l)' = List(l)
        BY <1>1, <4>1, DroppedLists
      <4>3. QED
        BY <4>2, LevelFacts
    <3>5. QED
      BY <3>1, <3>2, <3>3, <3>4, ListSteps
  <2>3. QED
    BY <2>1, <2>2
<1>4. merge[l].at # "idle" \/ MergeFiles(l)
  BY MergeSteps, MergeFilesEffect, AddMergedEffect, RemoveFilesEffect, <1>2
<1>5. Len(List(l)) >= COMPACTION_TRIGGER
  BY <1>4, MergeFilesEffect DEF DepthInv, Merging
<1>6. QED
  BY <1>1, <1>3, <1>5

-----------------------------------------------------------------------------
(* Types.                                                                  *)

LEMMA ListTypes ==
  ASSUME TypeOK, DepthInv, Next
  PROVE  readers_at_level' \in [Levels -> Seq(Table)]
<1>1. readers_at_level \in [Levels -> Seq(Table)] /\ \A m \in Levels : List(m) \in Seq(Table)
  BY DEF TypeOK, List
<1>2. ASSUME NEW l \in Levels, NEW t \in Table, Appended(l, t)
      PROVE  readers_at_level' \in [Levels -> Seq(Table)]
  <2>1. Append(List(l), t) \in Seq(Table)
    BY <1>1, AppendProperties
  <2>2. QED
    BY <1>1, <1>2, <2>1 DEF Appended
<1>3. ASSUME NEW l \in Merging, RemoveFiles(l)
      PROVE  readers_at_level' \in [Levels -> Seq(Table)]
  <2>1. Dropped(l) /\ l \in Levels /\ Len(List(l)) >= COMPACTION_TRIGGER
    BY <1>3, RemoveFilesEffect, LevelFacts DEF DepthInv, Merging
  <2>2. List(l)' \in Seq(Table)
    BY <2>1, DroppedLists
  <2>3. PICK s : s = SubSeq(List(l), COMPACTION_TRIGGER + 1, Len(List(l)))
    OBVIOUS
  <2>4. readers_at_level' = [readers_at_level EXCEPT ![l] = s]
    BY <2>1, <2>3 DEF Dropped
  <2>5. s \in Seq(Table)
    BY <1>1, <2>1, <2>2, <2>4 DEF List
  <2>6. QED
    BY <1>1, <2>4, <2>5
<1>4. QED
  BY <1>1, <1>2, <1>3, ListSteps, AddTableEffect, AddMergedEffect, LevelFacts

LEMMA MaxLevelGrows ==
  ASSUME TypeOK, NEW l \in Merging, RemoveFiles(l)
  PROVE  /\ curr_max_level' \in {curr_max_level, l + 1} /\ curr_max_level' \in Levels
         /\ curr_max_level' >= curr_max_level /\ curr_max_level' >= l + 1
<1>1. PICK c \in Nat : c = curr_max_level /\ c <= MAX_LEVEL /\ MAX_LEVEL \in Nat
  BY ConstantsAssumption DEF TypeOK, Levels, ConstantsAssumption
<1>2. l + 1 \in 0..MAX_LEVEL /\ {c, l + 1} \subseteq 0..MAX_LEVEL /\ {c, l + 1} # {}
  BY <1>1, LevelFacts DEF Levels
<1>3. Max({c, l + 1}) \in {c, l + 1} /\ \A y \in {c, l + 1} : Max({c, l + 1}) >= y
  BY <1>1, <1>2, MaxFacts
<1>4. curr_max_level' = Max({c, l + 1})
  BY <1>1 DEF RemoveFiles
<1>5. QED
  BY <1>1, <1>2, <1>3, <1>4 DEF Levels

LEMMA MergeTypes ==
  ASSUME TypeOK, Next
  PROVE  /\ merge' \in [Merging -> [at : {"idle", "add", "remove"}, table : Table]]
         /\ curr_max_level' \in Levels
<1>1. /\ merge \in [Merging -> [at : {"idle", "add", "remove"}, table : Table]]
      /\ curr_max_level \in Levels
  BY DEF TypeOK, Merging
<1>2. ASSUME NEW l \in Merging, AddMerged(l)
      PROVE  /\ merge' \in [Merging -> [at : {"idle", "add", "remove"}, table : Table]]
             /\ UNCHANGED curr_max_level
  BY <1>1, <1>2 DEF AddMerged
<1>3. ASSUME NEW l \in Merging, RemoveFiles(l)
      PROVE  merge' \in [Merging -> [at : {"idle", "add", "remove"}, table : Table]]
  <2>1. Empty \in Table
    BY ConstantsAssumption DEF Empty, Table, ConstantsAssumption
  <2>2. Idle \in [at : {"idle", "add", "remove"}, table : Table]
    BY <2>1 DEF Idle
  <2>3. QED
    BY <1>1, <1>3, <2>2 DEF RemoveFiles
<1>4. QED
  BY <1>1, <1>2, <1>3, MaxLevelGrows, MergeSteps, MergeFilesEffect

LEMMA WriterTypes ==
  ASSUME TypeOK, Next
  PROVE  /\ completed' \in 0..Len(writes') /\ full' \in BOOLEAN /\ active' \in {0, 1}
         /\ memtable' \in [{0, 1} -> Table] /\ flusher' \in {"idle", "flush", "clear"}
<1>1. /\ completed \in 0..Len(writes) /\ full \in BOOLEAN /\ active \in {0, 1}
      /\ memtable \in [{0, 1} -> Table] /\ flusher \in {"idle", "flush", "clear"}
      /\ Len(writes) \in Nat /\ Len(writes) <= MaxWrites /\ MaxWrites \in Nat
  BY ConstantsAssumption DEF TypeOK, ConstantsAssumption
<1>2. Len(writes') \in Nat /\ Len(writes') >= Len(writes)
  BY WritesGrow
<1>3. ASSUME UNCHANGED <<completed, memVars, flusher>>
      PROVE  /\ completed' \in 0..Len(writes') /\ full' \in BOOLEAN /\ active' \in {0, 1}
             /\ memtable' \in [{0, 1} -> Table] /\ flusher' \in {"idle", "flush", "clear"}
  BY <1>1, <1>2, <1>3 DEF memVars
<1>4. CASE Insert
  <2>1. /\ completed' = completed + 1 /\ full' \in BOOLEAN /\ completed < Len(writes)
        /\ UNCHANGED <<writes, active, flusher>>
        /\ memtable' = [memtable EXCEPT ![active][writes[completed + 1].key] = completed + 1]
    BY <1>4 DEF Insert
  <2>2. completed' \in 0..Len(writes') /\ completed + 1 \in 0..MaxWrites
    BY <1>1, <2>1
  <2>3. memtable' \in [{0, 1} -> Table]
    BY <1>1, <2>1, <2>2 DEF Table
  <2>4. QED
    BY <1>1, <2>1, <2>2, <2>3
<1>5. CASE SwapActive
  <2>1. /\ UNCHANGED <<writes, completed, memtable>>
        /\ full' = FALSE /\ active' = 1 - active /\ flusher' = "flush"
    BY <1>5 DEF SwapActive, writerVars
  <2>2. 1 - active \in {0, 1}
    BY <1>1
  <2>3. QED
    BY <1>1, <2>1, <2>2
<1>6. CASE AddTable
  BY <1>1, <1>6, AddTableEffect
<1>7. CASE ClearMemtable
  <2>1. Empty \in Table /\ 1 - active \in {0, 1}
    BY <1>1 DEF Empty, Table
  <2>2. QED
    BY <1>1, <1>7, <2>1 DEF ClearMemtable, writerVars
<1>8. ASSUME ~(Insert \/ SwapActive \/ AddTable \/ ClearMemtable)
      PROVE  UNCHANGED <<completed, memVars, flusher>>
  BY <1>8, GetFrame, CompactorFrame DEF Next, Put, writerVars
<1>9. QED
  BY <1>3, <1>4, <1>5, <1>6, <1>7, <1>8

LEMMA GetTypes ==
  ASSUME TypeOK, Next
  PROVE  /\ reader' \in [Readers -> {"idle", "active", "inactive", "load", "tables"}]
         /\ key' \in [Readers -> Keys] /\ target' \in [Readers -> 0..MaxWrites]
         /\ level' \in [Readers -> Levels] /\ readers' \in [Readers -> Seq(Table)]
         /\ result' \in [Readers -> 0..MaxWrites]
<1> DEFINE Goal == /\ reader' \in [Readers -> {"idle", "active", "inactive", "load", "tables"}]
                   /\ key' \in [Readers -> Keys] /\ target' \in [Readers -> 0..MaxWrites]
                   /\ level' \in [Readers -> Levels] /\ readers' \in [Readers -> Seq(Table)]
                   /\ result' \in [Readers -> 0..MaxWrites]
<1>1. /\ reader \in [Readers -> {"idle", "active", "inactive", "load", "tables"}]
      /\ key \in [Readers -> Keys] /\ target \in [Readers -> 0..MaxWrites]
      /\ level \in [Readers -> Levels] /\ readers \in [Readers -> Seq(Table)]
      /\ result \in [Readers -> 0..MaxWrites]
  BY DEF TypeOK
<1>2. /\ Len(writes) \in 0..MaxWrites /\ MaxWrites \in Nat /\ 0 \in 0..MaxWrites
      /\ MAX_LEVEL \in Nat /\ 0 \in Levels
  BY ConstantsAssumption DEF TypeOK, Levels, ConstantsAssumption
<1>3. ASSUME NEW r \in Readers, NEW k \in Keys, Call(r, k)
      PROVE  Goal
  BY <1>1, <1>2, <1>3 DEF Call
<1>4. ASSUME NEW r \in Readers, NEW w \in 0..MaxWrites,
             NEW next \in {"idle", "active", "inactive", "load", "tables"}, Looked(r, w, next)
      PROVE  /\ reader' \in [Readers -> {"idle", "active", "inactive", "load", "tables"}]
             /\ result' \in [Readers -> 0..MaxWrites] /\ result'[r] = w
  BY <1>1, <1>4 DEF Looked
<1>5. ASSUME NEW r \in Readers, LookInActive(r)
      PROVE  Goal
  <2>1. memtable[active][key[r]] \in 0..MaxWrites
    BY <1>1, InactiveType DEF Active, Table
  <2>2. Looked(r, memtable[active][key[r]], "inactive") /\ UNCHANGED <<key, target, level, readers>>
    BY <1>5 DEF LookInActive
  <2>3. QED
    BY <1>1, <1>4, <2>1, <2>2
<1>6. ASSUME NEW r \in Readers, LookInInactive(r)
      PROVE  Goal
  <2>1. InInactive(r) \in 0..MaxWrites
    BY <1>1, InactiveType DEF InInactive, Inactive, Table
  <2>2. /\ Looked(r, InInactive(r), "load") /\ level' = [level EXCEPT ![r] = 0]
        /\ UNCHANGED <<key, target, readers>>
    BY <1>6 DEF LookInInactive
  <2>3. level' \in [Readers -> Levels]
    BY <1>1, <1>2, <2>2
  <2>4. QED
    BY <1>1, <1>4, <2>1, <2>2, <2>3
<1>7. ASSUME NEW r \in Readers, LoadReaders(r)
      PROVE  Goal
  <2>1. readers_at_level[level[r]] \in Seq(Table)
    BY <1>1 DEF TypeOK
  <2>2. QED
    BY <1>1, <1>7, <2>1 DEF LoadReaders
<1>8. ASSUME NEW r \in Readers, FindKey(r)
      PROVE  Goal
  <2>1. PICK s \in Seq(Table) : s = readers[r]
    BY <1>1
  <2>2. s # <<>> /\ Last(s) \in Table /\ Front(s) \in Seq(Table)
    BY <1>8, <2>1 DEF FindKey, Last, Front
  <2>3. Last(readers[r])[key[r]] \in 0..MaxWrites
    BY <1>1, <2>1, <2>2 DEF Table
  <2>4. /\ Looked(r, Last(readers[r])[key[r]], "tables") /\ UNCHANGED <<key, target, level>>
        /\ readers' = [readers EXCEPT ![r] = IF result'[r] = 0 THEN Front(s) ELSE <<>>]
    BY <1>8, <2>1 DEF FindKey
  <2>5. readers' \in [Readers -> Seq(Table)]
    BY <1>1, <2>2, <2>4
  <2>6. QED
    BY <1>1, <1>4, <2>3, <2>4, <2>5
<1>9. ASSUME NEW r \in Readers, LeaveLevel(r)
      PROVE  Goal
  <2>1. PICK p \in Levels : p = level[r]
    BY <1>1
  <2>2. p # MAX_LEVEL => p + 1 \in Levels
    BY <1>2 DEF Levels
  <2>3. level' = [level EXCEPT ![r] = IF p = MAX_LEVEL THEN 0 ELSE p + 1]
    BY <1>1, <1>9, <2>1 DEF LeaveLevel, AtLastLevel
  <2>4. level' \in [Readers -> Levels]
    BY <1>1, <1>2, <2>2, <2>3
  <2>5. QED
    BY <1>1, <1>9, <2>4 DEF LeaveLevel
<1>10. ASSUME UNCHANGED getVars
       PROVE  Goal
  BY <1>1, <1>10 DEF getVars
<1>11. ASSUME ~\E r \in Readers : Search(r) \/ \E k \in Keys : Call(r, k)
       PROVE  UNCHANGED getVars
  BY <1>11, CompactorFrame DEF Next, Put, Insert, SwapActive, AddTable, ClearMemtable
<1>12. QED
  BY <1>3, <1>5, <1>6, <1>7, <1>8, <1>9, <1>10, <1>11 DEF Search

LEMMA DepthStep ==
  ASSUME TypeOK, DepthInv, Next
  PROVE  DepthInv'
<1>1. ASSUME NEW l \in Merging, merge'[l].at # "idle"
      PROVE  Len(List(l)') >= COMPACTION_TRIGGER
  BY <1>1, BatchesStay
<1>2. ASSUME NEW m \in Levels, m > curr_max_level'
      PROVE  \/ Len(List(m)') = 0
             \/ /\ m = curr_max_level' + 1 /\ Len(List(m)') = 1
                /\ merge'[curr_max_level'].at = "remove"
  <2>1. PICK c \in Nat : c = curr_max_level /\ c \in Levels /\ m \in Nat /\ MAX_LEVEL \in Nat
    BY ConstantsAssumption DEF TypeOK, Levels, ConstantsAssumption
  <2>2. m > c => \/ Len(List(m)) = 0
                 \/ m = c + 1 /\ Len(List(m)) = 1 /\ merge[c].at = "remove"
    BY <2>1 DEF DepthInv
  <2>3. CASE UNCHANGED <<merge, curr_max_level, readers_at_level>>
    BY <1>2, <2>1, <2>2, <2>3 DEF List
  <2>4. CASE AddTable
    <3>1. m # 0
      BY <1>2, <2>1, <2>4, AddTableEffect
    <3>2. List(m)' = List(m) /\ UNCHANGED <<merge, curr_max_level>>
      BY <2>4, <3>1, AddTableEffect, AppendedLists
    <3>3. QED
      BY <1>2, <2>1, <2>2, <3>2
  <2>5. ASSUME NEW l \in Merging, MergeFiles(l)
        PROVE  \/ Len(List(m)') = 0
               \/ m = c + 1 /\ Len(List(m)') = 1 /\ merge'[c].at = "remove"
    <3>1. UNCHANGED <<readers_at_level, curr_max_level>> /\ merge[l].at = "idle"
      BY <2>5, MergeFilesEffect
    <3>2. List(m)' = List(m) /\ m > c
      BY <1>2, <2>1, <3>1 DEF List
    <3>3. m = c + 1 => c \in Merging
      BY <2>1 DEF Levels, Merging
    <3>4. merge[c].at = "remove" /\ c \in Merging => merge'[c] = merge[c]
      BY <2>5, <3>1, MergeFilesEffect
    <3>5. QED
      BY <2>2, <3>2, <3>3, <3>4
  <2>6. ASSUME NEW l \in Merging, AddMerged(l)
        PROVE  \/ Len(List(m)') = 0
               \/ m = c + 1 /\ Len(List(m)') = 1 /\ merge'[c].at = "remove"
    <3>1. /\ Appended(l + 1, merge[l].table) /\ merge[l].table \in Table /\ merge[l].at = "add"
          /\ merge'[l].at = "remove" /\ UNCHANGED curr_max_level
          /\ \A i \in Merging : i # l => merge'[i] = merge[i]
      BY <2>6, AddMergedEffect
    <3>2. l \in Nat /\ l + 1 \in Levels /\ l <= c /\ m > c
      <4>1. Len(List(l)) >= COMPACTION_TRIGGER
        BY <3>1 DEF DepthInv, Merging
      <4>2. QED
        BY <1>2, <2>1, <3>1, <4>1, LevelFacts, FullLevels
    <3>3. CASE m = l + 1
      <4>1. l = c /\ m = c + 1
        BY <2>1, <3>2, <3>3
      <4>2. Len(List(m)) = 0
        BY <2>2, <3>1, <3>2, <4>1
      <4>3. Len(List(m)') = 1
        <5>1. Len(List(m)') = Len(List(m)) + 1
          BY <3>1, <3>2, <3>3, AppendedLists
        <5>2. QED
          BY <4>2, <5>1
      <4>4. QED
        BY <3>1, <4>1, <4>2, <4>3
    <3>4. CASE m # l + 1
      <4>1. List(m)' = List(m)
        BY <3>1, <3>2, <3>4, AppendedLists
      <4>2. m = c + 1 => c # l /\ c \in Merging
        BY <2>1, <3>2, <3>4 DEF Levels, Merging
      <4>3. QED
        BY <2>2, <3>1, <3>2, <4>1, <4>2
    <3>5. QED
      BY <3>3, <3>4
  <2>7. ASSUME NEW l \in Merging, RemoveFiles(l)
        PROVE  \/ Len(List(m)') = 0
               \/ /\ m = curr_max_level' + 1 /\ Len(List(m)') = 1
                  /\ merge'[curr_max_level'].at = "remove"
    <3>1. /\ Dropped(l) /\ merge[l].at = "remove"
          /\ \A i \in Merging : i # l => merge'[i] = merge[i]
      BY <2>7, RemoveFilesEffect
    <3>2. Len(List(l)) >= COMPACTION_TRIGGER
      BY <3>1 DEF DepthInv, Merging
    <3>3. l \in Nat /\ l \in Levels /\ l <= c
      BY <2>1, <3>2, LevelFacts, FullLevels
    <3>4. PICK d \in Nat : /\ d = curr_max_level' /\ (d = c \/ d = l + 1)
                           /\ d >= c /\ d >= l + 1
      BY <2>1, <2>7, <3>3, MaxLevelGrows
    <3>5. m > d /\ m # l /\ m > c
      BY <1>2, <2>1, <3>3, <3>4
    <3>6. List(m)' = List(m)
      BY <3>1, <3>2, <3>3, <3>5, DroppedLists
    <3>7. m = c + 1 => c = d /\ c # l /\ c \in Merging
      BY <2>1, <3>3, <3>4, <3>5 DEF Levels, Merging
    <3>8. QED
      BY <2>2, <3>1, <3>4, <3>5, <3>6, <3>7
  <2>8. UNCHANGED curr_max_level \/ \E l \in Merging : RemoveFiles(l)
    BY MergeSteps, MergeFilesEffect, AddMergedEffect
  <2>9. QED
    BY <2>1, <2>3, <2>4, <2>5, <2>6, <2>7, <2>8, MergeSteps, MergeFilesEffect, AddMergedEffect
<1>3. QED
  BY <1>1, <1>2 DEF DepthInv, Merging

LEMMA TypeStep ==
  ASSUME TypeOK, DepthInv, Next
  PROVE  TypeOK'
<1>1. \A l \in Merging : merge'[l].at = "remove" => Len(List(l)') >= COMPACTION_TRIGGER
  BY BatchesStay
<1>2. DOMAIN merge' = Merging
  BY MergeTypes
<1>3. QED
  BY <1>1, <1>2, WritesGrow, WriterTypes, ListTypes, MergeTypes, GetTypes
    DEF TypeOK, Merging, List

-----------------------------------------------------------------------------
(* Entries.                                                                *)

LEMMA MemtableEntries ==
  ASSUME TypeOK, EntryInv, Next, NEW i \in {0, 1}, NEW k \in Keys, NEW e, e = memtable'[i][k]
  PROVE  IsEntry(k, e)'
<1>1. e = memtable[i][k] => IsEntry(k, e)
  BY DEF EntryInv
<1>2. memtable \in [{0, 1} -> Table] /\ active \in {0, 1} /\ 1 - active \in {0, 1}
  BY DEF TypeOK
<1>3. CASE Insert
  <2>1. PICK n \in Nat : n = completed + 1 /\ n \in 1..Len(writes)
    BY <1>3 DEF Insert, TypeOK
  <2>2. memtable' = [memtable EXCEPT ![active][writes[n].key] = n]
    BY <1>3, <2>1 DEF Insert
  <2>3. e = memtable[i][k] \/ (e = n /\ writes[n].key = k)
    BY <1>2, <2>2 DEF Table
  <2>4. IsEntry(k, e)
    BY <1>1, <2>1, <2>3 DEF IsEntry
  <2>5. QED
    BY <2>4, EntryStays
<1>4. CASE ClearMemtable
  <2>1. memtable' = [memtable EXCEPT ![1 - active] = Empty]
    BY <1>4 DEF ClearMemtable
  <2>2. e = memtable[i][k] \/ e = 0
    BY <1>2, <2>1 DEF Empty
  <2>3. IsEntry(k, e)
    BY <1>1, <2>2 DEF IsEntry
  <2>4. QED
    BY <2>3, EntryStays
<1>5. ASSUME ~(Insert \/ ClearMemtable)
      PROVE  UNCHANGED memtable
  BY <1>5, GetFrame, CompactorFrame DEF Next, Put, SwapActive, AddTable, memVars
<1>6. QED
  BY <1>1, <1>3, <1>4, <1>5, EntryStays

(* Where an entry of a list comes from.                                    *)
LEMMA ListOrigin ==
  ASSUME TypeOK, FindInv, Next, NEW m \in Levels, NEW i \in 1..Len(List(m)'),
         NEW k \in Keys, NEW e, e = List(m)'[i][k]
  PROVE  \/ e = 0
         \/ \E j \in 1..Len(List(m)) : e = List(m)[j][k]
         \/ m = 0 /\ e = Inactive[k]
         \/ \E q \in Merging : m = q + 1 /\ \E j \in 1..Len(List(q)) : e = List(q)[j][k]
<1>1. CASE UNCHANGED readers_at_level
  BY <1>1 DEF List
<1>2. ASSUME NEW l \in Levels, NEW t \in Table, Appended(l, t)
      PROVE  (\E j \in 1..Len(List(m)) : e = List(m)[j][k]) \/ (m = l /\ e = t[k])
  <2>1. CASE m # l
    <3>1. List(m)' = List(m)
      BY <1>2, <2>1, AppendedLists
    <3>2. QED
      BY <3>1
  <2>2. CASE m = l
    <3>1. PICK n \in Nat : n = Len(List(m))
      BY <1>2, <2>2, AppendedLists
    <3>2. /\ Len(List(m)') = n + 1 /\ \A j \in 1..n : List(m)'[j] = List(m)[j]
          /\ List(m)'[n + 1] = t
      BY <1>2, <2>2, <3>1, AppendedLists
    <3>3. i \in 1..n \/ i = n + 1
      BY <3>2
    <3>4. QED
      BY <2>2, <3>1, <3>2, <3>3
  <2>3. QED
    BY <2>1, <2>2
<1>3. CASE AddTable
  BY <1>2, <1>3, AddTableEffect
<1>4. ASSUME NEW l \in Merging, AddMerged(l)
      PROVE  \/ e = 0 \/ \E j \in 1..Len(List(m)) : e = List(m)[j][k]
             \/ m = l + 1 /\ \E j \in 1..Len(List(l)) : e = List(l)[j][k]
  <2>1. /\ Appended(l + 1, merge[l].table) /\ merge[l].table \in Table /\ l + 1 \in Levels
        /\ merge[l].at = "add"
    BY <1>4, AddMergedEffect, LevelFacts
  <2>2. merge[l].table[k] # 0 => \E j \in 1..Len(List(l)) : List(l)[j][k] = merge[l].table[k]
    BY <2>1, MergedIsInput DEF FindInv
  <2>3. QED
    BY <1>2, <2>1, <2>2
<1>5. ASSUME NEW l \in Merging, RemoveFiles(l)
      PROVE  \E j \in 1..Len(List(m)) : e = List(m)[j][k]
  <2>1. Dropped(l) /\ l \in Levels /\ Len(List(l)) >= COMPACTION_TRIGGER
    BY <1>5, RemoveFilesEffect, LevelFacts DEF FindInv, DepthInv, Merging
  <2>2. CASE m # l
    <3>1. List(m)' = List(m)
      BY <2>1, <2>2, DroppedLists
    <3>2. QED
      BY <3>1
  <2>3. CASE m = l
    <3>1. PICK n \in Nat : n = Len(List(l))
      BY <2>1, DroppedLists
    <3>2. PICK T \in Nat : T = COMPACTION_TRIGGER
      BY <2>1, DroppedLists
    <3>3. Len(List(l)') = n - T /\ \A j \in 1..(n - T) : List(l)'[j] = List(l)[j + T]
      BY <2>1, <3>1, <3>2, DroppedLists
    <3>4. i \in 1..(n - T) /\ i + T \in 1..n
      BY <2>3, <3>3
    <3>5. QED
      BY <2>3, <3>1, <3>3, <3>4
  <2>4. QED
    BY <2>2, <2>3
<1>6. QED
  BY <1>1, <1>3, <1>4, <1>5, ListSteps

LEMMA ListEntries ==
  ASSUME TypeOK, FindInv, EntryInv, Next, NEW m \in Levels, NEW i \in 1..Len(List(m)'),
         NEW k \in Keys, NEW e, e = List(m)'[i][k]
  PROVE  IsEntry(k, e)'
<1>1. IsEntry(k, 0)
  BY DEF IsEntry
<1>2. IsEntry(k, Inactive[k])
  BY InactiveType DEF EntryInv, Inactive
<1>3. \A q \in Levels : \A j \in 1..Len(List(q)) : IsEntry(k, List(q)[j][k])
  BY DEF EntryInv
<1>4. \A q \in Merging : q \in Levels
  BY LevelFacts
<1>5. IsEntry(k, e)
  BY <1>1, <1>2, <1>3, <1>4, ListOrigin
<1>6. QED
  BY <1>5, EntryStays

LEMMA MergeEntries ==
  ASSUME TypeOK, EntryInv, Next, NEW l \in Merging, NEW k \in Keys,
         NEW e, e = merge'[l].table[k]
  PROVE  IsEntry(k, e)'
<1>1. e = merge[l].table[k] => IsEntry(k, e)
  BY DEF EntryInv, Merging
<1>2. CASE MergeFiles(l)
  <2>1. Len(List(l)) >= COMPACTION_TRIGGER
    BY <1>2, MergeFilesEffect
  <2>2. PICK w : w = YoungestEntry(k, SubSeq(List(l), 1, COMPACTION_TRIGGER))
    OBVIOUS
  <2>3. w = 0 \/ \E i \in 1..Len(List(l)) : w = List(l)[i][k]
    BY <2>1, <2>2, YoungestFacts
  <2>4. IsEntry(k, w)
    BY <2>3, LevelFacts DEF EntryInv, IsEntry
  <2>5. e \in {w, 0}
    BY <1>2, <2>2, MergeFilesEffect
  <2>6. IsEntry(k, e)
    BY <2>4, <2>5 DEF IsEntry
  <2>7. QED
    BY <2>6, EntryStays
<1>3. CASE RemoveFiles(l)
  <2>1. e = 0
    BY <1>3, RemoveFilesEffect DEF Idle, Empty
  <2>2. QED
    BY <2>1 DEF IsEntry
<1>4. ASSUME ~MergeFiles(l), ~RemoveFiles(l)
      PROVE  merge'[l].table = merge[l].table
  BY <1>4, MergeSteps, MergeFilesEffect, AddMergedEffect, RemoveFilesEffect
<1>5. QED
  BY <1>1, <1>2, <1>3, <1>4, EntryStays

(* What a step does to the list that a get has loaded.                     *)
LEMMA ReadersSteps ==
  ASSUME TypeOK, Next, NEW r \in Readers
  PROVE  readers'[r] = readers[r] \/ LoadReaders(r) \/ FindKey(r)
<1>1. readers \in [Readers -> Seq(Table)]
  BY DEF TypeOK
<1>2. ASSUME NEW q \in Readers, Search(q), q # r \/ (~LoadReaders(r) /\ ~FindKey(r))
      PROVE  readers'[r] = readers[r]
  BY <1>1, <1>2 DEF Search, LookInActive, LookInInactive, LoadReaders, FindKey, LeaveLevel
<1>3. ASSUME NEW q \in Readers, NEW c \in Keys, Call(q, c)
      PROVE  readers'[r] = readers[r]
  BY <1>3 DEF Call
<1>4. QED
  BY <1>2, <1>3, CompactorFrame
    DEF Next, Put, Insert, SwapActive, AddTable, ClearMemtable, getVars

LEMMA ReadersEntries ==
  ASSUME TypeOK, EntryInv, Next, NEW r \in Readers, NEW i \in 1..Len(readers'[r]), NEW k \in Keys,
         NEW e, e = readers'[r][i][k]
  PROVE  IsEntry(k, e)'
<1>1. readers \in [Readers -> Seq(Table)] /\ level \in [Readers -> Levels]
  BY DEF TypeOK
<1>2. CASE readers'[r] = readers[r]
  <2>1. IsEntry(k, e)
    BY <1>1, <1>2 DEF EntryInv
  <2>2. QED
    BY <2>1, EntryStays
<1>3. CASE LoadReaders(r)
  <2>1. PICK p \in Levels : p = level[r]
    BY <1>1
  <2>2. readers'[r] = List(p) /\ List(p) \in Seq(Table)
    BY <1>1, <1>3, <2>1 DEF LoadReaders, List, TypeOK
  <2>3. IsEntry(k, e)
    BY <2>2 DEF EntryInv
  <2>4. QED
    BY <2>3, EntryStays
<1>4. CASE FindKey(r)
  <2>1. PICK s \in Seq(Table) : s = readers[r]
    BY <1>1
  <2>2. s # <<>> /\ readers'[r] \in {Front(s), <<>>}
    BY <1>1, <1>4, <2>1 DEF FindKey
  <2>3. i \in 1..Len(s) /\ readers'[r][i] = s[i]
    BY <2>1, <2>2 DEF Front
  <2>4. IsEntry(k, e)
    BY <2>1, <2>3 DEF EntryInv
  <2>5. QED
    BY <2>4, EntryStays
<1>5. QED
  BY <1>2, <1>3, <1>4, ReadersSteps

LEMMA EntryStep ==
  ASSUME TypeOK, FindInv, EntryInv, Next
  PROVE  EntryInv'
<1>1. \A i \in {0, 1} : \A k \in Keys : \A e : e = memtable'[i][k] => IsEntry(k, e)'
  BY MemtableEntries
<1>2. \A l \in Levels : \A i \in 1..Len(List(l)') : \A k \in Keys : \A e :
        e = List(l)'[i][k] => IsEntry(k, e)'
  BY ListEntries
<1>3. \A l \in Merging : \A k \in Keys : \A e : e = merge'[l].table[k] => IsEntry(k, e)'
  BY MergeEntries
<1>4. \A r \in Readers : \A i \in 1..Len(readers'[r]) : \A k \in Keys : \A e :
        e = readers'[r][i][k] => IsEntry(k, e)'
  BY ReadersEntries
<1>5. QED
  BY <1>1, <1>2, <1>3, <1>4 DEF EntryInv, IsEntry, Merging

-----------------------------------------------------------------------------
(* Merges.                                                                 *)

LEMMA InputsStay ==
  ASSUME TypeOK, DepthInv, Next, NEW l \in Merging, Len(List(l)) >= COMPACTION_TRIGGER,
         ~RemoveFiles(l), NEW k \in Keys
  PROVE  /\ NoInput(l, k)' <=> NoInput(l, k)
         /\ \A x : FirstInput(l, k, x)' <=> FirstInput(l, k, x)
<1>1. PICK T \in Nat : T = COMPACTION_TRIGGER
  BY ConstantsAssumption DEF ConstantsAssumption
<1>2. \A i \in 1..T : i \in 1..Len(List(l))
  BY <1>1, LevelFacts
<1>3. \A i \in 1..T : List(l)'[i] = List(l)[i]
  BY <1>2, ListsGrow, LevelFacts
<1>4. QED
  BY <1>1, <1>3 DEF NoInput, FirstInput

LEMMA InputIsEntry ==
  ASSUME TypeOK, EntryInv, NEW l \in Merging, Len(List(l)) >= COMPACTION_TRIGGER, NEW k \in Keys,
         NEW x, FirstInput(l, k, x)
  PROVE  x \in 1..Len(writes) /\ x \in 0..Len(writes)
<1>1. PICK i \in 1..COMPACTION_TRIGGER : List(l)[i][k] = x
  BY DEF FirstInput
<1>2. i \in 1..Len(List(l)) /\ l \in Levels
  BY LevelFacts, ConstantsAssumption DEF ConstantsAssumption
<1>3. IsEntry(k, x) /\ x # 0
  BY <1>1, <1>2 DEF EntryInv, FirstInput
<1>4. QED
  BY <1>3 DEF IsEntry

LEMMA MergeStep ==
  ASSUME TypeOK, EntryInv, FindInv, Next
  PROVE  MergeInv'
<1> SUFFICES ASSUME NEW l \in Merging, merge'[l].at = "add", NEW k \in Keys
             PROVE  /\ NoInput(l, k)' => merge'[l].table[k] = 0
                    /\ \A x \in 1..MaxWrites : FirstInput(l, k, x)' =>
                         \/ merge'[l].table[k] = x
                         \/ merge'[l].table[k] = 0 /\ FindsNone(k, l + 1)' /\ Answer(x)' = 0
  BY DEF MergeInv, Merging
<1>1. DepthInv /\ l \in Nat /\ l \in Levels /\ ~RemoveFiles(l)
  BY LevelFacts, RemoveFilesEffect DEF FindInv, Idle
<1>2. CASE MergeFiles(l)
  <2>1. /\ merge[l].at = "idle" /\ Len(List(l)) >= COMPACTION_TRIGGER
        /\ UNCHANGED <<writes, readers_at_level>>
    BY <1>2, MergeFilesEffect
  <2>2. PICK w : w = YoungestEntry(k, SubSeq(List(l), 1, COMPACTION_TRIGGER))
    OBVIOUS
  <2>3. (NoInput(l, k) => w = 0) /\ \A x : FirstInput(l, k, x) => w = x
    BY <2>1, <2>2, YoungestFacts
  <2>4. merge'[l].table[k] = w \/ (merge'[l].table[k] = 0 /\ Purges(l) /\ IsTombstone(w))
    BY <1>2, <2>2, MergeFilesEffect
  <2>5. Purges(l) => FindsNone(k, l + 1)'
    <3>1. ASSUME Purges(l), NEW m \in Levels, m >= l + 1
          PROVE  Len(List(m)') = 0
      <4>1. m > curr_max_level /\ l = curr_max_level
        BY <1>1, <3>1, ConstantsAssumption DEF Purges, Levels, ConstantsAssumption
      <4>2. Len(List(m)) = 0
        BY <1>1, <2>1, <4>1 DEF DepthInv
      <4>3. QED
        BY <2>1, <4>2 DEF List
    <3>2. QED
      BY <3>1 DEF FindsNone, NoneAt
  <2>6. IsTombstone(w) => Answer(w)' = 0
    BY <2>1 DEF Answer, IsTombstone
  <2>7. QED
    BY <1>1, <2>1, <2>3, <2>4, <2>5, <2>6, InputsStay
<1>3. CASE ~MergeFiles(l)
  <2>1. merge'[l] = merge[l] /\ ~AddMerged(l)
    BY <1>1, <1>3, MergeSteps, MergeFilesEffect, AddMergedEffect, RemoveFilesEffect
  <2>2. Len(List(l)) >= COMPACTION_TRIGGER
    BY <1>1, <2>1 DEF DepthInv, Merging
  <2>3. FindsNone(k, l + 1) => FindsNone(k, l + 1)'
    <3>1. l + 1 \in Nat /\ l + 1 # 0 /\ \A m \in Merging : l + 1 = m + 1 => m = l
      BY <1>1, LevelFacts
    <3>2. QED
      BY <2>1, <3>1, FindsStep
  <2>4. \A x : FirstInput(l, k, x) => Answer(x)' = Answer(x)
    BY <2>2, InputIsEntry, AnswerStays
  <2>5. /\ NoInput(l, k) => merge[l].table[k] = 0
        /\ \A x \in 1..MaxWrites : FirstInput(l, k, x) =>
             \/ merge[l].table[k] = x
             \/ merge[l].table[k] = 0 /\ FindsNone(k, l + 1) /\ Answer(x) = 0
    BY <2>1 DEF FindInv, MergeInv, Merging
  <2>6. QED
    BY <1>1, <2>1, <2>2, <2>3, <2>4, <2>5, InputsStay
<1>4. QED
  BY <1>2, <1>3

LEMMA FlightStep ==
  ASSUME TypeOK, EntryInv, FindInv, Next
  PROVE  FlightInv'
<1> SUFFICES ASSUME NEW l \in Merging, merge'[l].at = "remove", NEW k \in Keys,
                    NEW x \in 1..MaxWrites, FirstInput(l, k, x)'
             PROVE  Serves(k, l + 1, x)'
  BY DEF FlightInv, Merging
<1>1. DepthInv /\ l \in Nat /\ l + 1 \in Nat /\ l + 1 # 0 /\ ~RemoveFiles(l)
  BY LevelFacts, RemoveFilesEffect DEF FindInv, Idle
<1>2. ~MergeFiles(l)
  BY MergeFilesEffect
<1>3. \A m \in Merging : l + 1 = m + 1 => m = l
  BY <1>1, LevelFacts
<1>4. CASE AddMerged(l)
  <2>1. /\ merge[l].at = "add" /\ Appended(l + 1, merge[l].table) /\ merge[l].table \in Table
        /\ UNCHANGED writes
    BY <1>4, AddMergedEffect
  <2>2. Len(List(l)) >= COMPACTION_TRIGGER
    BY <1>1, <2>1 DEF DepthInv, Merging
  <2>3. FirstInput(l, k, x)
    BY <1>1, <2>2, InputsStay
  <2>4. \/ merge[l].table[k] = x
        \/ merge[l].table[k] = 0 /\ FindsNone(k, l + 1) /\ Answer(x) = 0
    BY <2>1, <2>3 DEF FindInv, MergeInv, Merging
  <2>5. CASE merge[l].table[k] = x
    <3>1. x # 0 /\ l + 1 \in Levels
      BY LevelFacts
    <3>2. Finds(k, l + 1, x)'
      BY <2>1, <2>5, <3>1, AppendedFound
    <3>3. QED
      BY <3>2 DEF Serves
  <2>6. CASE merge[l].table[k] = 0 /\ FindsNone(k, l + 1) /\ Answer(x) = 0
    <3>1. FindsNone(k, l + 1)'
      BY <1>1, <1>3, <2>6, FindsStep
    <3>2. Answer(x)' = 0
      BY <2>1, <2>6 DEF Answer, IsTombstone
    <3>3. QED
      BY <3>1, <3>2 DEF Serves
  <2>7. QED
    BY <2>4, <2>5, <2>6
<1>5. CASE ~AddMerged(l)
  <2>1. merge'[l] = merge[l]
    BY <1>1, <1>2, <1>5, MergeSteps, MergeFilesEffect, AddMergedEffect, RemoveFilesEffect
  <2>2. Len(List(l)) >= COMPACTION_TRIGGER
    BY <1>1, <2>1 DEF DepthInv, Merging
  <2>3. FirstInput(l, k, x)
    BY <1>1, <2>2, InputsStay
  <2>4. Serves(k, l + 1, x) /\ x \in 0..Len(writes)
    BY <2>1, <2>2, <2>3, InputIsEntry DEF FindInv, FlightInv, Merging
  <2>5. QED
    BY <1>1, <1>3, <1>5, <2>4, ServesStep
<1>6. QED
  BY <1>4, <1>5

-----------------------------------------------------------------------------
(* The memtables.                                                          *)

LEMMA MemorySteps ==
  ASSUME TypeOK, Next
  PROVE  \/ Insert \/ SwapActive \/ ClearMemtable
         \/ UNCHANGED <<completed, Active, Inactive, active, flusher>>
         \/ AddTable
<1>1. ASSUME UNCHANGED <<active, memtable>>
      PROVE  UNCHANGED <<Active, Inactive>>
  BY <1>1 DEF Active, Inactive
<1>2. \/ Insert \/ SwapActive \/ ClearMemtable \/ AddTable
      \/ UNCHANGED <<completed, active, memtable, flusher>>
  BY GetFrame, CompactorFrame DEF Next, Put, writerVars, memVars
<1>3. QED
  BY <1>1, <1>2

LEMMA InsertEffect ==
  ASSUME TypeOK, Insert
  PROVE  \E n \in 1..Len(writes) :
           /\ n = completed + 1 /\ completed' = n /\ writes[n].key \in Keys
           /\ Active' = [Active EXCEPT ![writes[n].key] = n]
           /\ Inactive' = Inactive /\ active' = active
           /\ UNCHANGED <<writes, flusher, readers_at_level, reader, key, target, level,
                          readers, result>>
<1>1. PICK n \in 1..Len(writes) : n = completed + 1
  BY DEF Insert, TypeOK
<1>2. /\ completed' = n /\ active' = active
      /\ memtable' = [memtable EXCEPT ![active][writes[n].key] = n]
      /\ UNCHANGED <<writes, flusher, readers_at_level, reader, key, target, level,
                     readers, result>>
  BY <1>1 DEF Insert, levelVars, getVars
<1>3. writes[n].key \in Keys
  <2>1. writes \in Seq([key : Keys, tombstone : BOOLEAN])
    BY DEF TypeOK
  <2>2. writes[n] \in [key : Keys, tombstone : BOOLEAN]
    BY <2>1, ElementOfSeq
  <2>3. QED
    BY <2>2
<1>4. Active' = [Active EXCEPT ![writes[n].key] = n] /\ Inactive' = Inactive
  BY <1>2, InactiveType DEF TypeOK, Active, Inactive
<1>5. QED
  BY <1>1, <1>2, <1>3, <1>4

LEMMA SwapEffect ==
  ASSUME TypeOK, SwapActive
  PROVE  /\ Active' = Inactive /\ Inactive' = Active /\ flusher = "idle" /\ flusher' = "flush"
         /\ \A r \in Readers : reader[r] # "inactive"
         /\ UNCHANGED <<writes, completed, readers_at_level, reader, key, target, level,
                        readers, result>>
<1>1. /\ active' = 1 - active /\ flusher = "idle" /\ flusher' = "flush"
      /\ \A r \in Readers : reader[r] # "inactive"
      /\ UNCHANGED <<memtable, writes, completed, readers_at_level, reader, key, target, level,
                     readers, result>>
  BY DEF SwapActive, writerVars, levelVars, getVars
<1>2. 1 - (1 - active) = active
  BY InactiveType
<1>3. QED
  BY <1>1, <1>2 DEF Active, Inactive

LEMMA ClearEffect ==
  ASSUME TypeOK, ClearMemtable
  PROVE  /\ Active' = Active /\ Inactive' = Empty /\ flusher = "clear" /\ flusher' = "idle"
         /\ UNCHANGED <<writes, completed, readers_at_level, reader, key, target, level,
                        readers, result>>
<1>1. /\ active' = active /\ flusher = "clear" /\ flusher' = "idle"
      /\ memtable' = [memtable EXCEPT ![1 - active] = Empty]
      /\ UNCHANGED <<writes, completed, readers_at_level, reader, key, target, level,
                     readers, result>>
  BY DEF ClearMemtable, writerVars, levelVars, getVars
<1>2. QED
  BY <1>1, InactiveType DEF Active, Inactive, TypeOK

LEMMA CoverStep ==
  ASSUME TypeOK, TypeOK', FindInv, CoverInv, FlushInv, Next
  PROVE  CoverInv'
<1> SUFFICES ASSUME NEW k \in Keys, NEW w \in 0..MaxWrites, NEW c, c = completed',
                    w = NewestOf(k, c)'
             PROVE  /\ Active'[k] # 0 => Active'[k] = w
                    /\ (Active'[k] = 0 /\ Inactive'[k] # 0) => Inactive'[k] = w
                    /\ (Active'[k] = 0 /\ Inactive'[k] = 0) => Serves(k, 0, w)'
  BY DEF CoverInv, NewestOf
<1>1. PICK v : v = NewestOf(k, completed)
  OBVIOUS
<1>2. completed \in 0..Len(writes) /\ completed \in Nat
  BY DEF TypeOK
<1>3. /\ v \in 0..completed /\ v \in 0..MaxWrites /\ v \in 0..Len(writes)
      /\ (v # 0 => writes[v].key = k) /\ \A u \in 1..completed : writes[u].key = k => u <= v
  BY <1>1, <1>2, NewestFacts
<1>4. /\ Active[k] # 0 => Active[k] = v
      /\ (Active[k] = 0 /\ Inactive[k] # 0) => Inactive[k] = v
      /\ (Active[k] = 0 /\ Inactive[k] = 0) => Serves(k, 0, v)
  BY <1>1, <1>3 DEF CoverInv
<1>5. CASE Insert
  <2>1. PICK n \in 1..Len(writes) :
          /\ n = completed + 1 /\ completed' = n /\ writes[n].key \in Keys
          /\ Active' = [Active EXCEPT ![writes[n].key] = n] /\ Inactive' = Inactive
          /\ UNCHANGED <<writes, readers_at_level>>
    BY <1>5, InsertEffect
  <2>2. w = NewestOf(k, n)
    BY <2>1 DEF NewestOf
  <2>3. n \in 0..Len(writes) /\ n \in Nat /\ \A u \in 1..n : u \in 1..completed \/ u = n
    BY <1>2, <2>1
  <2>4. CASE writes[n].key = k
    <3>1. \A u \in 1..n : u <= n
      OBVIOUS
    <3>2. w = n
      BY <2>2, <2>3, <2>4, <3>1, NewestUnique
    <3>3. Active'[k] = n /\ n # 0
      BY <2>1, <2>4, InactiveType DEF Table
    <3>4. QED
      BY <3>2, <3>3
  <2>5. CASE writes[n].key # k
    <3>1. v \in 0..n
      BY <1>2, <1>3, <2>1
    <3>2. \A u \in 1..n : writes[u].key = k => u <= v
      BY <1>3, <2>3, <2>5
    <3>3. w = v
      BY <1>3, <2>2, <2>3, <3>1, <3>2, NewestUnique
    <3>4. Active'[k] = Active[k] /\ Inactive'[k] = Inactive[k]
      BY <2>1, <2>5, InactiveType DEF Table
    <3>5. Serves(k, 0, v) => Serves(k, 0, v)'
      BY <2>1 DEF Serves, Finds, FindsNone, FirstAt, NoneAt, List, Answer, IsTombstone
    <3>6. Serves(k, 0, v)' => Serves(k, 0, w)'
      BY <3>3
    <3>7. QED
      BY <1>4, <3>3, <3>4, <3>5, <3>6
  <2>6. QED
    BY <2>4, <2>5
<1>6. ASSUME UNCHANGED completed
      PROVE  w = v
  BY <1>1, <1>2, <1>6, NewestStays
<1>7. ASSUME UNCHANGED <<writes, readers_at_level>>
      PROVE  \A x : Serves(k, 0, x) <=> Serves(k, 0, x)'
  BY <1>7 DEF Serves, Finds, FindsNone, FirstAt, NoneAt, List, Answer, IsTombstone
<1>8. CASE SwapActive
  <2>1. /\ Active' = Inactive /\ Inactive' = Active /\ flusher = "idle"
        /\ UNCHANGED <<writes, completed, readers_at_level>>
    BY <1>8, SwapEffect
  <2>2. Inactive[k] = 0
    BY <2>1 DEF FlushInv, Empty
  <2>3. Serves(k, 0, w) <=> Serves(k, 0, w)'
    BY <1>7, <2>1
  <2>4. QED
    BY <1>4, <1>6, <2>1, <2>2, <2>3
<1>9. CASE ClearMemtable
  <2>1. /\ Active' = Active /\ Inactive' = Empty /\ flusher = "clear"
        /\ UNCHANGED <<writes, completed, readers_at_level>>
    BY <1>9, ClearEffect
  <2>2. Inactive'[k] = 0
    BY <2>1 DEF Empty
  <2>3. Inactive[k] # 0 => Inactive[k] \in 1..MaxWrites
    BY InactiveType DEF Table
  <2>4. Inactive[k] # 0 => Serves(k, 0, Inactive[k])
    BY <2>1, <2>3 DEF FlushInv
  <2>5. Active[k] = 0 => Serves(k, 0, w)
    BY <1>4, <1>6, <2>1, <2>4
  <2>6. Serves(k, 0, w) <=> Serves(k, 0, w)'
    BY <1>7, <2>1
  <2>7. QED
    BY <1>4, <1>6, <2>1, <2>2, <2>5, <2>6
<1>10. ASSUME UNCHANGED <<completed, Active, Inactive>>
       PROVE  /\ Active'[k] # 0 => Active'[k] = w
              /\ (Active'[k] = 0 /\ Inactive'[k] # 0) => Inactive'[k] = w
              /\ (Active'[k] = 0 /\ Inactive'[k] = 0) => Serves(k, 0, w)'
  <2>1. Active'[k] = Active[k] /\ Inactive'[k] = Inactive[k] /\ w = v
    BY <1>6, <1>10
  <2>2. ASSUME Inactive[k] = 0, Serves(k, 0, w)
        PROVE  Serves(k, 0, w)'
    <3>1. w \in 0..Len(writes) /\ 0 \in Nat /\ \A l \in Merging : 0 # l + 1
      BY <1>3, <2>1, LevelFacts
    <3>2. QED
      BY <2>2, <3>1, ServesStep
  <2>3. QED
    BY <1>4, <2>1, <2>2
<1>11. CASE AddTable
  <2>1. UNCHANGED <<completed, Active, Inactive>>
    BY <1>11, AddTableEffect DEF Active, Inactive
  <2>2. QED
    BY <1>10, <2>1
<1>12. QED
  BY <1>5, <1>8, <1>9, <1>10, <1>11, MemorySteps

LEMMA FlushStep ==
  ASSUME TypeOK, EntryInv, FindInv, FlushInv, Next
  PROVE  FlushInv'
<1>1. ASSUME flusher' = "idle"
      PROVE  Inactive' = Empty
  BY <1>1, MemorySteps, InsertEffect, SwapEffect, ClearEffect, AddTableEffect DEF FlushInv
<1>2. ASSUME flusher' = "clear", NEW k \in Keys, NEW x \in 1..MaxWrites, Inactive'[k] = x
      PROVE  Serves(k, 0, x)'
  <2>1. CASE AddTable
    <3>1. Appended(0, Inactive) /\ Inactive \in Table /\ 0 \in Levels /\ Inactive' = Inactive
      BY <2>1, AddTableEffect DEF Inactive
    <3>2. x # 0 /\ x = Inactive[k]
      BY <1>2, <3>1
    <3>3. QED
      BY <3>1, <3>2, AppendedFound DEF Serves
  <2>2. CASE ~AddTable
    <3>1. flusher = "clear" /\ Inactive' = Inactive
      BY <1>2, <2>2, MemorySteps, InsertEffect, SwapEffect, ClearEffect
    <3>2. Serves(k, 0, x)
      BY <1>2, <3>1 DEF FlushInv
    <3>3. x \in 0..Len(writes)
      <4>1. IsEntry(k, x)
        BY <1>2, <3>1, InactiveType DEF EntryInv, Inactive
      <4>2. QED
        BY <4>1 DEF IsEntry, TypeOK
    <3>4. 0 \in Nat /\ \A l \in Merging : 0 # l + 1
      BY LevelFacts
    <3>5. QED
      BY <2>2, <3>2, <3>3, <3>4, ServesStep
  <2>3. QED
    BY <2>1, <2>2
<1>3. QED
  BY <1>1, <1>2 DEF FlushInv

-----------------------------------------------------------------------------
(* What a get has ahead of it.                                             *)

LEMMA FoundIsEntry ==
  ASSUME TypeOK, EntryInv, NEW k \in Keys, NEW p \in Nat, NEW x, Finds(k, p, x)
  PROVE  IsEntry(k, x) /\ x \in 1..Len(writes) /\ x # 0
  BY DEF Finds, FirstAt, EntryInv, IsEntry

LEMMA ServesAhead ==
  ASSUME TypeOK, NEW k \in Keys, NEW n \in 0..Len(writes), NEW v, v = NewestOf(k, n),
         NEW p \in Nat, NEW x \in 1..Len(writes), IsEntry(k, x), x >= v, Serves(k, p, x)
  PROVE  Ahead(k, n, v, p)
<1>1. x # 0 /\ x \in 1..MaxWrites
  BY ConstantsAssumption DEF TypeOK, ConstantsAssumption
<1>2. Answer(x) = 0 => MayMiss(k, n)
  BY <1>1, TombstoneMayMiss
<1>3. QED
  BY <1>1, <1>2 DEF Serves, Ahead

(* A step keeps it, but for what is put where the search goes on.          *)
LEMMA AheadStep ==
  ASSUME TypeOK, EntryInv, FindInv, Next, NEW k \in Keys, NEW n \in 0..Len(writes),
         NEW v, v = NewestOf(k, n), NEW p \in Nat, Ahead(k, n, v, p)
  PROVE  \/ Ahead(k, n, v, p)'
         \/ p = 0 /\ AddTable /\ Inactive[k] # 0
         \/ \E l \in Merging : p = l + 1 /\ AddMerged(l) /\ merge[l].table[k] # 0
<1>1. CASE \E x \in 1..MaxWrites : x >= v /\ Finds(k, p, x)
  <2>1. PICK x \in 1..MaxWrites : x >= v /\ Finds(k, p, x)
    BY <1>1
  <2>2. IsEntry(k, x) /\ x \in 0..Len(writes) /\ x # 0
    BY <2>1, FoundIsEntry
  <2>3. ASSUME Serves(k, p, x)'
        PROVE  Ahead(k, n, v, p)'
    <3>1. CASE Finds(k, p, x)'
      BY <2>1, <3>1 DEF Ahead
    <3>2. CASE FindsNone(k, p)' /\ Answer(x)' = 0
      <4>1. Answer(x) = 0
        BY <2>2, <3>2, AnswerStays
      <4>2. MayMiss(k, n)
        BY <2>1, <2>2, <4>1, TombstoneMayMiss
      <4>3. MayMiss(k, n)'
        BY <4>2, MissStays
      <4>4. QED
        BY <3>2, <4>3 DEF Ahead
    <3>3. QED
      BY <2>3, <3>1, <3>2 DEF Serves
  <2>4. QED
    BY <2>1, <2>3, FindsStep
<1>2. CASE FindsNone(k, p) /\ MayMiss(k, n)
  <2>1. MayMiss(k, n)'
    BY <1>2, MissStays
  <2>2. QED
    BY <1>2, <2>1, FindsStep DEF Ahead
<1>3. QED
  BY <1>1, <1>2 DEF Ahead

(* It does not matter where a table is put that has nothing too old.       *)
LEMMA AheadOfAppended ==
  ASSUME TypeOK, NEW l \in Levels, NEW t \in Table, Appended(l, t), NEW k \in Keys,
         NEW n, NEW v, NEW x, x = t[k], x # 0, Newer(v, x)
  PROVE  Ahead(k, n, v, l)'
<1>1. x \in 1..MaxWrites /\ x >= v
  BY DEF Newer, Table
<1>2. Finds(k, l, x)'
  BY AppendedFound
<1>3. QED
  BY <1>1, <1>2 DEF Ahead

(* A search that has passed the levels before p, or is to begin, keeps     *)
(* what is ahead: what comes to p comes from there.                        *)
LEMMA AheadStays ==
  ASSUME TypeOK, EntryInv, FindInv, Next, NEW k \in Keys, NEW n \in 0..Len(writes),
         NEW v, v = NewestOf(k, n), NEW p \in Nat, Ahead(k, n, v, p),
         p = 0 => Newer(v, Inactive[k]),
         \A m \in Levels : m + 1 = p => \A i \in 1..Len(List(m)) : Newer(v, List(m)[i][k])
  PROVE  Ahead(k, n, v, p)'
<1>1. CASE p = 0 /\ AddTable /\ Inactive[k] # 0
  <2>1. Appended(0, Inactive) /\ Inactive \in Table /\ 0 \in Levels
    BY <1>1, AddTableEffect
  <2>2. Ahead(k, n, v, 0)'
    BY <1>1, <2>1, AheadOfAppended
  <2>3. QED
    BY <1>1, <2>2
<1>2. ASSUME NEW l \in Merging, p = l + 1, AddMerged(l), merge[l].table[k] # 0
      PROVE  Ahead(k, n, v, p)'
  <2>1. /\ Appended(l + 1, merge[l].table) /\ merge[l].table \in Table /\ l + 1 \in Levels
        /\ merge[l].at = "add" /\ l \in Levels
    BY <1>2, AddMergedEffect, LevelFacts
  <2>2. \E i \in 1..Len(List(l)) : List(l)[i][k] = merge[l].table[k]
    BY <1>2, <2>1, MergedIsInput DEF FindInv
  <2>3. Newer(v, merge[l].table[k])
    BY <1>2, <2>1, <2>2
  <2>4. PICK q \in Levels : q = l + 1
    BY <2>1
  <2>5. Ahead(k, n, v, q)'
    BY <1>2, <2>1, <2>3, <2>4, AheadOfAppended
  <2>6. QED
    BY <1>2, <2>4, <2>5
<1>3. QED
  BY <1>1, <1>2, AheadStep

(* What has nothing too old gets nothing too old.                          *)
LEMMA MemoryStaysNewer ==
  ASSUME TypeOK, FlushInv, Next, NEW k \in Keys, NEW n \in 0..Len(writes),
         NEW v, v = NewestOf(k, n)
  PROVE  /\ n <= completed => n <= completed'
         /\ (n <= completed /\ Newer(v, Active[k])) => Newer(v, Active'[k])
         /\ (Newer(v, Active[k]) /\ Newer(v, Inactive[k])) => Newer(v, Inactive'[k])
<1>1. v \in 0..n /\ completed \in Nat /\ n \in Nat
  BY NewestFacts DEF TypeOK
<1>2. CASE Insert
  <2>1. PICK c \in 1..Len(writes) :
          /\ c = completed + 1 /\ completed' = c /\ writes[c].key \in Keys
          /\ Active' = [Active EXCEPT ![writes[c].key] = c] /\ Inactive' = Inactive
    BY <1>2, InsertEffect
  <2>2. Active'[k] = Active[k] \/ Active'[k] = c
    BY <2>1, InactiveType DEF Table
  <2>3. n <= completed => c >= v /\ n <= completed'
    BY <1>1, <2>1
  <2>4. QED
    BY <2>1, <2>2, <2>3 DEF Newer
<1>3. CASE SwapActive
  <2>1. Active' = Inactive /\ Inactive' = Active /\ flusher = "idle" /\ UNCHANGED completed
    BY <1>3, SwapEffect
  <2>2. Active'[k] = 0
    BY <2>1 DEF FlushInv, Empty
  <2>3. QED
    BY <2>1, <2>2 DEF Newer
<1>4. CASE ClearMemtable
  <2>1. Active' = Active /\ Inactive'[k] = 0 /\ UNCHANGED completed
    BY <1>4, ClearEffect DEF Empty
  <2>2. QED
    BY <2>1 DEF Newer
<1>5. CASE AddTable
  BY <1>5, AddTableEffect DEF Active, Inactive
<1>6. CASE UNCHANGED <<completed, Active, Inactive>>
  BY <1>6
<1>7. QED
  BY <1>2, <1>3, <1>4, <1>5, <1>6, MemorySteps

(* An entry that comes to level m comes from before.                       *)
LEMMA ListStaysNewer ==
  ASSUME TypeOK, FindInv, Next, NEW k \in Keys, NEW v, NEW m \in Levels, NEW i \in 1..Len(List(m)'),
         Newer(v, Inactive[k]),
         \A q \in Levels : q < m => \A j \in 1..Len(List(q)) : Newer(v, List(q)[j][k])
  PROVE  \/ Newer(v, List(m)'[i][k])
         \/ \E j \in 1..Len(List(m)) : List(m)'[i][k] = List(m)[j][k]
<1>1. PICK e : e = List(m)'[i][k]
  OBVIOUS
<1>2. \A q \in Merging : m = q + 1 => q \in Levels /\ q < m
  BY LevelFacts
<1>3. \/ e = 0 \/ \E j \in 1..Len(List(m)) : e = List(m)[j][k]
      \/ m = 0 /\ e = Inactive[k]
      \/ \E q \in Merging : m = q + 1 /\ \E j \in 1..Len(List(q)) : e = List(q)[j][k]
  BY <1>1, ListOrigin
<1>4. Newer(v, e) \/ \E j \in 1..Len(List(m)) : e = List(m)[j][k]
  BY <1>2, <1>3 DEF Newer
<1>5. QED
  BY <1>1, <1>4

-----------------------------------------------------------------------------
(* The gets.                                                               *)

LEMMA SameReader ==
  ASSUME NEW r \in Readers, reader'[r] = reader[r], readers'[r] = readers[r], NEW k \in Keys
  PROVE  /\ Looking(r)' <=> Looking(r)
         /\ NoneLeft(r, k)' <=> NoneLeft(r, k)
         /\ \A x : FirstLeft(r, k, x)' <=> FirstLeft(r, k, x)
  BY DEF Looking, NoneLeft, FirstLeft

(* The steps of the others keep what ReaderInv says of get r.              *)
LEMMA BehindStays ==
  ASSUME TypeOK, FindInv, FlushInv, Next, NEW r \in Readers, NEW k \in Keys,
         NEW n \in 0..Len(writes), NEW v, v = NewestOf(k, n), NEW l \in Levels,
         reader'[r] = reader[r], readers'[r] = readers[r], result'[r] = result[r],
         Behind(r, k, n, v, l)
  PROVE  Behind(r, k, n, v, l)'
<1>1. Looking(r)' <=> Looking(r)
  BY SameReader
<1>2. Looking(r) => n <= completed' /\ result'[r] = 0 /\ Newer(v, Active'[k])
  BY MemoryStaysNewer DEF Behind
<1>3. ASSUME reader[r] \in {"load", "tables"}
      PROVE  /\ Newer(v, Inactive'[k])
             /\ \A m \in Levels : m < l =>
                  \A i \in 1..Len(List(m)') : Newer(v, List(m)'[i][k])
  <2>1. /\ Looking(r) /\ Newer(v, Active[k]) /\ Newer(v, Inactive[k])
        /\ \A m \in Levels : m < l => \A i \in 1..Len(List(m)) : Newer(v, List(m)[i][k])
    BY <1>3 DEF Behind, Looking
  <2>2. Newer(v, Inactive'[k])
    BY <2>1, MemoryStaysNewer
  <2>3. ASSUME NEW m \in Levels, m < l, NEW i \in 1..Len(List(m)')
        PROVE  Newer(v, List(m)'[i][k])
    <3>1. \A q \in Levels : q < m => q < l
      BY <2>3, ConstantsAssumption DEF Levels, ConstantsAssumption
    <3>2. \A q \in Levels : q < m => \A j \in 1..Len(List(q)) : Newer(v, List(q)[j][k])
      BY <2>1, <3>1
    <3>3. \/ Newer(v, List(m)'[i][k])
          \/ \E j \in 1..Len(List(m)) : List(m)'[i][k] = List(m)[j][k]
      BY <2>1, <3>2, ListStaysNewer
    <3>4. QED
      BY <2>1, <2>3, <3>3
  <2>4. QED
    BY <2>2, <2>3
<1>4. QED
  BY <1>1, <1>2, <1>3 DEF Behind, Newer

LEMMA InMemoryStays ==
  ASSUME TypeOK, EntryInv, FindInv, FlushInv, Next, NEW r \in Readers, NEW k \in Keys,
         NEW n \in 0..Len(writes), NEW v, v = NewestOf(k, n), NEW l \in Levels,
         reader'[r] = reader[r], Behind(r, k, n, v, l), InMemory(r, k, n, v)
  PROVE  InMemory(r, k, n, v)'
<1>1. SUFFICES ASSUME reader[r] = "inactive"
               PROVE  Newer(v, Inactive'[k]) /\ (Inactive'[k] = 0 => Ahead(k, n, v, 0)')
  BY DEF InMemory, Newer
<1>2. Newer(v, Active[k]) /\ Newer(v, Inactive[k]) /\ (Inactive[k] = 0 => Ahead(k, n, v, 0))
  BY <1>1 DEF Behind, InMemory, Looking
<1>3. Newer(v, Inactive'[k])
  BY <1>2, MemoryStaysNewer
<1>4. ASSUME Inactive'[k] = 0
      PROVE  Ahead(k, n, v, 0)
  <2>1. CASE Inactive[k] = 0
    BY <1>2, <2>1
  <2>2. CASE Inactive[k] # 0
    <3>1. ~SwapActive
      BY <1>1, SwapEffect
    <3>2. ClearMemtable
      BY <1>4, <2>2, <3>1, MemorySteps, InsertEffect, AddTableEffect DEF Inactive
    <3>3. PICK x : x = Inactive[k]
      OBVIOUS
    <3>4. IsEntry(k, x) /\ x # 0
      BY <2>2, <3>3, InactiveType DEF EntryInv, Inactive
    <3>5. x \in 1..Len(writes) /\ x \in 1..MaxWrites /\ x >= v
      BY <1>2, <3>3, <3>4, ConstantsAssumption
        DEF IsEntry, Newer, TypeOK, ConstantsAssumption
    <3>6. Serves(k, 0, x)
      BY <3>2, <3>3, <3>5, ClearEffect DEF FlushInv
    <3>7. QED
      BY <3>4, <3>5, <3>6, ServesAhead
  <2>3. QED
    BY <2>1, <2>2
<1>5. \A m \in Levels : m + 1 # 0
  BY ConstantsAssumption DEF Levels, ConstantsAssumption
<1>6. QED
  BY <1>2, <1>3, <1>4, <1>5, AheadStays

LEMMA AtLevelStays ==
  ASSUME TypeOK, EntryInv, FindInv, Next, NEW r \in Readers, NEW k \in Keys,
         NEW n \in 0..Len(writes), NEW v, v = NewestOf(k, n), NEW l \in Levels,
         reader'[r] = reader[r], readers'[r] = readers[r],
         Behind(r, k, n, v, l), AtLevel(r, k, n, v, l)
  PROVE  AtLevel(r, k, n, v, l)'
<1>1. l \in Nat /\ l + 1 \in Nat /\ l + 1 # 0 /\ \A m \in Levels : m \in Nat
  BY ConstantsAssumption DEF Levels, ConstantsAssumption
<1>2. reader[r] \in {"load", "tables"} =>
        /\ Newer(v, Inactive[k])
        /\ \A m \in Levels : m < l => \A i \in 1..Len(List(m)) : Newer(v, List(m)[i][k])
  BY DEF Behind
<1>3. ASSUME reader[r] = "load"
      PROVE  Ahead(k, n, v, l)'
  <2>1. \A m \in Levels : m + 1 = l => m < l
    BY <1>1
  <2>2. Ahead(k, n, v, l)
    BY <1>3 DEF AtLevel
  <2>3. QED
    BY <1>1, <1>2, <1>3, <2>1, <2>2, AheadStays
<1>4. ASSUME reader[r] = "tables"
      PROVE  /\ \/ \E x \in 1..MaxWrites : x >= v /\ FirstLeft(r, k, x)'
                \/ NoneLeft(r, k)' /\ Ahead(k, n, v, l + 1)'
             /\ \A i \in 1..Len(List(l)') :
                  \/ Newer(v, List(l)'[i][k])
                  \/ \E j \in 1..Len(readers'[r]) : readers'[r][j][k] = List(l)'[i][k]
  <2>1. /\ \/ \E x \in 1..MaxWrites : x >= v /\ FirstLeft(r, k, x)
           \/ NoneLeft(r, k) /\ Ahead(k, n, v, l + 1)
        /\ \A i \in 1..Len(List(l)) :
             \/ Newer(v, List(l)[i][k])
             \/ \E j \in 1..Len(readers[r]) : readers[r][j][k] = List(l)[i][k]
    BY <1>4 DEF AtLevel
  <2>2. ASSUME NoneLeft(r, k), Ahead(k, n, v, l + 1)
        PROVE  Ahead(k, n, v, l + 1)'
    <3>1. \A i \in 1..Len(List(l)) : Newer(v, List(l)[i][k])
      BY <2>1, <2>2 DEF NoneLeft, Newer
    <3>2. \A m \in Levels : m + 1 = l + 1 => m = l
      BY <1>1
    <3>3. QED
      BY <1>1, <2>2, <3>1, <3>2, AheadStays
  <2>3. ASSUME NEW i \in 1..Len(List(l)')
        PROVE  \/ Newer(v, List(l)'[i][k])
               \/ \E j \in 1..Len(readers'[r]) : readers'[r][j][k] = List(l)'[i][k]
    <3>1. \/ Newer(v, List(l)'[i][k])
          \/ \E j \in 1..Len(List(l)) : List(l)'[i][k] = List(l)[j][k]
      BY <1>2, <1>4, ListStaysNewer
    <3>2. QED
      BY <2>1, <3>1
  <2>4. (NoneLeft(r, k)' <=> NoneLeft(r, k)) /\ \A x : FirstLeft(r, k, x)' <=> FirstLeft(r, k, x)
    BY SameReader
  <2>5. QED
    BY <2>1, <2>2, <2>3, <2>4
<1>5. QED
  BY <1>3, <1>4 DEF AtLevel, Newer

(* A step of a get leaves the store as it is.                              *)
LEMMA SameStore ==
  ASSUME NEW r \in Readers, Search(r) \/ \E k \in Keys : Call(r, k)
  PROVE  /\ UNCHANGED <<writes, completed, Active, Inactive>>
         /\ \A m : List(m)' = List(m)
         /\ \A k, n, v, p : Ahead(k, n, v, p)' <=> Ahead(k, n, v, p)
         /\ \A k, n : NewestOf(k, n)' = NewestOf(k, n)
<1>1. UNCHANGED <<writes, completed, active, memtable, readers_at_level>>
  BY GetFrame DEF writerVars, memVars, levelVars
<1>2. UNCHANGED <<Active, Inactive>> /\ \A m : List(m)' = List(m)
  BY <1>1 DEF Active, Inactive, List
<1>3. \A k, n : NewestOf(k, n)' = NewestOf(k, n)
  BY <1>1 DEF NewestOf
<1>4. \A k, n : MayMiss(k, n)' <=> MayMiss(k, n)
  BY <1>1 DEF MayMiss, NewestOf, Answer, IsTombstone
<1>5. \A k, l : FindsNone(k, l)' <=> FindsNone(k, l)
  BY <1>1 DEF FindsNone, NoneAt, List
<1>6. \A k, l, x : Finds(k, l, x)' <=> Finds(k, l, x)
  BY <1>1 DEF Finds, FirstAt, NoneAt, List
<1>7. \A k, n, v, p : Ahead(k, n, v, p)' <=> Ahead(k, n, v, p)
  BY <1>4, <1>5, <1>6 DEF Ahead
<1>8. QED
  BY <1>1, <1>2, <1>3, <1>7

(* What the active memtable does not have is newer elsewhere.              *)
LEMMA CoverAhead ==
  ASSUME TypeOK, EntryInv, CoverInv, NEW k \in Keys, NEW n \in 0..Len(writes),
         NEW v, v = NewestOf(k, n), n <= completed, Active[k] = 0
  PROVE  Newer(v, Inactive[k]) /\ (Inactive[k] = 0 => Ahead(k, n, v, 0))
<1>1. PICK w : w = NewestOf(k, completed)
  OBVIOUS
<1>2. completed \in 0..Len(writes)
  BY DEF TypeOK
<1>3. w \in 0..MaxWrites /\ w \in 0..Len(writes) /\ (w # 0 => writes[w].key = k)
  BY <1>1, <1>2, NewestFacts
<1>4. w >= v
  <2>1. v <= w
    BY <1>1, <1>2, NewestGrows
  <2>2. v \in 0..n /\ n \in Nat
    BY NewestFacts
  <2>3. QED
    BY <1>3, <2>1, <2>2
<1>5. /\ Inactive[k] # 0 => Inactive[k] = w
      /\ Inactive[k] = 0 => Serves(k, 0, w)
  BY <1>1, <1>3 DEF CoverInv
<1>6. ASSUME Serves(k, 0, w)
      PROVE  Ahead(k, n, v, 0)
  <2>1. CASE w = 0
    <3>1. completed \in n..Len(writes)
      BY <1>2
    <3>2. Answer(w) = 0
      BY <2>1 DEF Answer
    <3>3. MayMiss(k, n)
      BY <1>1, <3>1, <3>2 DEF MayMiss
    <3>4. FindsNone(k, 0)
      BY <1>6, <2>1 DEF Serves, Finds, FirstAt
    <3>5. QED
      BY <3>3, <3>4 DEF Ahead
  <2>2. CASE w # 0
    <3>1. w \in 1..Len(writes) /\ IsEntry(k, w)
      BY <1>3, <2>2 DEF IsEntry
    <3>2. QED
      BY <1>4, <1>6, <3>1, ServesAhead
  <2>3. QED
    BY <2>1, <2>2
<1>7. QED
  BY <1>4, <1>5, <1>6 DEF Newer

(* The list of a level has what the search from there on finds.            *)
LEMMA LoadedAhead ==
  ASSUME TypeOK, NEW k \in Keys, NEW n, NEW v, NEW l \in Levels, Ahead(k, n, v, l)
  PROVE  \/ \E x \in 1..MaxWrites : x >= v /\ FirstAt(l, k, x)
         \/ NoneAt(l, k) /\ Ahead(k, n, v, l + 1)
<1>1. l \in Nat /\ \A q \in Levels : q \in Nat
  BY ConstantsAssumption DEF Levels, ConstantsAssumption
<1>2. ASSUME NEW x \in 1..MaxWrites, x >= v, Finds(k, l, x)
      PROVE  FirstAt(l, k, x) \/ (NoneAt(l, k) /\ Finds(k, l + 1, x))
  <2>1. PICK m \in Levels : /\ m >= l /\ FirstAt(m, k, x)
                            /\ \A q \in Levels : l <= q /\ q < m => NoneAt(q, k)
    BY <1>2 DEF Finds
  <2>2. CASE m = l
    BY <2>1, <2>2
  <2>3. CASE m # l
    <3>1. m >= l + 1 /\ l <= l /\ l < m
      BY <1>1, <2>1, <2>3
    <3>2. \A q \in Levels : l + 1 <= q => l <= q
      BY <1>1
    <3>3. QED
      BY <2>1, <3>1, <3>2 DEF Finds
  <2>4. QED
    BY <2>2, <2>3
<1>3. ASSUME FindsNone(k, l)
      PROVE  NoneAt(l, k) /\ FindsNone(k, l + 1)
  <2>1. l >= l /\ \A q \in Levels : q >= l + 1 => q >= l
    BY <1>1
  <2>2. QED
    BY <1>3, <2>1 DEF FindsNone
<1>4. QED
  BY <1>2, <1>3 DEF Ahead

(* What ReaderInv says of get r with these values.                         *)
ReaderAt(r, k, n, v, l) == Behind(r, k, n, v, l) /\ InMemory(r, k, n, v) /\ AtLevel(r, k, n, v, l)

LEMMA NotLooking ==
  ASSUME NEW r \in Readers, NEW k, NEW n, NEW v, NEW l, reader'[r] \in {"idle", "active"}
  PROVE  ReaderAt(r, k, n, v, l)'
  BY DEF ReaderAt, Behind, InMemory, AtLevel, Looking

(* What a get does at one place after the other.                           *)
LEMMA ActiveLooked ==
  ASSUME TypeOK, EntryInv, CoverInv, NEW r \in Readers, LookInActive(r), NEW k \in Keys, k = key[r],
         NEW n \in 0..Len(writes), n = target[r], NEW v, v = NewestOf(k, n), NEW l \in Levels
  PROVE  ReaderAt(r, k, n, v, l)'
<1>1. /\ n <= completed /\ reader'[r] = IF Active[k] = 0 THEN "inactive" ELSE "idle"
      /\ result'[r] = Active[k]
  BY DEF LookInActive, Looked, Active, TypeOK
<1>2. CASE Active[k] # 0
  BY <1>1, <1>2, NotLooking
<1>3. CASE Active[k] = 0
  <2>1. Newer(v, Inactive[k]) /\ (Inactive[k] = 0 => Ahead(k, n, v, 0))
    BY <1>1, <1>3, CoverAhead
  <2>2. UNCHANGED <<completed, Active, Inactive>> /\ (Ahead(k, n, v, 0)' <=> Ahead(k, n, v, 0))
    BY SameStore DEF Search
  <2>3. Behind(r, k, n, v, l)'
    BY <1>1, <1>3, <2>2 DEF Behind, Newer
  <2>4. InMemory(r, k, n, v)'
    BY <2>1, <2>2 DEF InMemory, Newer
  <2>5. AtLevel(r, k, n, v, l)'
    BY <1>1, <1>3 DEF AtLevel
  <2>6. QED
    BY <2>3, <2>4, <2>5 DEF ReaderAt
<1>4. QED
  BY <1>2, <1>3

LEMMA InactiveLooked ==
  ASSUME TypeOK, NEW r \in Readers, LookInInactive(r), NEW k \in Keys, k = key[r],
         NEW n \in 0..Len(writes), NEW v, NEW p \in Levels, ReaderAt(r, k, n, v, p),
         NEW l \in Levels, l = level'[r]
  PROVE  ReaderAt(r, k, n, v, l)'
<1>1. /\ reader[r] = "inactive" /\ reader'[r] = IF Inactive[k] = 0 THEN "load" ELSE "idle"
      /\ result'[r] = Inactive[k] /\ l = 0
  BY DEF LookInInactive, InInactive, Looked, Inactive, TypeOK
<1>2. CASE Inactive[k] # 0
  BY <1>1, <1>2, NotLooking
<1>3. CASE Inactive[k] = 0
  <2>1. n <= completed /\ Newer(v, Active[k]) /\ Ahead(k, n, v, 0)
    BY <1>1, <1>3 DEF ReaderAt, Behind, InMemory, Looking
  <2>2. UNCHANGED <<completed, Active, Inactive>> /\ (Ahead(k, n, v, 0)' <=> Ahead(k, n, v, 0))
    BY SameStore DEF Search
  <2>3. \A m \in Levels : ~(m < l)
    BY <1>1, ConstantsAssumption DEF Levels, ConstantsAssumption
  <2>4. Behind(r, k, n, v, l)'
    BY <1>1, <1>3, <2>1, <2>2, <2>3 DEF Behind, Newer
  <2>5. InMemory(r, k, n, v)'
    BY <1>1, <1>3 DEF InMemory
  <2>6. Ahead(k, n, v, l)'
    BY <1>1, <2>1, <2>2
  <2>7. AtLevel(r, k, n, v, l)'
    BY <1>1, <1>3, <2>6 DEF AtLevel
  <2>8. QED
    BY <2>4, <2>5, <2>7 DEF ReaderAt
<1>4. QED
  BY <1>2, <1>3

LEMMA ReadersLoaded ==
  ASSUME TypeOK, NEW r \in Readers, LoadReaders(r), NEW k \in Keys,
         NEW n \in 0..Len(writes), NEW v, NEW l \in Levels, l = level[r], ReaderAt(r, k, n, v, l)
  PROVE  ReaderAt(r, k, n, v, l)'
<1>1. /\ reader[r] = "load" /\ reader'[r] = "tables" /\ readers'[r] = List(l)
      /\ UNCHANGED result
  BY DEF LoadReaders, List, TypeOK
<1>2. /\ UNCHANGED <<completed, Active, Inactive>> /\ \A m : List(m)' = List(m)
      /\ (Ahead(k, n, v, l + 1)' <=> Ahead(k, n, v, l + 1))
  BY SameStore DEF Search
<1>3. Behind(r, k, n, v, l)'
  <2>1. /\ n <= completed /\ result[r] = 0 /\ Newer(v, Active[k]) /\ Newer(v, Inactive[k])
        /\ \A m \in Levels : m < l => \A i \in 1..Len(List(m)) : Newer(v, List(m)[i][k])
    BY <1>1 DEF ReaderAt, Behind, Looking
  <2>2. QED
    BY <1>1, <1>2, <2>1 DEF Behind, Newer
<1>4. \/ \E x \in 1..MaxWrites : x >= v /\ FirstAt(l, k, x)
      \/ NoneAt(l, k) /\ Ahead(k, n, v, l + 1)
  BY <1>1, LoadedAhead DEF ReaderAt, AtLevel
<1>5. (NoneLeft(r, k)' <=> NoneAt(l, k)) /\ \A x : FirstLeft(r, k, x)' <=> FirstAt(l, k, x)
  BY <1>1 DEF NoneLeft, FirstLeft, NoneAt, FirstAt
<1>6. \A i \in 1..Len(List(l)') :
        \E j \in 1..Len(readers'[r]) : readers'[r][j][k] = List(l)'[i][k]
  BY <1>1, <1>2
<1>7. AtLevel(r, k, n, v, l)'
  BY <1>1, <1>2, <1>4, <1>5, <1>6 DEF AtLevel, Newer
<1>8. QED
  BY <1>1, <1>3, <1>7 DEF ReaderAt, InMemory

(* A table that has nothing leaves what the others have; one that has      *)
(* something has what comes first.                                         *)
LEMMA LastLeft ==
  ASSUME TypeOK, NEW r \in Readers, readers[r] # <<>>, NEW k \in Keys
  PROVE  /\ Len(readers[r]) \in Nat \ {0}
         /\ Last(readers[r]) = readers[r][Len(readers[r])]
         /\ Front(readers[r]) \in Seq(Table) /\ Len(Front(readers[r])) = Len(readers[r]) - 1
         /\ \A i \in 1..(Len(readers[r]) - 1) : Front(readers[r])[i] = readers[r][i]
<1>1. PICK s \in Seq(Table) : s = readers[r]
  BY DEF TypeOK
<1>2. Len(s) \in Nat \ {0} /\ Last(s) = s[Len(s)]
  BY <1>1 DEF Last
<1>3. /\ Front(s) \in Seq(Table) /\ Len(Front(s)) = Len(s) - 1
      /\ \A i \in 1..(Len(s) - 1) : Front(s)[i] = s[i]
  BY <1>1, <1>2 DEF Front
<1>4. QED
  BY <1>1, <1>2, <1>3

LEMMA TableLooked ==
  ASSUME TypeOK, NEW r \in Readers, FindKey(r), NEW k \in Keys, k = key[r],
         NEW n \in 0..Len(writes), NEW v, NEW l \in Levels, ReaderAt(r, k, n, v, l)
  PROVE  ReaderAt(r, k, n, v, l)'
<1>1. PICK N \in Nat \ {0} : N = Len(readers[r])
  BY LastLeft DEF FindKey
<1>2. PICK s : s = readers[r]
  OBVIOUS
<1>3. /\ Last(s) = s[N] /\ Len(Front(s)) = N - 1 /\ \A i \in 1..(N - 1) : Front(s)[i] = s[i]
  BY <1>1, <1>2, LastLeft DEF FindKey
<1>4. /\ reader[r] = "tables" /\ reader'[r] = IF s[N][k] = 0 THEN "tables" ELSE "idle"
      /\ result'[r] = s[N][k] /\ (s[N][k] = 0 => readers'[r] = Front(s))
  BY <1>2, <1>3 DEF FindKey, Looked, TypeOK
<1>5. CASE s[N][k] # 0
  BY <1>4, <1>5, NotLooking
<1>6. CASE s[N][k] = 0
  <2>1. /\ UNCHANGED <<completed, Active, Inactive>> /\ \A m : List(m)' = List(m)
        /\ (Ahead(k, n, v, l + 1)' <=> Ahead(k, n, v, l + 1))
    BY SameStore DEF Search
  <2>2. Behind(r, k, n, v, l)'
    BY <1>4, <1>6, <2>1 DEF ReaderAt, Behind, Looking, Newer
  <2>3. readers'[r] = Front(s) /\ \A i \in 1..N : i \in 1..(N - 1) \/ i = N
    BY <1>4, <1>6
  <2>4. \A i \in 1..(N - 1) : i \in 1..N /\ readers'[r][i] = s[i]
    BY <1>3, <2>3
  <2>5. NoneLeft(r, k) => NoneLeft(r, k)'
    <3>1. NoneLeft(r, k) => \A i \in 1..(N - 1) : readers'[r][i][k] = 0
      BY <1>1, <1>2, <2>4 DEF NoneLeft
    <3>2. Len(readers'[r]) = N - 1
      BY <1>3, <2>3
    <3>3. QED
      BY <3>1, <3>2 DEF NoneLeft
  <2>6. ASSUME NEW x, FirstLeft(r, k, x)
        PROVE  FirstLeft(r, k, x)'
    <3>1. PICK i \in 1..N : s[i][k] = x /\ \A j \in 1..N : i < j => s[j][k] = 0
      BY <1>1, <1>2, <2>6 DEF FirstLeft
    <3>2. x # 0
      BY <2>6 DEF FirstLeft
    <3>3. i \in 1..(N - 1)
      BY <1>6, <2>3, <3>1, <3>2
    <3>4. readers'[r][i][k] = x /\ \A j \in 1..(N - 1) : i < j => readers'[r][j][k] = 0
      BY <2>4, <3>1, <3>3
    <3>5. Len(readers'[r]) = N - 1
      BY <1>3, <2>3
    <3>6. QED
      BY <3>2, <3>3, <3>4, <3>5 DEF FirstLeft
  <2>7. ASSUME NEW i \in 1..Len(List(l)')
        PROVE  \/ Newer(v, List(l)'[i][k])
               \/ \E j \in 1..Len(readers'[r]) : readers'[r][j][k] = List(l)'[i][k]
    <3>1. \/ Newer(v, List(l)[i][k])
          \/ \E j \in 1..N : s[j][k] = List(l)[i][k]
      BY <1>1, <1>2, <1>4, <2>1, <2>7 DEF ReaderAt, AtLevel
    <3>2. ASSUME NEW j \in 1..N, s[j][k] = List(l)[i][k]
          PROVE  \/ Newer(v, List(l)[i][k])
                 \/ \E j1 \in 1..(N - 1) : readers'[r][j1][k] = List(l)[i][k]
      BY <1>6, <2>3, <2>4, <3>2 DEF Newer
    <3>3. QED
      BY <1>3, <2>1, <2>3, <3>1, <3>2
  <2>8. AtLevel(r, k, n, v, l)'
    BY <1>4, <1>6, <2>1, <2>5, <2>6, <2>7 DEF ReaderAt, AtLevel, Newer
  <2>9. QED
    BY <1>4, <1>6, <2>2, <2>8 DEF ReaderAt, InMemory
<1>7. QED
  BY <1>5, <1>6

LEMMA LevelLeft ==
  ASSUME TypeOK, NEW r \in Readers, LeaveLevel(r), NEW k \in Keys,
         NEW n \in 0..Len(writes), NEW v, NEW p \in Levels, p = level[r], ReaderAt(r, k, n, v, p),
         NEW l \in Levels, l = level'[r]
  PROVE  ReaderAt(r, k, n, v, l)'
<1>1. /\ reader[r] = "tables" /\ readers[r] = <<>> /\ UNCHANGED <<readers, result>>
      /\ reader'[r] = IF p = MAX_LEVEL THEN "idle" ELSE "load"
      /\ p # MAX_LEVEL => l = p + 1
  BY DEF LeaveLevel, AtLastLevel, TypeOK
<1>2. CASE p = MAX_LEVEL
  BY <1>1, <1>2, NotLooking
<1>3. CASE p # MAX_LEVEL
  <2>1. /\ UNCHANGED <<completed, Active, Inactive>> /\ \A m : List(m)' = List(m)
        /\ (Ahead(k, n, v, l)' <=> Ahead(k, n, v, l))
    BY SameStore DEF Search
  <2>2. /\ n <= completed /\ result[r] = 0 /\ Newer(v, Active[k]) /\ Newer(v, Inactive[k])
        /\ \A m \in Levels : m < p => \A i \in 1..Len(List(m)) : Newer(v, List(m)[i][k])
    BY <1>1 DEF ReaderAt, Behind, Looking
  <2>3. Len(readers[r]) = 0
    BY <1>1
  <2>4. Ahead(k, n, v, p + 1) /\ \A i \in 1..Len(List(p)) : Newer(v, List(p)[i][k])
    BY <1>1, <2>3 DEF ReaderAt, AtLevel, FirstLeft
  <2>5. \A m \in Levels : m < l => m < p \/ m = p
    BY <1>1, <1>3, ConstantsAssumption DEF Levels, ConstantsAssumption
  <2>6. \A m \in Levels : m < l => \A i \in 1..Len(List(m)) : Newer(v, List(m)[i][k])
    BY <2>2, <2>4, <2>5
  <2>7. Behind(r, k, n, v, l)'
    BY <1>1, <1>3, <2>1, <2>2, <2>6 DEF Behind, Newer
  <2>8. AtLevel(r, k, n, v, l)'
    BY <1>1, <1>3, <2>1, <2>4 DEF AtLevel
  <2>9. QED
    BY <1>1, <1>3, <2>7, <2>8 DEF ReaderAt, InMemory
<1>4. QED
  BY <1>2, <1>3

LEMMA ReaderSteps ==
  ASSUME TypeOK, Next, NEW r \in Readers
  PROVE  \/ Search(r) \/ \E k \in Keys : Call(r, k)
         \/ /\ reader'[r] = reader[r] /\ key'[r] = key[r] /\ target'[r] = target[r]
            /\ level'[r] = level[r] /\ readers'[r] = readers[r] /\ result'[r] = result[r]
<1>1. ASSUME NEW q \in Readers, Search(q) \/ \E k \in Keys : Call(q, k), q # r
      PROVE  /\ reader'[r] = reader[r] /\ key'[r] = key[r] /\ target'[r] = target[r]
             /\ level'[r] = level[r] /\ readers'[r] = readers[r] /\ result'[r] = result[r]
  BY <1>1 DEF Search, LookInActive, LookInInactive, Looked, LoadReaders, FindKey, LeaveLevel,
              Call, TypeOK
<1>2. \/ UNCHANGED getVars
      \/ \E q \in Readers : Search(q) \/ \E k \in Keys : Call(q, k)
  BY CompactorFrame DEF Next, Put, Insert, SwapActive, AddTable, ClearMemtable
<1>3. QED
  BY <1>1, <1>2 DEF getVars

LEMMA ReaderStep ==
  ASSUME Inv, TypeOK', Next
  PROVE  ReaderInv'
<1> SUFFICES ASSUME NEW r \in Readers, NEW k \in Keys, NEW n \in 0..MaxWrites,
                    NEW v \in 0..MaxWrites, NEW l \in Levels,
                    key'[r] = k, target'[r] = n, level'[r] = l
             PROVE  n <= Len(writes') /\ (v = NewestOf(k, n)' => ReaderAt(r, k, n, v, l)')
  BY DEF ReaderInv, ReaderAt
<1>1. Len(writes) \in Nat /\ Len(writes') \in Nat /\ Len(writes') >= Len(writes)
  BY WritesGrow DEF Inv
<1>2. PICK p \in Levels : p = level[r]
  BY DEF Inv, TypeOK
<1>3. ASSUME key[r] = k, target[r] = n
      PROVE  /\ n \in 0..Len(writes) /\ n <= Len(writes')
             /\ v = NewestOf(k, n)' => v = NewestOf(k, n) /\ ReaderAt(r, k, n, v, p)
  <2>1. n <= Len(writes) /\ (v = NewestOf(k, n) => ReaderAt(r, k, n, v, p))
    BY <1>2, <1>3 DEF Inv, ReaderInv, ReaderAt
  <2>2. n \in 0..Len(writes) /\ n <= Len(writes')
    BY <1>1, <2>1
  <2>3. QED
    BY <2>1, <2>2, NewestStays DEF Inv
<1>4. CASE \E c \in Keys : Call(r, c)
  <2>1. target'[r] = Len(writes) /\ reader'[r] = "active"
    BY <1>4 DEF Call, Inv, TypeOK
  <2>2. QED
    BY <1>1, <2>1, NotLooking
<1>5. CASE Search(r)
  <2>1. key[r] = k /\ target[r] = n
    BY <1>5 DEF Search, LookInActive, LookInInactive, LoadReaders, FindKey, LeaveLevel
  <2>2. n \in 0..Len(writes) /\ n <= Len(writes')
    BY <1>3, <2>1
  <2>3. ASSUME v = NewestOf(k, n)'
        PROVE  ReaderAt(r, k, n, v, l)'
    <3>1. v = NewestOf(k, n) /\ ReaderAt(r, k, n, v, p)
      BY <1>3, <2>1, <2>3
    <3>2. CASE LookInActive(r)
      BY <2>1, <2>2, <3>1, <3>2, ActiveLooked DEF Inv
    <3>3. CASE LookInInactive(r)
      BY <2>1, <2>2, <3>1, <3>3, InactiveLooked DEF Inv
    <3>4. CASE LoadReaders(r)
      <4>1. l = level[r]
        BY <3>4 DEF LoadReaders
      <4>2. QED
        BY <1>2, <2>2, <3>1, <3>4, <4>1, ReadersLoaded DEF Inv
    <3>5. CASE FindKey(r)
      <4>1. l = p
        BY <1>2, <3>5 DEF FindKey
      <4>2. QED
        BY <2>1, <2>2, <3>1, <3>5, <4>1, TableLooked DEF Inv
    <3>6. CASE LeaveLevel(r)
      BY <1>2, <2>2, <3>1, <3>6, LevelLeft DEF Inv
    <3>7. QED
      BY <1>5, <3>2, <3>3, <3>4, <3>5, <3>6 DEF Search
  <2>4. QED
    BY <2>2, <2>3
<1>6. ASSUME reader'[r] = reader[r], key'[r] = key[r], target'[r] = target[r],
             level'[r] = level[r], readers'[r] = readers[r], result'[r] = result[r]
      PROVE  n <= Len(writes') /\ (v = NewestOf(k, n)' => ReaderAt(r, k, n, v, l)')
  <2>1. key[r] = k /\ target[r] = n /\ l = p
    BY <1>2, <1>6
  <2>2. n \in 0..Len(writes) /\ n <= Len(writes')
    BY <1>3, <2>1
  <2>3. ASSUME v = NewestOf(k, n)'
        PROVE  ReaderAt(r, k, n, v, l)'
    <3>1. /\ v = NewestOf(k, n)
          /\ Behind(r, k, n, v, l) /\ InMemory(r, k, n, v) /\ AtLevel(r, k, n, v, l)
      BY <1>3, <2>1, <2>3 DEF ReaderAt
    <3>2. Behind(r, k, n, v, l)'
      BY <1>6, <2>2, <3>1, BehindStays DEF Inv
    <3>3. InMemory(r, k, n, v)'
      BY <1>6, <2>2, <3>1, InMemoryStays DEF Inv
    <3>4. AtLevel(r, k, n, v, l)'
      BY <1>6, <2>2, <3>1, AtLevelStays DEF Inv
    <3>5. QED
      BY <3>2, <3>3, <3>4 DEF ReaderAt
  <2>4. QED
    BY <2>2, <2>3
<1>7. QED
  BY <1>4, <1>5, <1>6, ReaderSteps DEF Inv

-----------------------------------------------------------------------------
(* The invariant.                                                          *)

LEMMA InitTypes ==
  ASSUME Init
  PROVE  TypeOK
<1>1. /\ MAX_LEVEL \in Nat /\ COMPACTION_TRIGGER \in Nat /\ MaxWrites \in Nat
      /\ 0 \in 0..MaxWrites /\ 0 \in Levels
  BY ConstantsAssumption DEF Levels, ConstantsAssumption
<1>2. Empty \in Table
  BY <1>1 DEF Empty, Table
<1>3. Idle \in [at : {"idle", "add", "remove"}, table : Table] /\ Idle.at = "idle"
  BY <1>2 DEF Idle
<1>4. <<>> \in Seq(Table) /\ <<>> \in Seq([key : Keys, tombstone : BOOLEAN]) /\ Len(<<>>) = 0
  OBVIOUS
<1>5. writes \in Seq([key : Keys, tombstone : BOOLEAN]) /\ Len(writes) <= MaxWrites
  BY <1>1, <1>4 DEF Init
<1>6. completed \in 0..Len(writes) /\ full \in BOOLEAN /\ active \in {0, 1}
  <2>1. Len(writes) = 0 /\ completed = 0
    BY <1>4 DEF Init
  <2>2. completed \in 0..Len(writes)
    BY <2>1
  <2>3. full = FALSE /\ active = 0
    BY DEF Init
  <2>4. QED
    BY <2>2, <2>3
<1>7. /\ memtable \in [{0, 1} -> Table] /\ readers_at_level \in [Levels -> Seq(Table)]
      /\ curr_max_level \in Levels /\ flusher \in {"idle", "flush", "clear"}
  BY <1>1, <1>2, <1>4 DEF Init
<1>8. /\ merge \in [0..(MAX_LEVEL - 1) -> [at : {"idle", "add", "remove"}, table : Table]]
      /\ \A l \in DOMAIN merge : merge[l].at = "idle"
  BY <1>3 DEF Init
<1>9. /\ reader \in [Readers -> {"idle", "active", "inactive", "load", "tables"}]
      /\ key \in [Readers -> Keys] /\ target \in [Readers -> 0..MaxWrites]
      /\ level \in [Readers -> Levels] /\ readers \in [Readers -> Seq(Table)]
      /\ result \in [Readers -> 0..MaxWrites]
  BY <1>1, <1>4 DEF Init
<1>10. QED
  BY <1>5, <1>6, <1>7, <1>8, <1>9 DEF TypeOK

LEMMA InitInv ==
  ASSUME Init
  PROVE  Inv
<1>1. TypeOK
  BY InitTypes
<1>2. /\ \A l \in Levels : List(l) = <<>> /\ Len(List(l)) = 0
      /\ \A l \in Merging : merge[l] = Idle
      /\ \A k \in Keys : Active[k] = 0 /\ Inactive[k] = 0
      /\ Inactive = Empty
  BY <1>1, InactiveType DEF Init, List, Merging, Active, Inactive, Empty
<1>3. EntryInv
  <2>1. \A i \in {0, 1} : \A k \in Keys : memtable[i][k] = 0
    BY DEF Init, Empty
  <2>2. \A l \in Merging : \A k \in Keys : merge[l].table[k] = 0
    BY <1>2 DEF Idle, Empty
  <2>3. \A r \in Readers : Len(readers[r]) = 0
    BY DEF Init
  <2>4. QED
    BY <1>2, <2>1, <2>2, <2>3 DEF EntryInv, IsEntry, Merging
<1>4. FindInv
  BY <1>2 DEF FindInv, DepthInv, MergeInv, FlightInv, Merging, Idle
<1>5. CoverInv
  <2>1. ASSUME NEW k \in Keys, NEW w, w = NewestOf(k, completed)
        PROVE  Serves(k, 0, w)
    <3>1. completed \in 0..Len(writes) /\ completed = 0
      BY <1>1 DEF TypeOK, Init
    <3>2. w \in 0..completed
      BY <1>1, <2>1, <3>1, NewestFacts
    <3>3. w = 0
      BY <3>1, <3>2
    <3>4. FindsNone(k, 0) /\ Answer(w) = 0
      BY <1>2, <3>3 DEF FindsNone, NoneAt, Answer
    <3>5. QED
      BY <3>4 DEF Serves
  <2>2. QED
    BY <1>2, <2>1 DEF CoverInv
<1>6. FlushInv
  BY <1>2 DEF FlushInv, Init
<1>7. ReaderInv
  <2>1. \A r \in Readers : reader[r] = "idle" /\ target[r] = 0
    BY DEF Init
  <2>2. 0 <= Len(writes)
    BY DEF Init
  <2>3. QED
    BY <2>1, <2>2 DEF ReaderInv, Behind, InMemory, AtLevel, Looking
<1>8. QED
  BY <1>1, <1>3, <1>4, <1>5, <1>6, <1>7 DEF Inv

LEMMA Stutter ==
  ASSUME Inv, UNCHANGED vars
  PROVE  Inv'
<1>1. UNCHANGED <<writes, completed, full, active, memtable, flusher, readers_at_level,
                  curr_max_level, merge, reader, key, target, level, readers, result>>
  BY DEF vars, writerVars, memVars, levelVars, getVars
<1>2. TypeOK'
  BY <1>1 DEF Inv, TypeOK
<1>3. EntryInv'
  BY <1>1 DEF Inv, EntryInv, IsEntry, List
<1>4. /\ \A l : List(l)' = List(l)
      /\ \A x : Answer(x)' = Answer(x)
      /\ \A k, n : NewestOf(k, n)' = NewestOf(k, n)
      /\ Active' = Active /\ Inactive' = Inactive
  BY <1>1 DEF List, Answer, IsTombstone, NewestOf, Active, Inactive
<1>5. /\ \A l, k : NoInput(l, k)' <=> NoInput(l, k)
      /\ \A l, k, x : FirstInput(l, k, x)' <=> FirstInput(l, k, x)
      /\ \A k, l : FindsNone(k, l)' <=> FindsNone(k, l)
      /\ \A k, l, x : Finds(k, l, x)' <=> Finds(k, l, x)
  BY <1>4 DEF NoInput, FirstInput, FindsNone, Finds, NoneAt, FirstAt
<1>6. \A k, l, x : Serves(k, l, x)' <=> Serves(k, l, x)
  BY <1>4, <1>5 DEF Serves
<1>7. FindInv'
  <2>1. DepthInv'
    BY <1>1, <1>4 DEF Inv, FindInv, DepthInv
  <2>2. MergeInv'
    BY <1>1, <1>4, <1>5 DEF Inv, FindInv, MergeInv
  <2>3. FlightInv'
    BY <1>1, <1>5, <1>6 DEF Inv, FindInv, FlightInv
  <2>4. QED
    BY <2>1, <2>2, <2>3 DEF FindInv
<1>8. CoverInv'
  <2>1. \A k : NewestOf(k, completed)' = NewestOf(k, completed)
    BY <1>1 DEF NewestOf
  <2>2. QED
    BY <1>4, <1>6, <2>1 DEF Inv, CoverInv
<1>9. FlushInv'
  BY <1>1, <1>4, <1>6 DEF Inv, FlushInv
<1>10. ReaderInv'
  <2>1. \A k, n : MayMiss(k, n)' <=> MayMiss(k, n)
    BY <1>1 DEF MayMiss, NewestOf, Answer, IsTombstone
  <2>2. \A k, n, v, l : Ahead(k, n, v, l)' <=> Ahead(k, n, v, l)
    BY <1>5, <2>1 DEF Ahead
  <2>3. \A r, k, n, v, l : Behind(r, k, n, v, l)' <=> Behind(r, k, n, v, l)
    BY <1>1, <1>4 DEF Behind, Looking, Newer
  <2>4. \A r, k, n, v : InMemory(r, k, n, v)' <=> InMemory(r, k, n, v)
    BY <1>1, <1>4, <2>2 DEF InMemory, Newer
  <2>5. /\ \A r, k : NoneLeft(r, k)' <=> NoneLeft(r, k)
        /\ \A r, k, x : FirstLeft(r, k, x)' <=> FirstLeft(r, k, x)
    BY <1>1 DEF NoneLeft, FirstLeft
  <2>6. \A r, k, n, v, l : AtLevel(r, k, n, v, l)' <=> AtLevel(r, k, n, v, l)
    BY <1>1, <1>4, <2>2, <2>5 DEF AtLevel, Newer
  <2>7. QED
    BY <1>1, <1>4, <2>3, <2>4, <2>6 DEF Inv, ReaderInv
<1>11. QED
  BY <1>2, <1>3, <1>7, <1>8, <1>9, <1>10 DEF Inv

(* Inv holds in every state: the argument of the comment at the top.       *)
THEOREM Invariance == Spec => []Inv
<1>1. Init => Inv
  BY InitInv
<1>2. Inv /\ [Next]_vars => Inv'
  <2>1. ASSUME Inv, Next
        PROVE  Inv'
    <3>1. TypeOK /\ EntryInv /\ FindInv /\ DepthInv /\ CoverInv /\ FlushInv
      BY <2>1 DEF Inv, FindInv
    <3>2. TypeOK'
      BY <2>1, <3>1, TypeStep
    <3>3. EntryInv'
      BY <2>1, <3>1, EntryStep
    <3>4. FindInv'
      BY <2>1, <3>1, DepthStep, MergeStep, FlightStep DEF FindInv
    <3>5. CoverInv'
      BY <2>1, <3>1, <3>2, CoverStep
    <3>6. FlushInv'
      BY <2>1, <3>1, FlushStep
    <3>7. ReaderInv'
      BY <2>1, <3>2, ReaderStep
    <3>8. QED
      BY <3>2, <3>3, <3>4, <3>5, <3>6, <3>7 DEF Inv
  <2>2. QED
    BY <2>1, Stutter
<1>3. QED
  BY <1>1, <1>2, PTL DEF Spec

(* Type correctness: places hold writes that were applied, under their     *)
(* key, and a list is as long as the merge under way has tables.           *)
THEOREM TypeCorrect == Spec => []TypeOK
<1>1. Inv => TypeOK
  BY DEF Inv
<1>2. QED
  BY <1>1, Invariance, PTL

(* A get that returns what it has found, or nothing at the end, answers    *)
(* with a write that was the newest of its key at a moment of the call.    *)
LEMMA ReturnIsFresh ==
  ASSUME Inv, Next, NEW r \in Readers, reader[r] # "idle", reader'[r] = "idle"
  PROVE  \E n \in target[r]..Len(writes) : Answer(result'[r]) = Answer(NewestOf(key[r], n))
<1>1. TypeOK
  BY DEF Inv
<1>2. PICK k \in Keys : k = key[r]
  BY <1>1 DEF TypeOK
<1>3. PICK n \in 0..MaxWrites : n = target[r]
  BY <1>1 DEF TypeOK
<1>4. PICK p \in Levels : p = level[r]
  BY <1>1 DEF TypeOK
<1>5. n \in 0..Len(writes)
  <2>1. 0 \in 0..MaxWrites
    BY ConstantsAssumption DEF ConstantsAssumption
  <2>2. n <= Len(writes)
    BY <1>2, <1>3, <1>4, <2>1 DEF Inv, ReaderInv
  <2>3. Len(writes) \in Nat
    BY <1>1 DEF TypeOK
  <2>4. QED
    BY <2>2, <2>3
<1>6. PICK v : v = NewestOf(k, n)
  OBVIOUS
<1>7. v \in 0..MaxWrites
  BY <1>1, <1>5, <1>6, NewestFacts
<1>8. ReaderAt(r, k, n, v, p)
  BY <1>2, <1>3, <1>4, <1>6, <1>7 DEF Inv, ReaderInv, ReaderAt
<1>9. SUFFICES \E m \in n..Len(writes) : Answer(result'[r]) = Answer(NewestOf(k, m))
  BY <1>2, <1>3
<1>10. Search(r)
  BY <1>1, ReaderSteps DEF Call, TypeOK
<1>11. ASSUME IsEntry(k, result'[r]), result'[r] # 0, Newer(v, result'[r])
       PROVE  \E m \in n..Len(writes) : Answer(result'[r]) = Answer(NewestOf(k, m))
  <2>1. result'[r] >= v
    BY <1>11 DEF Newer
  <2>2. PICK m \in n..Len(writes) : NewestOf(k, m) = result'[r]
    BY <1>1, <1>5, <1>6, <1>11, <2>1, EntryWasNewest
  <2>3. QED
    BY <2>2
<1>12. CASE LookInActive(r)
  <2>1. n <= completed /\ result'[r] = Active[k] /\ Active[k] # 0
    BY <1>1, <1>2, <1>3, <1>12 DEF LookInActive, Looked, Active, TypeOK
  <2>2. PICK w : w = NewestOf(k, completed)
    OBVIOUS
  <2>3. completed \in 0..Len(writes) /\ completed \in n..Len(writes)
    BY <1>1, <1>5, <2>1 DEF TypeOK
  <2>4. w \in 0..MaxWrites
    BY <1>1, <2>2, <2>3, NewestFacts
  <2>5. result'[r] = w
    BY <2>1, <2>2, <2>4 DEF Inv, CoverInv
  <2>6. QED
    BY <2>2, <2>3, <2>5
<1>13. CASE LookInInactive(r)
  <2>1. /\ reader[r] = "inactive" /\ result'[r] = Inactive[k] /\ Inactive[k] # 0
    BY <1>1, <1>2, <1>13 DEF LookInInactive, InInactive, Looked, Inactive, TypeOK
  <2>2. Newer(v, Inactive[k])
    BY <1>8, <2>1 DEF ReaderAt, InMemory
  <2>3. IsEntry(k, Inactive[k])
    BY <1>1, InactiveType DEF Inv, EntryInv, Inactive
  <2>4. QED
    BY <1>11, <2>1, <2>2, <2>3
<1>14. CASE LoadReaders(r)
  BY <1>1, <1>14 DEF LoadReaders, TypeOK
<1>15. CASE FindKey(r)
  <2>1. PICK N \in Nat \ {0} : N = Len(readers[r])
    BY <1>1, <1>15, LastLeft DEF FindKey
  <2>2. PICK s : s = readers[r]
    OBVIOUS
  <2>3. Last(s) = s[N]
    BY <1>1, <1>15, <2>1, <2>2, LastLeft DEF FindKey
  <2>4. reader[r] = "tables" /\ result'[r] = s[N][k] /\ s[N][k] # 0
    BY <1>1, <1>2, <1>15, <2>2, <2>3 DEF FindKey, Looked, TypeOK
  <2>5. N \in 1..N /\ \A i \in 1..N : i # N => i < N
    BY <2>1
  <2>6. ~NoneLeft(r, k)
    BY <2>1, <2>2, <2>4, <2>5 DEF NoneLeft
  <2>7. PICK x \in 1..MaxWrites : x >= v /\ FirstLeft(r, k, x)
    BY <1>8, <2>4, <2>6 DEF ReaderAt, AtLevel
  <2>8. PICK i \in 1..N : s[i][k] = x /\ \A j \in 1..N : i < j => s[j][k] = 0
    BY <2>1, <2>2, <2>7 DEF FirstLeft
  <2>9. i = N
    BY <2>4, <2>5, <2>8
  <2>10. IsEntry(k, s[N][k])
    BY <2>1, <2>2, <2>5 DEF Inv, EntryInv
  <2>11. QED
    BY <1>11, <2>4, <2>7, <2>8, <2>9, <2>10 DEF Newer
<1>16. CASE LeaveLevel(r)
  <2>1. /\ reader[r] = "tables" /\ readers[r] = <<>> /\ p = MAX_LEVEL
        /\ result'[r] = result[r]
    BY <1>1, <1>4, <1>16 DEF LeaveLevel, AtLastLevel, TypeOK
  <2>2. result'[r] = 0 /\ Answer(0) = 0
    BY <1>8, <2>1 DEF ReaderAt, Behind, Looking, Answer
  <2>3. Len(readers[r]) = 0
    BY <2>1
  <2>4. Ahead(k, n, v, MAX_LEVEL + 1)
    BY <1>8, <2>1, <2>3 DEF ReaderAt, AtLevel, FirstLeft
  <2>5. \A m \in Levels : ~(m >= MAX_LEVEL + 1)
    BY ConstantsAssumption DEF Levels, ConstantsAssumption
  <2>6. MayMiss(k, n)
    BY <2>4, <2>5 DEF Ahead, Finds
  <2>7. QED
    BY <2>2, <2>6 DEF MayMiss
<1>17. QED
  BY <1>10, <1>12, <1>13, <1>14, <1>15, <1>16 DEF Search

(* A get answers as the store stood at one moment between its call and its *)
(* return, whatever memtable or level its key is passing (DB::get).        *)
THEOREM GetsAreFresh == Spec => FreshGets
<1>1. ASSUME Inv, [Next]_vars
      PROVE  [\A r \in Readers : reader[r] # "idle" /\ reader'[r] = "idle" =>
               \E n \in target[r]..Len(writes) :
                 Answer(result'[r]) = Answer(NewestOf(key[r], n))]_vars
  BY <1>1, ReturnIsFresh
<1>2. QED
  BY <1>1, Invariance, PTL DEF Spec, FreshGets
================================================================================
