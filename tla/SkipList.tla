------------------------------- MODULE SkipList -------------------------------
(***************************************************************************)
(* lsm::SkipList, the memtable: nodes with towers of next pointers in an   *)
(* arena, the values beside them, and the byte counter that decides when   *)
(* the memtable is flushed.  Its callers hold a lock (MemtableFlush), so   *)
(* that an insertion is one step.                                          *)
(*                                                                         *)
(* A key is its rank in the lexicographic order, the empty key being 0; a  *)
(* value is its length.  Node 1 is the head: it has the empty key, and as  *)
(* a next pointer it stands for the end of the list, as offset 0 does in   *)
(* the arena.                                                              *)
(***************************************************************************)
EXTENDS Integers, Sequences

CONSTANTS Keys,      (* the keys, 0 for the empty one                      *)
          Values,    (* the values                                         *)
          MAX_LVL,   (* the highest level                                  *)
          WordBits   (* the width of byte_counter                          *)

ASSUME ConstantsAssumption ==
  /\ Keys \subseteq Nat /\ Values \subseteq Nat /\ 0 \in Values /\ MAX_LVL \in Nat
  /\ WordBits \in Nat /\ 2^WordBits \in Nat \ {0}

VARIABLES
  arena, val_data, byte_counter,
  entries,       (* history: what was inserted under each key since clear  *)
  miscounted     (* history: the bytes subtracted a second time, less      *)
                 (* those added for a value that a tombstone came with     *)

history == <<entries, miscounted>>
vars == <<arena, val_data, byte_counter, history>>

head == 1
EmptyKey == 0
INVALID_INDEX == 0
Levels == 0..MAX_LVL

KeySize(k) == IF k = EmptyKey THEN 0 ELSE 1

(* Mutant: a counter that does not wrap around.                            *)
Unwrapped(n) == n

Word(n) == n % 2^WordBits

HeadNode ==
  [levels |-> MAX_LVL, next |-> [i \in Levels |-> head], tombstone |-> TRUE,
   key |-> EmptyKey, val_index |-> INVALID_INDEX]

NotFound == [found |-> FALSE]
Entry(tombstone, val) == [found |-> TRUE, tombstone |-> tombstone, val |-> val]

Init ==
  /\ arena = <<HeadNode>> /\ val_data = <<>> /\ byte_counter = 0
  /\ entries = [k \in Keys |-> NotFound] /\ miscounted = 0

-----------------------------------------------------------------------------
(* Mutant: the walk goes on over a node of the same key.                   *)
PrecedesOrIs(n, k) == n # head /\ arena[n].key <= k

Precedes(n, k) == n # head /\ arena[n].key < k

(* The nodes whose tower reaches level i.                                  *)
Tower(i) == {n \in DOMAIN arena : arena[n].levels >= i}

(* On level i, from each node: the node where the walk to key k goes down. *)
Walk(k, i) ==
  LET walk[n \in Tower(i)] ==
        IF Precedes(arena[n].next[i], k) THEN walk[arena[n].next[i]] ELSE n
  IN  walk

(* On each level the last node before key k, found from the top down.      *)
Predecessors(k) ==
  LET pred[i \in Levels] == Walk(k, i)[IF i = MAX_LVL THEN head ELSE pred[i + 1]]
  IN  pred

AtOrAfter(k) == arena[Predecessors(k)[0]].next[0]

(* SkipList::search and getData: what a reader of the memtable gets.       *)
Data(n) ==
  LET node == arena[n] IN
  Entry(node.tombstone, IF node.tombstone THEN 0 ELSE val_data[node.val_index])
Search(k) ==
  LET n == AtOrAfter(k) IN
  IF n # head /\ arena[n].key = k THEN Data(n) ELSE NotFound

-----------------------------------------------------------------------------
(* Mutant: the old value is not subtracted.                                *)
OldSizeIgnored(n) == 0

OldSize(n) == IF arena[n].val_index = INVALID_INDEX THEN 0 ELSE val_data[arena[n].val_index]

(* SkipList::updateVal.  A tombstone leaves the value where it is.         *)
UpdateVal(n, tombstone, val) ==
  IF tombstone
  THEN /\ arena' = [arena EXCEPT ![n].tombstone = TRUE]
       /\ byte_counter' = Word(byte_counter - OldSize(n))
       /\ UNCHANGED val_data
  ELSE /\ byte_counter' = Word(byte_counter - OldSize(n) + val)
       /\ IF arena[n].val_index = INVALID_INDEX
          THEN /\ arena' = [arena EXCEPT ![n].tombstone = FALSE,
                                         ![n].val_index = Len(val_data) + 1]
               /\ val_data' = Append(val_data, val)
          ELSE /\ arena' = [arena EXCEPT ![n].tombstone = FALSE]
               /\ val_data' = [val_data EXCEPT ![arena[n].val_index] = val]

(* Mutant: a node is not linked on its top level.                          *)
LinkedBelow(i, max_level) == i < max_level

Linked(i, max_level) == i <= max_level

(* SkipList::constructNode and the links of insert.                        *)
AddNode(tombstone, key, val, max_level) ==
  LET pred == Predecessors(key)
      new  == Len(arena) + 1
      node == [levels |-> max_level,
               next |-> [i \in 0..max_level |-> arena[pred[i]].next[i]],
               tombstone |-> tombstone, key |-> key,
               val_index |-> IF tombstone THEN INVALID_INDEX ELSE Len(val_data) + 1]
      relinked(n) ==
        [arena[n] EXCEPT !.next =
           [i \in DOMAIN @ |-> IF Linked(i, max_level) /\ pred[i] = n THEN new ELSE @[i]]]
  IN  /\ arena' = Append([n \in DOMAIN arena |-> relinked(n)], node)
      /\ val_data' = IF tombstone THEN val_data ELSE Append(val_data, val)
      /\ byte_counter' = Word(byte_counter + KeySize(key) + val)

(* The key was put and then removed: its old value is still in val_data.   *)
HidesValue(n) == arena[n].tombstone /\ arena[n].val_index # INVALID_INDEX

(* A tombstone has no value, whatever it came with.                        *)
ValueOf(tombstone, val) == IF tombstone THEN 0 ELSE val

Record(tombstone, key, val) ==
  LET n == AtOrAfter(key) IN
  /\ entries' = [entries EXCEPT ![key] = Entry(tombstone, ValueOf(tombstone, val))]
  /\ miscounted' =
       CASE arena[n].key = key /\ HidesValue(n) -> Word(miscounted + val_data[arena[n].val_index])
         [] arena[n].key # key /\ tombstone -> Word(miscounted - val)
         [] OTHER -> miscounted

(* SkipList::insert; the level of a new node is random.                    *)
Insert(tombstone, key, val) ==
  LET n == AtOrAfter(key) IN
  IF arena[n].key = key
  THEN UpdateVal(n, tombstone, val)
  ELSE \E max_level \in Levels : AddNode(tombstone, key, val, max_level)

(* What DB::put and DB::remove insert: remove a tombstone with the empty   *)
(* value, put whatever its caller says, a tombstone with a value included. *)
Put(tombstone, key, val) == Insert(tombstone, key, val) /\ Record(tombstone, key, val)

Clear ==
  /\ arena' = <<HeadNode>> /\ val_data' = <<>> /\ byte_counter' = 0
  /\ entries' = [k \in Keys |-> NotFound] /\ miscounted' = 0

Next ==
  \/ \E tombstone \in BOOLEAN, k \in Keys, v \in Values : Put(tombstone, k, v)
  \/ Clear

Spec == Init /\ [][Next]_vars

-----------------------------------------------------------------------------
Node ==
  [levels : Levels, next : UNION {[0..l -> DOMAIN arena] : l \in Levels}, tombstone : BOOLEAN,
   key : Keys \union {EmptyKey}, val_index : 0..Len(val_data)]

TypeOK ==
  /\ arena \in Seq(Node) /\ \A n \in DOMAIN arena : DOMAIN arena[n].next = 0..arena[n].levels
  /\ val_data \in Seq(Values)
  /\ byte_counter \in 0..(2^WordBits - 1) /\ miscounted \in 0..(2^WordBits - 1)

-----------------------------------------------------------------------------
(* Properties.                                                             *)

(* Every level links exactly the nodes whose tower reaches it, in strictly *)
(* increasing order of their keys; an iteration of level 0 is what a flush *)
(* copies into a table.                                                    *)
TowersAreSorted ==
  \A i \in Levels :
    LET at(n) == {m \in DOMAIN arena \ {head} : m # n /\ arena[m].levels >= i
                                                 /\ (n = head \/ arena[m].key > arena[n].key)}
    IN \A n \in DOMAIN arena : arena[n].levels >= i =>
         \/ at(n) = {} /\ arena[n].next[i] = head
         \/ /\ arena[n].next[i] \in at(n)
            /\ \A m \in at(n) : m = arena[n].next[i] \/ arena[m].key > arena[arena[n].next[i]].key

(* A search finds what was last inserted under the key.  The empty key     *)
(* alone may be missed: when it comes first it is taken for the head.      *)
SearchFindsLastInsert ==
  \A k \in Keys :
    \/ Search(k) = entries[k]
    \/ k = EmptyKey /\ Search(k) = NotFound

(* What the nodes count for, and the sum of a sequence.                    *)
Size(n) == KeySize(arena[n].key) + (IF arena[n].tombstone THEN 0 ELSE Data(n).val)
Sizes == [n \in DOMAIN arena |-> Size(n)]
SumOf(s) ==
  LET sum[n \in 0..Len(s)] == IF n = 0 THEN 0 ELSE sum[n - 1] + s[n]
  IN  sum[Len(s)]

(* byte_counter is the size of the keys and of the values that are not     *)
(* behind a tombstone (the head's included), but for two drifts that last  *)
(* until the memtable is cleared: each write of a key that was put and     *)
(* then removed subtracts the old value once more, below zero if need be,  *)
(* and the first write of a key counts the value of put(key, val, true),   *)
(* which is never stored.                                                  *)
CounterFollowsContent == byte_counter = Word(SumOf(Sizes) - miscounted)
=============================================================================
