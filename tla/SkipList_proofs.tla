---------------------------- MODULE SkipList_proofs ----------------------------
(***************************************************************************)
(* Proofs about SkipList, for any set of keys and any highest level: the   *)
(* towers stay sorted and a search finds what was inserted last.           *)
(*                                                                         *)
(* getPredecessors is a recursive walk.  What it returns is fixed by one   *)
(* property, IsLast: on each level there is exactly one node before the    *)
(* key whose next node is not, and the walk can only end there.  All else  *)
(* is proved from that property.                                           *)
(***************************************************************************)
EXTENDS SkipList, DataLemmas

-----------------------------------------------------------------------------
(* The inductive invariant, first the nodes and their links.               *)

Nodes == DOMAIN arena \ {head}

Structure ==
  /\ TypeOK
  /\ head \in DOMAIN arena /\ arena[head].levels = MAX_LVL /\ arena[head].key = EmptyKey
  /\ \A n \in Nodes : arena[n].key \in Keys
  /\ \A m, n \in Nodes : arena[m].key = arena[n].key => m = n
  /\ TowersAreSorted

(* Then the data behind them: each value has one owner, and a node holds   *)
(* what was last inserted under its key.                                   *)
Contents ==
  /\ \A n \in DOMAIN arena : arena[n].tombstone \/ arena[n].val_index # INVALID_INDEX
  /\ \A m, n \in DOMAIN arena :
       arena[m].val_index = arena[n].val_index => m = n \/ arena[n].val_index = INVALID_INDEX
  /\ entries = [k \in Keys |-> entries[k]]
  /\ \A n \in Nodes : entries[arena[n].key] = Data(n)
  /\ \A k \in Keys \ {EmptyKey} : (\A n \in Nodes : arena[n].key # k) => entries[k] = NotFound

SInv == Structure /\ Contents /\ CounterFollowsContent

-----------------------------------------------------------------------------
(* Reading the invariant.                                                  *)

LEMMA LevelFacts ==
  /\ MAX_LVL \in Nat /\ Levels = 0..MAX_LVL /\ MAX_LVL \in Levels /\ 0 \in Levels
  /\ Keys \subseteq Nat /\ Values \subseteq Nat /\ 0 \in Values /\ EmptyKey = 0 /\ head = 1
  BY ConstantsAssumption DEF ConstantsAssumption, Levels, EmptyKey, head

LEMMA NodeFacts ==
  ASSUME TypeOK, NEW n \in DOMAIN arena
  PROVE  /\ n \in 1..Len(arena) /\ Len(arena) \in Nat
         /\ arena[n] = [levels |-> arena[n].levels, next |-> arena[n].next,
                        tombstone |-> arena[n].tombstone, key |-> arena[n].key,
                        val_index |-> arena[n].val_index]
         /\ arena[n].levels \in 0..MAX_LVL /\ arena[n].key \in Nat
         /\ arena[n].key \in Keys \union {EmptyKey}
         /\ arena[n].tombstone \in BOOLEAN /\ arena[n].val_index \in 0..Len(val_data)
         /\ arena[n].next \in [0..arena[n].levels -> DOMAIN arena]
<1>1. arena[n] \in Node /\ n \in 1..Len(arena) /\ Len(arena) \in Nat
  BY DEF TypeOK
<1>2. /\ arena[n].levels \in Levels /\ arena[n].key \in Keys \union {EmptyKey}
      /\ arena[n].tombstone \in BOOLEAN /\ arena[n].val_index \in 0..Len(val_data)
      /\ arena[n].next \in UNION {[0..l -> DOMAIN arena] : l \in Levels}
      /\ arena[n] = [levels |-> arena[n].levels, next |-> arena[n].next,
                     tombstone |-> arena[n].tombstone, key |-> arena[n].key,
                     val_index |-> arena[n].val_index]
  BY <1>1 DEF Node
<1>3. arena[n].next \in [0..arena[n].levels -> DOMAIN arena]
  BY <1>2 DEF TypeOK
<1>4. QED
  BY <1>1, <1>2, <1>3, LevelFacts

(* What TowersAreSorted says of one link.                                  *)
LEMMA LinkFacts ==
  ASSUME Structure, NEW i \in Levels, NEW n \in Tower(i), NEW x, x = arena[n].next[i]
  PROVE  /\ x \in Tower(i)
         /\ x = head => \A m \in Tower(i) \ {head} : n # head /\ arena[m].key <= arena[n].key
         /\ x # head => /\ n = head \/ arena[x].key > arena[n].key
                        /\ \A m \in Tower(i) \ {head} :
                             n = head \/ arena[m].key > arena[n].key =>
                               m = x \/ arena[m].key > arena[x].key
<1> DEFINE at == {m \in DOMAIN arena \ {head} : m # n /\ arena[m].levels >= i
                                                /\ (n = head \/ arena[m].key > arena[n].key)}
<1>1. n \in DOMAIN arena /\ arena[n].levels >= i
  BY DEF Tower
<1>2. \/ at = {} /\ x = head
      \/ x \in at /\ \A m \in at : m = x \/ arena[m].key > arena[x].key
  BY <1>1 DEF Structure, TowersAreSorted
<1>3. \A m \in DOMAIN arena : arena[m].key \in Nat
  BY NodeFacts DEF Structure
<1>4. head \in Tower(i)
  <2>1. arena[head].levels >= i
    BY LevelFacts DEF Structure
  <2>2. QED
    BY <2>1 DEF Tower, Structure
<1>5. x \in Tower(i)
  BY <1>2, <1>4 DEF Tower
<1>6. ASSUME NEW m \in Tower(i) \ {head}
      PROVE  m \in at <=> m # n /\ (n = head \/ arena[m].key > arena[n].key)
  BY DEF Tower
<1>7. ASSUME x = head, NEW m \in Tower(i) \ {head}
      PROVE  n # head /\ arena[m].key <= arena[n].key
  <2>1. m \notin at /\ m \in DOMAIN arena
    BY <1>2, <1>7 DEF Tower
  <2>2. QED
    BY <1>1, <1>3, <1>6, <1>7, <2>1
<1>8. ASSUME x # head
      PROVE  /\ n = head \/ arena[x].key > arena[n].key
             /\ \A m \in Tower(i) \ {head} :
                  n = head \/ arena[m].key > arena[n].key => m = x \/ arena[m].key > arena[x].key
  <2>1. x \in at /\ \A m \in at : m = x \/ arena[m].key > arena[x].key
    BY <1>2, <1>8
  <2>2. ASSUME NEW m \in Tower(i) \ {head}, n = head \/ arena[m].key > arena[n].key
        PROVE  m \in at
    <3>1. m # n
      BY <1>1, <1>3, <2>2
    <3>2. QED
      BY <1>6, <2>2, <3>1
  <2>3. QED
    BY <2>1, <2>2
<1>9. QED
  BY <1>5, <1>7, <1>8

-----------------------------------------------------------------------------
(* The walk of getPredecessors.                                            *)

Below(k, i, n) == n \in Tower(i) /\ (n = head \/ arena[n].key < k)
IsLast(k, i, n) == Below(k, i, n) /\ ~Precedes(arena[n].next[i], k)

LEMMA TowerFacts ==
  ASSUME Structure, NEW i \in Levels
  PROVE  /\ head \in Tower(i) /\ Tower(i) \subseteq DOMAIN arena
         /\ \A n \in Tower(i) : arena[n].key \in Nat
         /\ \A m, n \in Tower(i) \ {head} : arena[m].key = arena[n].key => m = n
<1>1. arena[head].levels >= i
  BY LevelFacts DEF Structure
<1>2. head \in Tower(i)
  BY <1>1 DEF Tower, Structure
<1>3. Tower(i) \subseteq DOMAIN arena
  BY DEF Tower
<1>4. \A n \in Tower(i) : arena[n].key \in Nat
  BY <1>3, NodeFacts DEF Structure
<1>5. \A m, n \in Tower(i) \ {head} : arena[m].key = arena[n].key => m = n
  BY <1>3 DEF Structure, Nodes
<1>6. QED
  BY <1>2, <1>3, <1>4, <1>5

(* From a node before the key the walk goes on to such a node, or ends.    *)
LEMMA NextBelow ==
  ASSUME Structure, NEW k \in Nat, NEW i \in Levels, NEW n, Below(k, i, n), ~IsLast(k, i, n),
         NEW x, x = arena[n].next[i]
  PROVE  /\ x # head /\ Below(k, i, x)
         /\ n = head \/ arena[x].key > arena[n].key
<1>1. n \in Tower(i) /\ Precedes(x, k)
  BY DEF IsLast, Below
<1>2. x # head /\ arena[x].key < k
  BY <1>1 DEF Precedes
<1>3. x \in Tower(i) /\ (n = head \/ arena[x].key > arena[n].key)
  BY <1>1, <1>2, LinkFacts
<1>4. QED
  BY <1>2, <1>3 DEF Below

(* The last node before the key has the greatest key of those before it.   *)
LEMMA LastIsGreatest ==
  ASSUME Structure, NEW k \in Nat, NEW i \in Levels, NEW p, IsLast(k, i, p),
         NEW n, Below(k, i, n), n # head
  PROVE  p # head /\ arena[n].key <= arena[p].key
<1>1. PICK x : x = arena[p].next[i]
  OBVIOUS
<1>2. /\ p \in Tower(i) /\ n \in Tower(i) \ {head} /\ arena[n].key < k
      /\ ~(x # head /\ arena[x].key < k)
  BY <1>1 DEF IsLast, Below, Precedes
<1>3. arena[n].key \in Nat /\ arena[p].key \in Nat
  BY <1>2, TowerFacts
<1>4. SUFFICES ASSUME p = head \/ arena[n].key > arena[p].key
               PROVE  FALSE
  BY <1>3
<1>5. x # head
  BY <1>1, <1>2, <1>3, <1>4, LinkFacts
<1>6. n = x \/ arena[n].key > arena[x].key
  BY <1>1, <1>2, <1>4, <1>5, LinkFacts
<1>7. x \in Tower(i) /\ arena[x].key \in Nat
  BY <1>1, <1>2, LinkFacts, TowerFacts
<1>8. QED
  BY <1>2, <1>3, <1>5, <1>6, <1>7

LEMMA LastIsUnique ==
  ASSUME Structure, NEW k \in Nat, NEW i \in Levels,
         NEW p, IsLast(k, i, p), NEW q, IsLast(k, i, q)
  PROVE  p = q
<1>1. Below(k, i, p) /\ Below(k, i, q)
  BY DEF IsLast
<1>2. p \in Tower(i) /\ q \in Tower(i) /\ arena[p].key \in Nat /\ arena[q].key \in Nat
  BY <1>1, TowerFacts DEF Below
<1>3. CASE p = head \/ q = head
  BY <1>1, <1>3, LastIsGreatest
<1>4. CASE p # head /\ q # head
  <2>1. arena[p].key <= arena[q].key /\ arena[q].key <= arena[p].key
    BY <1>1, <1>4, LastIsGreatest
  <2>2. arena[p].key = arena[q].key
    BY <1>2, <2>1
  <2>3. QED
    BY <1>2, <1>4, <2>2, TowerFacts
<1>5. QED
  BY <1>3, <1>4

LEMMA LastExists ==
  ASSUME Structure, NEW k \in Nat, NEW i \in Levels
  PROVE  \E p : IsLast(k, i, p)
<1>1. SUFFICES ASSUME \A p : ~IsLast(k, i, p)
               PROVE  FALSE
  OBVIOUS
<1> DEFINE B == {n \in Tower(i) \ {head} : arena[n].key < k}
           S == {arena[n].key : n \in B}
<1>2. Below(k, i, head)
  BY TowerFacts DEF Below
<1>3. S \subseteq 0..k
  <2>1. \A n \in B : arena[n].key \in Nat /\ arena[n].key < k
    BY TowerFacts
  <2>2. QED
    BY <2>1
<1>4. ASSUME NEW n, Below(k, i, n)
      PROVE  arena[n].next[i] \in B /\ (n = head \/ arena[arena[n].next[i]].key > arena[n].key)
  BY <1>1, <1>4, NextBelow DEF Below
<1>5. S # {}
  BY <1>2, <1>4
<1>6. PICK y \in S : \A z \in S : z <= y
  BY <1>3, <1>5, GreatestExists
<1>7. PICK n \in B : y = arena[n].key
  OBVIOUS
<1>8. Below(k, i, n) /\ n # head
  BY <1>7 DEF Below
<1>9. PICK z \in S : z > y
  BY <1>4, <1>7, <1>8
<1>10. y \in Nat /\ z \in Nat /\ z <= y
  BY <1>3, <1>6
<1>11. QED
  BY <1>9, <1>10

(* The walk is a recursive function: this is the equation it satisfies.    *)
LEMMA WalkEquation ==
  ASSUME Structure, NEW k \in Nat, NEW i \in Levels
  PROVE  Walk(k, i) = [n \in Tower(i) |-> IF Precedes(arena[n].next[i], k)
                                          THEN Walk(k, i)[arena[n].next[i]] ELSE n]
<1>1. PICK p : IsLast(k, i, p)
  BY LastExists
<1> DEFINE v == [n \in Tower(i) |-> IF Below(k, i, n) THEN p ELSE n]
<1>2. ASSUME NEW n \in Tower(i), NEW x, x = arena[n].next[i]
      PROVE  v[n] = IF Precedes(x, k) THEN v[x] ELSE n
  <2>1. CASE Below(k, i, n) /\ Precedes(x, k)
    <3>1. ~IsLast(k, i, n)
      BY <1>2, <2>1 DEF IsLast
    <3>2. Below(k, i, x) /\ x \in Tower(i)
      BY <1>2, <2>1, <3>1, NextBelow DEF Below
    <3>3. QED
      BY <2>1, <3>2
  <2>2. CASE Below(k, i, n) /\ ~Precedes(x, k)
    <3>1. IsLast(k, i, n)
      BY <1>2, <2>2 DEF IsLast
    <3>2. n = p
      BY <1>1, <3>1, LastIsUnique
    <3>3. QED
      BY <2>2, <3>2
  <2>3. CASE ~Below(k, i, n)
    <3>1. n # head /\ ~(arena[n].key < k)
      BY <2>3 DEF Below
    <3>2. x \in Tower(i) /\ (x = head \/ arena[x].key > arena[n].key)
      BY <1>2, <3>1, LinkFacts
    <3>3. arena[x].key \in Nat /\ arena[n].key \in Nat
      BY <3>2, TowerFacts
    <3>4. ~Precedes(x, k)
      BY <3>1, <3>2, <3>3 DEF Precedes
    <3>5. QED
      BY <2>3, <3>4
  <2>4. QED
    BY <2>1, <2>2, <2>3
<1>3. v = [n \in Tower(i) |-> IF Precedes(arena[n].next[i], k) THEN v[arena[n].next[i]] ELSE n]
  BY <1>2
<1>4. \E w : w = [n \in Tower(i) |-> IF Precedes(arena[n].next[i], k)
                                     THEN w[arena[n].next[i]] ELSE n]
  BY <1>3
<1>5. Walk(k, i) = CHOOSE w : w = [n \in Tower(i) |-> IF Precedes(arena[n].next[i], k)
                                                      THEN w[arena[n].next[i]] ELSE n]
  BY DEF Walk
<1>6. QED
  BY <1>4, <1>5

(* From every node before the key it ends at the last one.                 *)
LEMMA WalkEnds ==
  ASSUME Structure, NEW k \in Nat, NEW i \in Levels, NEW n, Below(k, i, n)
  PROVE  IsLast(k, i, Walk(k, i)[n])
<1> DEFINE Bad == {m \in Tower(i) : Below(k, i, m) /\ ~IsLast(k, i, Walk(k, i)[m])}
           S == {arena[m].key : m \in Bad \ {head}}
<1>1. ASSUME NEW m \in Bad
      PROVE  /\ arena[m].next[i] \in Bad \ {head}
             /\ m = head \/ arena[arena[m].next[i]].key > arena[m].key
  <2>1. PICK x : x = arena[m].next[i]
    OBVIOUS
  <2>2. Walk(k, i)[m] = IF Precedes(x, k) THEN Walk(k, i)[x] ELSE m
    BY <2>1, WalkEquation
  <2>3. ~IsLast(k, i, m)
    <3>1. SUFFICES ASSUME IsLast(k, i, m)
                   PROVE  FALSE
      OBVIOUS
    <3>2. ~Precedes(x, k)
      BY <2>1, <3>1 DEF IsLast
    <3>3. QED
      BY <2>2, <3>1, <3>2
  <2>4. Precedes(x, k)
    BY <2>1, <2>3 DEF IsLast
  <2>5. x # head /\ Below(k, i, x) /\ (m = head \/ arena[x].key > arena[m].key)
    BY <2>1, <2>3, NextBelow
  <2>6. x \in Tower(i) /\ ~IsLast(k, i, Walk(k, i)[x])
    BY <2>2, <2>4, <2>5 DEF Below
  <2>7. QED
    BY <2>1, <2>5, <2>6
<1>2. SUFFICES ASSUME n \in Bad
               PROVE  FALSE
  BY DEF Below
<1>3. S # {}
  <2>1. PICK x : x \in Bad \ {head}
    BY <1>1, <1>2
  <2>2. arena[x].key \in S
    BY <2>1
  <2>3. QED
    BY <2>2
<1>4. S \subseteq 0..k
  <2>1. \A m \in Bad \ {head} : arena[m].key \in Nat /\ arena[m].key < k
    BY TowerFacts DEF Below
  <2>2. QED
    BY <2>1
<1>5. PICK y \in S : \A z \in S : z <= y
  BY <1>3, <1>4, GreatestExists
<1>6. PICK m \in Bad \ {head} : y = arena[m].key
  OBVIOUS
<1>7. PICK z \in S : z > y
  BY <1>1, <1>6
<1>8. y \in Nat /\ z \in Nat /\ z <= y
  BY <1>4, <1>5
<1>9. QED
  BY <1>7, <1>8

(* The recursion over the levels, from the top down.                       *)
LEMMA PredecessorsEquation ==
  ASSUME Structure, NEW k \in Nat
  PROVE  Predecessors(k) =
           [i \in Levels |-> Walk(k, i)[IF i = MAX_LVL THEN head ELSE Predecessors(k)[i + 1]]]
<1> DEFINE v == [i \in Levels |-> CHOOSE p : IsLast(k, i, p)]
<1>1. \A i \in Levels : IsLast(k, i, v[i])
  BY LastExists
<1>2. ASSUME NEW i \in Levels, NEW n, Below(k, i, n)
      PROVE  Walk(k, i)[n] = v[i]
  BY <1>1, <1>2, WalkEnds, LastIsUnique
<1>3. ASSUME NEW i \in Levels
      PROVE  v[i] = Walk(k, i)[IF i = MAX_LVL THEN head ELSE v[i + 1]]
  <2>1. CASE i = MAX_LVL
    <3>1. Below(k, i, head)
      BY TowerFacts DEF Below
    <3>2. QED
      BY <1>2, <2>1, <3>1
  <2>2. CASE i # MAX_LVL
    <3>1. i + 1 \in Levels /\ i \in Nat
      BY <2>2, LevelFacts
    <3>2. Below(k, i + 1, v[i + 1])
      BY <1>1, <3>1 DEF IsLast
    <3>3. v[i + 1] \in DOMAIN arena /\ arena[v[i + 1]].levels \in Nat
      BY <3>1, <3>2, TowerFacts, NodeFacts DEF Below, Structure
    <3>4. Below(k, i, v[i + 1])
      BY <3>1, <3>2, <3>3 DEF Below, Tower
    <3>5. QED
      BY <1>2, <2>2, <3>4
  <2>3. QED
    BY <2>1, <2>2
<1>4. v = [i \in Levels |-> Walk(k, i)[IF i = MAX_LVL THEN head ELSE v[i + 1]]]
  BY <1>3
<1>5. \E w : w = [i \in Levels |-> Walk(k, i)[IF i = MAX_LVL THEN head ELSE w[i + 1]]]
  BY <1>4
<1>6. Predecessors(k) = CHOOSE w : w = [i \in Levels |->
                          Walk(k, i)[IF i = MAX_LVL THEN head ELSE w[i + 1]]]
  BY DEF Predecessors
<1>7. QED
  BY <1>5, <1>6

(* What getPredecessors returns.                                           *)
LEMMA PredecessorsAreLast ==
  ASSUME Structure, NEW k \in Nat
  PROVE  \A i \in Levels : IsLast(k, i, Predecessors(k)[i])
<1> DEFINE S == {i \in Levels : IsLast(k, i, Predecessors(k)[i])}
<1>1. MAX_LVL \in S
  <2>1. Below(k, MAX_LVL, head)
    BY TowerFacts, LevelFacts DEF Below
  <2>2. Predecessors(k)[MAX_LVL] = Walk(k, MAX_LVL)[head]
    BY PredecessorsEquation, LevelFacts
  <2>3. QED
    BY <2>1, <2>2, WalkEnds, LevelFacts
<1>2. ASSUME NEW i \in 0..(MAX_LVL - 1), i + 1 \in S
      PROVE  i \in S
  <2>1. i \in Levels /\ i + 1 \in Levels /\ i \in Nat /\ i # MAX_LVL
    BY LevelFacts
  <2>2. PICK n : n = Predecessors(k)[i + 1]
    OBVIOUS
  <2>3. Below(k, i + 1, n)
    BY <1>2, <2>2 DEF IsLast
  <2>4. n \in DOMAIN arena /\ arena[n].levels \in Nat
    BY <2>1, <2>3, TowerFacts, NodeFacts DEF Below, Structure
  <2>5. Below(k, i, n)
    BY <2>1, <2>3, <2>4 DEF Below, Tower
  <2>6. Predecessors(k)[i] = Walk(k, i)[n]
    BY <2>1, <2>2, PredecessorsEquation
  <2>7. QED
    BY <2>1, <2>5, <2>6, WalkEnds
<1>3. 0..MAX_LVL \subseteq S
  BY <1>1, <1>2, InductionDown, LevelFacts
<1>4. QED
  BY <1>3, LevelFacts

-----------------------------------------------------------------------------
(* The node at or after a key.                                             *)

LEMMA AtOrAfterFacts ==
  ASSUME Structure, NEW k \in Nat, NEW n, n = AtOrAfter(k)
  PROVE  /\ n \in DOMAIN arena
         /\ n # head => arena[n].key >= k
         /\ \A m \in Nodes : arena[m].key >= k => n # head /\ arena[m].key >= arena[n].key
<1>1. PICK p : p = Predecessors(k)[0]
  OBVIOUS
<1>2. IsLast(k, 0, p) /\ n = arena[p].next[0] /\ 0 \in Levels
  BY <1>1, PredecessorsAreLast, LevelFacts DEF AtOrAfter
<1>3. p \in Tower(0) /\ (p = head \/ arena[p].key < k) /\ ~(n # head /\ arena[n].key < k)
  BY <1>2 DEF IsLast, Below, Precedes
<1>4. n \in Tower(0) /\ Tower(0) \subseteq DOMAIN arena
  BY <1>2, <1>3, LinkFacts, TowerFacts
<1>5. \A m \in Tower(0) : arena[m].key \in Nat
  BY <1>2, TowerFacts
<1>6. ASSUME NEW m \in Nodes, arena[m].key >= k
      PROVE  n # head /\ arena[m].key >= arena[n].key
  <2>1. m \in DOMAIN arena /\ m # head /\ arena[m].levels \in Nat
    BY NodeFacts DEF Nodes, Structure
  <2>2. m \in Tower(0) \ {head}
    BY <2>1 DEF Tower
  <2>3. p = head \/ arena[m].key > arena[p].key
    BY <1>3, <1>5, <1>6, <2>2
  <2>4. n # head
    BY <1>2, <1>3, <1>5, <2>2, <2>3, LinkFacts
  <2>5. m = n \/ arena[m].key > arena[n].key
    BY <1>2, <1>3, <2>2, <2>3, <2>4, LinkFacts
  <2>6. QED
    BY <1>4, <1>5, <2>2, <2>4, <2>5
<1>7. QED
  BY <1>3, <1>4, <1>5, <1>6

(* It has the key itself exactly when some node has.                       *)
LEMMA FindsTheNode ==
  ASSUME Structure, NEW k \in Nat, NEW n, n = AtOrAfter(k)
  PROVE  /\ n \in DOMAIN arena
         /\ n # head /\ arena[n].key = k => n \in Nodes
         /\ \A m \in Nodes : arena[m].key = k => m = n
         /\ n = head /\ arena[n].key = k => k = EmptyKey /\ Nodes = {}
<1>1. /\ n \in DOMAIN arena
      /\ n # head => arena[n].key >= k
      /\ \A m \in Nodes : arena[m].key >= k => n # head /\ arena[m].key >= arena[n].key
  BY AtOrAfterFacts
<1>2. \A m \in DOMAIN arena : arena[m].key \in Nat
  BY NodeFacts DEF Structure
<1>3. ASSUME NEW m \in Nodes, arena[m].key = k
      PROVE  m = n
  <2>1. m \in DOMAIN arena /\ n # head /\ arena[n].key = k
    BY <1>1, <1>2, <1>3 DEF Nodes
  <2>2. n \in Nodes
    BY <1>1, <2>1 DEF Nodes
  <2>3. QED
    BY <1>3, <2>1, <2>2 DEF Structure
<1>4. ASSUME n = head, arena[n].key = k
      PROVE  k = EmptyKey /\ Nodes = {}
  <2>1. k = 0 /\ k = EmptyKey
    BY <1>4, LevelFacts DEF Structure
  <2>2. \A m \in Nodes : arena[m].key >= k
    BY <1>2, <2>1 DEF Nodes
  <2>3. QED
    BY <1>1, <1>4, <2>1, <2>2
<1>5. QED
  BY <1>1, <1>3, <1>4 DEF Nodes

(* The search of a reader, from the invariant.                             *)
LEMMA SearchIsRight ==
  ASSUME SInv
  PROVE  SearchFindsLastInsert
<1>1. SUFFICES ASSUME NEW k \in Keys
               PROVE  Search(k) = entries[k] \/ (k = EmptyKey /\ Search(k) = NotFound)
  BY DEF SearchFindsLastInsert
<1>2. PICK n : n = AtOrAfter(k)
  OBVIOUS
<1>3. k \in Nat /\ Structure /\ Contents
  BY LevelFacts DEF SInv
<1>4. CASE n # head /\ arena[n].key = k
  <2>1. n \in Nodes
    BY <1>2, <1>3, <1>4, FindsTheNode
  <2>2. entries[k] = Data(n)
    BY <1>3, <1>4, <2>1 DEF Contents
  <2>3. Search(k) = Data(n)
    BY <1>2, <1>4 DEF Search
  <2>4. QED
    BY <2>2, <2>3
<1>5. CASE ~(n # head /\ arena[n].key = k)
  <2>1. Search(k) = NotFound
    BY <1>2, <1>5 DEF Search
  <2>2. \A m \in Nodes : arena[m].key # k
    BY <1>2, <1>3, <1>5, FindsTheNode DEF Nodes
  <2>3. QED
    BY <1>3, <2>1, <2>2 DEF Contents
<1>6. QED
  BY <1>4, <1>5

-----------------------------------------------------------------------------
(* SkipList::updateVal: one node has another tombstone bit, one value may  *)
(* be stored; keys, levels and links stay.                                 *)

LEMMA RecordUpdates ==
  ASSUME NEW A, NEW B, NEW C, NEW D, NEW E,
         NEW r \in [levels : A, next : B, tombstone : C, key : D, val_index : E],
         NEW t \in C, NEW j \in E,
         NEW u, u = [r EXCEPT !.tombstone = t],
         NEW w, w = [r EXCEPT !.tombstone = t, !.val_index = j]
  PROVE  /\ u \in [levels : A, next : B, tombstone : C, key : D, val_index : E]
         /\ u.levels = r.levels /\ u.next = r.next /\ u.key = r.key
         /\ u.tombstone = t /\ u.val_index = r.val_index
         /\ w \in [levels : A, next : B, tombstone : C, key : D, val_index : E]
         /\ w.levels = r.levels /\ w.next = r.next /\ w.key = r.key
         /\ w.tombstone = t /\ w.val_index = j
  OBVIOUS

(* The nodes as in TypeOK, the index of a value still unbounded.           *)
WideNode ==
  [levels : Levels, next : UNION {[0..l -> DOMAIN arena] : l \in Levels}, tombstone : BOOLEAN,
   key : Keys \union {EmptyKey}, val_index : Nat]

SameButFor(n, t, j) ==
  \E u \in WideNode :
    /\ arena' = [arena EXCEPT ![n] = u]
    /\ u.levels = arena[n].levels /\ u.next = arena[n].next /\ u.key = arena[n].key
    /\ u.tombstone = t /\ u.val_index = j

ValueAt(n, tombstone, val, j) ==
  /\ j \in 0..Len(val_data')
  /\ j = arena[n].val_index \/ (arena[n].val_index = 0 /\ j = Len(val_data) + 1)
  /\ val_data' \in Seq(Values) /\ Len(val_data') >= Len(val_data)
  /\ tombstone => j = arena[n].val_index /\ val_data' = val_data
  /\ ~tombstone => j # 0 /\ val_data'[j] = val
  /\ \A i \in 1..Len(val_data) : i # j => val_data'[i] = val_data[i]

LEMMA UpdateEffect ==
  ASSUME TypeOK, NEW n \in DOMAIN arena, NEW tombstone \in BOOLEAN, NEW val \in Values,
         UpdateVal(n, tombstone, val)
  PROVE  \E j \in Nat : SameButFor(n, tombstone, j) /\ ValueAt(n, tombstone, val, j)
<1>1. arena[n] \in WideNode /\ arena[n].val_index \in 0..Len(val_data) /\ n \in 1..Len(arena)
  <2>1. arena[n] \in Node /\ n \in 1..Len(arena) /\ Len(val_data) \in Nat
    BY DEF TypeOK
  <2>2. QED
    BY <2>1 DEF Node, WideNode
<1>2. val_data \in Seq(Values) /\ Len(val_data) \in Nat /\ arena \in Seq(Node)
  BY DEF TypeOK
<1>3. PICK v \in 0..Len(val_data) : v = arena[n].val_index
  BY <1>1
<1>4. CASE tombstone
  <2>1. arena' = [arena EXCEPT ![n].tombstone = TRUE] /\ val_data' = val_data
    BY <1>4 DEF UpdateVal
  <2>2. PICK u : u = [arena[n] EXCEPT !.tombstone = tombstone]
    OBVIOUS
  <2>3. /\ u \in WideNode
        /\ u.levels = arena[n].levels /\ u.next = arena[n].next /\ u.key = arena[n].key
        /\ u.tombstone = tombstone /\ u.val_index = v
    BY <1>1, <1>3, <2>2, RecordUpdates DEF WideNode
  <2>4. arena' = [arena EXCEPT ![n] = u]
    BY <1>4, <2>1, <2>2
  <2>5. SameButFor(n, tombstone, v)
    BY <2>3, <2>4 DEF SameButFor
  <2>6. ValueAt(n, tombstone, val, v)
    BY <1>2, <1>3, <1>4, <2>1 DEF ValueAt
  <2>7. QED
    BY <1>2, <2>5, <2>6
<1>5. CASE ~tombstone /\ v = INVALID_INDEX
  <2>1. /\ arena' = [arena EXCEPT ![n].tombstone = FALSE, ![n].val_index = Len(val_data) + 1]
        /\ val_data' = Append(val_data, val)
    BY <1>3, <1>5 DEF UpdateVal
  <2>2. PICK j \in Nat : j = Len(val_data) + 1
    BY <1>2
  <2>3. PICK u : u = [arena[n] EXCEPT !.tombstone = tombstone, !.val_index = j]
    OBVIOUS
  <2>4. /\ u \in WideNode
        /\ u.levels = arena[n].levels /\ u.next = arena[n].next /\ u.key = arena[n].key
        /\ u.tombstone = tombstone /\ u.val_index = j
    BY <1>1, <2>2, <2>3, RecordUpdates DEF WideNode
  <2>5. arena' = [arena EXCEPT ![n] = u]
    BY <1>5, <2>1, <2>2, <2>3
  <2>6. SameButFor(n, tombstone, j)
    BY <2>4, <2>5 DEF SameButFor
  <2>7. /\ val_data' \in Seq(Values) /\ Len(val_data') = Len(val_data) + 1
        /\ val_data'[j] = val
        /\ \A i \in 1..Len(val_data) : val_data'[i] = val_data[i]
    BY <1>2, <2>1, <2>2
  <2>8. ValueAt(n, tombstone, val, j)
    BY <1>2, <1>3, <1>5, <2>2, <2>7 DEF ValueAt, INVALID_INDEX
  <2>9. QED
    BY <2>2, <2>6, <2>8
<1>6. CASE ~tombstone /\ v # INVALID_INDEX
  <2>1. /\ arena' = [arena EXCEPT ![n].tombstone = FALSE]
        /\ val_data' = [val_data EXCEPT ![v] = val]
    BY <1>3, <1>6 DEF UpdateVal
  <2>2. PICK u : u = [arena[n] EXCEPT !.tombstone = tombstone]
    OBVIOUS
  <2>3. /\ u \in WideNode
        /\ u.levels = arena[n].levels /\ u.next = arena[n].next /\ u.key = arena[n].key
        /\ u.tombstone = tombstone /\ u.val_index = v
    BY <1>1, <1>3, <2>2, RecordUpdates DEF WideNode
  <2>4. arena' = [arena EXCEPT ![n] = u]
    BY <1>6, <2>1, <2>2
  <2>5. SameButFor(n, tombstone, v)
    BY <2>3, <2>4 DEF SameButFor
  <2>6. v # 0 /\ v \in 1..Len(val_data)
    BY <1>3, <1>6 DEF INVALID_INDEX
  <2>7. /\ val_data' \in Seq(Values) /\ Len(val_data') = Len(val_data)
        /\ val_data'[v] = val
        /\ \A i \in 1..Len(val_data) : i # v => val_data'[i] = val_data[i]
    BY <1>2, <2>1, <2>6
  <2>8. ValueAt(n, tombstone, val, v)
    BY <1>2, <1>3, <1>6, <2>6, <2>7 DEF ValueAt
  <2>9. QED
    BY <1>2, <2>5, <2>8
<1>7. QED
  BY <1>4, <1>5, <1>6

LEMMA SameShape ==
  ASSUME TypeOK, NEW n \in DOMAIN arena, NEW tombstone \in BOOLEAN, NEW val \in Values,
         NEW j \in Nat, SameButFor(n, tombstone, j), ValueAt(n, tombstone, val, j)
  PROVE  /\ DOMAIN arena' = DOMAIN arena /\ Len(arena') = Len(arena)
         /\ \A m \in DOMAIN arena : /\ arena'[m].levels = arena[m].levels
                                    /\ arena'[m].next = arena[m].next
                                    /\ arena'[m].key = arena[m].key
                                    /\ m # n => arena'[m] = arena[m]
         /\ arena'[n].tombstone = tombstone /\ arena'[n].val_index = j
         /\ (arena \in Seq(Node))'
         /\ \A m \in DOMAIN arena : DOMAIN arena'[m].next = 0..arena'[m].levels
<1>1. PICK u \in WideNode :
        /\ arena' = [arena EXCEPT ![n] = u]
        /\ u.levels = arena[n].levels /\ u.next = arena[n].next /\ u.key = arena[n].key
        /\ u.tombstone = tombstone /\ u.val_index = j
  BY DEF SameButFor
<1>2. arena \in Seq(Node) /\ n \in 1..Len(arena) /\ Len(arena) \in Nat
  BY DEF TypeOK
<1>3. DOMAIN arena' = DOMAIN arena /\ Len(arena') = Len(arena) /\ arena'[n] = u
      /\ \A m \in DOMAIN arena : m # n => arena'[m] = arena[m]
  BY <1>1, <1>2
<1>4. /\ j \in 0..Len(val_data') /\ Len(val_data') >= Len(val_data)
      /\ Len(val_data) \in Nat /\ Len(val_data') \in Nat
  BY DEF ValueAt, TypeOK
<1>5. PICK S : S = [levels : Levels, next : UNION {[0..l -> DOMAIN arena] : l \in Levels},
                     tombstone : BOOLEAN, key : Keys \union {EmptyKey},
                     val_index : 0..Len(val_data')]
  OBVIOUS
<1>6. u \in S /\ \A r \in Node : r \in S
  BY <1>1, <1>4, <1>5 DEF WideNode, Node
<1>7. Node' = S
  BY <1>3, <1>5 DEF Node, Levels
<1>8. arena' \in Seq(Node')
  <2>1. \A m \in 1..Len(arena) : arena'[m] \in Node'
    <3>1. \A m \in 1..Len(arena) : arena[m] \in Node /\ m \in DOMAIN arena
      BY <1>2
    <3>2. \A m \in 1..Len(arena) : arena'[m] \in S
      BY ONLY <1>3, <1>6, <3>1
    <3>3. QED
      BY ONLY <1>7, <3>2
  <2>2. arena' \in Seq(WideNode \union Node)
    BY <1>1, <1>2
  <2>3. QED
    BY <1>2, <1>3, <2>1, <2>2
<1>9. \A m \in DOMAIN arena : DOMAIN arena'[m].next = 0..arena'[m].levels
  BY <1>1, <1>3 DEF TypeOK
<1>10. QED
  BY <1>1, <1>3, <1>8, <1>9

(* Sortedness depends on levels, keys and links alone.                     *)
LEMMA SortedKept ==
  ASSUME TowersAreSorted, DOMAIN arena' = DOMAIN arena,
         \A m \in DOMAIN arena : /\ arena'[m].levels = arena[m].levels
                                 /\ arena'[m].next = arena[m].next
                                 /\ arena'[m].key = arena[m].key
  PROVE  TowersAreSorted'
<1> DEFINE at(i, n) == {m \in DOMAIN arena \ {head} :
             m # n /\ arena[m].levels >= i /\ (n = head \/ arena[m].key > arena[n].key)}
           at1(i, n) == {m \in DOMAIN arena' \ {head} :
             m # n /\ arena'[m].levels >= i /\ (n = head \/ arena'[m].key > arena'[n].key)}
<1>1. ASSUME NEW i \in Levels, NEW n \in DOMAIN arena, arena'[n].levels >= i
      PROVE  \/ at1(i, n) = {} /\ arena'[n].next[i] = head
             \/ /\ arena'[n].next[i] \in at1(i, n)
                /\ \A m \in at1(i, n) :
                     m = arena'[n].next[i] \/ arena'[m].key > arena'[arena'[n].next[i]].key
  <2>1. at1(i, n) = at(i, n)
    OBVIOUS
  <2>2. arena[n].levels >= i /\ arena'[n].next = arena[n].next
    BY <1>1
  <2>3. \/ at(i, n) = {} /\ arena[n].next[i] = head
        \/ /\ arena[n].next[i] \in at(i, n)
           /\ \A m \in at(i, n) : m = arena[n].next[i] \/ arena[m].key > arena[arena[n].next[i]].key
    BY <2>2 DEF TowersAreSorted
  <2>4. CASE at(i, n) = {} /\ arena[n].next[i] = head
    BY <2>1, <2>2, <2>4
  <2>5. CASE /\ arena[n].next[i] \in at(i, n)
             /\ \A m \in at(i, n) : m = arena[n].next[i] \/ arena[m].key > arena[arena[n].next[i]].key
    <3>1. PICK x \in at(i, n) : x = arena[n].next[i] /\ x = arena'[n].next[i]
      BY <2>2, <2>5
    <3>2. \A m \in at(i, n) : m = x \/ arena'[m].key > arena'[x].key
      BY <2>5, <3>1
    <3>3. QED
      BY <2>1, <3>1, <3>2
  <2>6. QED
    BY <2>3, <2>4, <2>5
<1>2. QED
  BY <1>1 DEF TowersAreSorted, Levels, head

-----------------------------------------------------------------------------
(* The sum of a sequence of numbers.                                       *)

IsSum(s, g) == g = [n \in 0..Len(s) |-> IF n = 0 THEN 0 ELSE g[n - 1] + s[n]]

LEMMA SumExists ==
  ASSUME NEW s \in Seq(Int)
  PROVE  \E g : IsSum(s, g)
<1> DEFINE T == {m \in Nat : \E g : g = [n \in 0..m |-> IF n = 0 THEN 0 ELSE g[n - 1] + s[n]]}
<1>1. 0 \in T
  <2>1. PICK g : g = [n \in 0..0 |-> 0]
    OBVIOUS
  <2>2. g = [n \in 0..0 |-> IF n = 0 THEN 0 ELSE g[n - 1] + s[n]]
    BY <2>1
  <2>3. QED
    BY <2>2
<1>2. ASSUME NEW m \in 0..(Len(s) - 1), m \in T
      PROVE  m + 1 \in T
  <2>1. PICK g : g = [n \in 0..m |-> IF n = 0 THEN 0 ELSE g[n - 1] + s[n]]
    BY <1>2
  <2>2. PICK h : h = [n \in 0..(m + 1) |-> IF n = m + 1 THEN g[m] + s[m + 1] ELSE g[n]]
    OBVIOUS
  <2>3. ASSUME NEW n \in 0..(m + 1)
        PROVE  h[n] = IF n = 0 THEN 0 ELSE h[n - 1] + s[n]
    <3>1. CASE n = m + 1
      <4>1. n # 0 /\ n - 1 = m /\ m \in 0..(m + 1) /\ m # m + 1
        BY <3>1
      <4>2. h[m] = g[m] /\ h[n] = g[m] + s[m + 1]
        BY <2>2, <3>1, <4>1
      <4>3. QED
        BY <3>1, <4>1, <4>2
    <3>2. CASE n # m + 1
      <4>1. n \in 0..m /\ h[n] = g[n]
        BY <2>2, <3>2
      <4>2. n = 0 => h[n] = 0
        BY <2>1, <4>1
      <4>3. n # 0 => h[n - 1] = g[n - 1] /\ g[n] = g[n - 1] + s[n]
        BY <2>1, <2>2, <4>1
      <4>4. QED
        BY <4>1, <4>2, <4>3
    <3>3. QED
      BY <3>1, <3>2
  <2>4. h = [n \in 0..(m + 1) |-> IF n = 0 THEN 0 ELSE h[n - 1] + s[n]]
    BY <2>2, <2>3
  <2>5. QED
    BY <2>4
<1>3. Len(s) \in Nat
  OBVIOUS
<1>4. 0..Len(s) \subseteq T
  BY <1>1, <1>2, <1>3, InductionTo
<1>5. QED
  BY <1>3, <1>4 DEF IsSum

LEMMA SumFacts ==
  ASSUME NEW s \in Seq(Int)
  PROVE  /\ \E g : IsSum(s, g) /\ SumOf(s) = g[Len(s)]
         /\ \A g : IsSum(s, g) => SumOf(s) = g[Len(s)] /\ \A n \in 0..Len(s) : g[n] \in Int
<1>1. PICK g : IsSum(s, g) /\ SumOf(s) = g[Len(s)]
  BY SumExists DEF SumOf, IsSum
<1>2. ASSUME NEW h, IsSum(s, h)
      PROVE  SumOf(s) = h[Len(s)] /\ \A n \in 0..Len(s) : h[n] \in Int
  <2> DEFINE T == {n \in 0..Len(s) : h[n] = g[n] /\ h[n] \in Int}
  <2>1. 0 \in T
    BY <1>1, <1>2 DEF IsSum
  <2>2. ASSUME NEW n \in 0..(Len(s) - 1), n \in T
        PROVE  n + 1 \in T
    <3>1. n + 1 \in 0..Len(s) /\ n + 1 # 0 /\ (n + 1) - 1 = n /\ s[n + 1] \in Int
      OBVIOUS
    <3>2. h[n + 1] = h[n] + s[n + 1] /\ g[n + 1] = g[n] + s[n + 1]
      BY <1>1, <1>2, <3>1 DEF IsSum
    <3>3. QED
      BY <2>2, <3>1, <3>2
  <2>3. Len(s) \in Nat
    OBVIOUS
  <2>4. 0..Len(s) \subseteq T
    <3> HIDE DEF T
    <3>1. QED
      BY <2>1, <2>2, <2>3, InductionTo
  <2>5. QED
    BY <1>1, <2>3, <2>4
<1>3. QED
  BY <1>1, <1>2

LEMMA SumOfAppend ==
  ASSUME NEW s \in Seq(Int), NEW x \in Int
  PROVE  SumOf(Append(s, x)) = SumOf(s) + x /\ SumOf(s) \in Int
<1>0. Append(s, x) \in Seq(Int)
  OBVIOUS
<1>1. PICK t \in Seq(Int) : t = Append(s, x)
  BY <1>0
<1>2. PICK k \in Nat : /\ k = Len(s) /\ Len(t) = k + 1 /\ t[k + 1] = x
                       /\ \A n \in 1..k : t[n] = s[n] /\ s[n] \in Int
  BY <1>1
<1>3. PICK g : IsSum(t, g) /\ SumOf(t) = g[Len(t)]
  BY SumFacts
<1>4. PICK h : h = [n \in 0..k |-> g[n]]
  OBVIOUS
<1>5. \A n \in 0..(k + 1) : g[n] = IF n = 0 THEN 0 ELSE g[n - 1] + t[n]
  BY <1>2, <1>3 DEF IsSum
<1>6. IsSum(s, h)
  <2>1. ASSUME NEW n \in 0..k
        PROVE  h[n] = IF n = 0 THEN 0 ELSE h[n - 1] + s[n]
    <3>1. CASE n = 0
      BY <1>4, <1>5, <3>1
    <3>2. CASE n # 0
      <4>1. n \in 1..k /\ n - 1 \in 0..k /\ n \in 0..(k + 1)
        BY <3>2
      <4>2. h[n] = g[n] /\ h[n - 1] = g[n - 1] /\ g[n] = g[n - 1] + t[n] /\ t[n] = s[n]
        BY <1>2, <1>4, <1>5, <3>2, <4>1
      <4>3. QED
        BY <3>2, <4>2
    <3>3. QED
      BY <3>1, <3>2
  <2>2. QED
    BY <1>2, <1>4, <2>1 DEF IsSum
<1>7. SumOf(s) = h[k] /\ h[k] \in Int
  <2>1. k \in 0..k
    OBVIOUS
  <2>2. QED
    BY <1>2, <1>6, <2>1, SumFacts
<1>8. h[k] = g[k] /\ g[k + 1] = g[k] + t[k + 1]
  <2>1. k \in 0..k /\ k + 1 \in 0..(k + 1) /\ k + 1 # 0 /\ (k + 1) - 1 = k
    OBVIOUS
  <2>2. QED
    BY <1>4, <1>5, <2>1
<1>9. QED
  BY <1>1, <1>2, <1>3, <1>7, <1>8

LEMMA SumOfUpdate ==
  ASSUME NEW s \in Seq(Int), NEW i \in 1..Len(s), NEW y \in Int
  PROVE  SumOf([s EXCEPT ![i] = y]) = SumOf(s) - s[i] + y /\ SumOf(s) \in Int /\ s[i] \in Int
<1>0. [s EXCEPT ![i] = y] \in Seq(Int)
  OBVIOUS
<1>1. PICK t \in Seq(Int) : t = [s EXCEPT ![i] = y]
  BY <1>0
<1>2. PICK k \in Nat : /\ k = Len(s) /\ Len(t) = k /\ t[i] = y
                       /\ \A n \in 1..k : s[n] \in Int /\ (n # i => t[n] = s[n])
  BY <1>1
<1>3. PICK g : IsSum(t, g) /\ SumOf(t) = g[k] /\ \A n \in 0..k : g[n] \in Int
  BY <1>2, SumFacts
<1>4. PICK h : IsSum(s, h) /\ SumOf(s) = h[k] /\ \A n \in 0..k : h[n] \in Int
  BY <1>2, SumFacts
<1> DEFINE d(n) == IF n >= i THEN y - s[i] ELSE 0
           T == {n \in 0..k : g[n] = h[n] + d(n)}
<1>5. 0 \in T
  BY <1>2, <1>3, <1>4 DEF IsSum
<1>6. ASSUME NEW n \in 0..(k - 1), n \in T
      PROVE  n + 1 \in T
  <2>1. n + 1 \in 0..k /\ n + 1 \in 1..k /\ (n + 1) - 1 = n /\ n + 1 # 0 /\ n \in 0..k
    OBVIOUS
  <2>2. g[n + 1] = g[n] + t[n + 1] /\ h[n + 1] = h[n] + s[n + 1]
    BY <1>2, <1>3, <1>4, <2>1 DEF IsSum
  <2>3. g[n] = h[n] + d(n)
    BY <1>6
  <2>4. t[n + 1] = s[n + 1] + (IF n + 1 = i THEN y - s[i] ELSE 0)
    BY <1>2, <2>1, SMTT(30)
  <2>5. d(n + 1) = d(n) + (IF n + 1 = i THEN y - s[i] ELSE 0)
    BY <1>2, <2>1, SMTT(30)
  <2>6. /\ g[n] \in Int /\ h[n] \in Int /\ s[n + 1] \in Int /\ d(n) \in Int
        /\ (IF n + 1 = i THEN y - s[i] ELSE 0) \in Int
    BY <1>2, <1>3, <1>4, <2>1, SMTT(30)
  <2>7. g[n + 1] = h[n + 1] + d(n + 1)
    <3> HIDE DEF d
    <3>1. QED
      BY <2>2, <2>3, <2>4, <2>5, <2>6, SMTT(30)
  <2>8. QED
    BY <2>1, <2>7
<1>7. 0..k \subseteq T
  <2> HIDE DEF T
  <2>1. QED
    BY <1>5, <1>6, InductionTo
<1>8. g[k] = h[k] + (y - s[i]) /\ s[i] \in Int /\ h[k] \in Int
  <2>0. k >= i /\ k \in 0..k /\ i \in Nat
    BY <1>2
  <2>1. g[k] = h[k] + (IF k >= i THEN y - s[i] ELSE 0)
    BY <1>7, <2>0
  <2>2. QED
    BY <1>2, <1>4, <2>0, <2>1
<1>9. QED
  BY <1>1, <1>3, <1>4, <1>8

-----------------------------------------------------------------------------
(* The byte counter.                                                       *)

LEMMA WordFacts ==
  /\ 2^WordBits \in Nat \ {0}
  /\ \A x \in Int : Word(x) \in 0..(2^WordBits - 1)
  /\ \A x, y \in Int : Word(Word(x) + y) = Word(x + y) /\ Word(y - Word(x)) = Word(y - x)
<1>1. PICK m \in Nat \ {0} : m = 2^WordBits
  BY ConstantsAssumption DEF ConstantsAssumption
<1>2. \A x \in Int : Word(x) = x % m
  BY <1>1 DEF Word
<1>3. \A x \in Int : x % m \in 0..(m - 1)
  BY ModParts
<1>4. ASSUME NEW x \in Int, NEW y \in Int
      PROVE  ((x % m) + y) % m = (x + y) % m /\ (y - (x % m)) % m = (y - x) % m
  BY ModAdd
<1>5. \A x, y \in Int : /\ (x % m) + y \in Int /\ y - (x % m) \in Int
                        /\ x + y \in Int /\ y - x \in Int
  BY <1>3
<1>6. \A x, y \in Int : Word(Word(x) + y) = Word(x + y) /\ Word(y - Word(x)) = Word(y - x)
  <2>1. TAKE x \in Int, y \in Int
  <2>2. Word(x) = x % m
    BY <1>2
  <2>3. Word((x % m) + y) = ((x % m) + y) % m /\ Word(x + y) = (x + y) % m
    BY <1>2, <1>5
  <2>4. Word(y - (x % m)) = (y - (x % m)) % m /\ Word(y - x) = (y - x) % m
    BY <1>2, <1>5
  <2>5. QED
    BY <1>4, <2>2, <2>3, <2>4
<1>7. QED
  BY <1>1, <1>2, <1>3, <1>6

(* What a node that is not behind a tombstone has stored.                  *)
LEMMA StoredValue ==
  ASSUME TypeOK, Contents, NEW n \in DOMAIN arena
  PROVE  /\ arena[n].val_index \in 0..Len(val_data) /\ Len(val_data) \in Nat
         /\ arena[n].val_index # 0 =>
              arena[n].val_index \in 1..Len(val_data) /\ val_data[arena[n].val_index] \in Nat
         /\ ~arena[n].tombstone => arena[n].val_index # 0
<1>1. arena[n].val_index \in 0..Len(val_data) /\ val_data \in Seq(Values) /\ Len(val_data) \in Nat
  BY NodeFacts DEF TypeOK
<1>2. ~arena[n].tombstone => arena[n].val_index # 0
  BY DEF Contents, INVALID_INDEX
<1>3. PICK v \in 0..Len(val_data) : v = arena[n].val_index
  BY <1>1
<1>4. v # 0 => v \in 1..Len(val_data) /\ val_data[v] \in Nat
  <2>1. v # 0 => v \in 1..Len(val_data)
    BY <1>1
  <2>2. v \in 1..Len(val_data) => val_data[v] \in Values
    BY <1>1
  <2>3. QED
    BY <2>1, <2>2, LevelFacts
<1>5. QED
  BY <1>1, <1>2, <1>3, <1>4

LEMMA SizeFacts ==
  ASSUME TypeOK, Contents, NEW n \in DOMAIN arena
  PROVE  /\ Size(n) = KeySize(arena[n].key) +
                        (IF arena[n].tombstone THEN 0 ELSE val_data[arena[n].val_index])
         /\ Size(n) \in Nat /\ KeySize(arena[n].key) \in Nat
<1>1. ~arena[n].tombstone => Data(n).val = val_data[arena[n].val_index]
  BY DEF Data, Entry
<1>2. ~arena[n].tombstone => val_data[arena[n].val_index] \in Nat
  BY StoredValue
<1>3. KeySize(arena[n].key) \in Nat
  BY DEF KeySize
<1>4. QED
  BY <1>1, <1>2, <1>3 DEF Size

LEMMA SizesType ==
  ASSUME TypeOK, Contents
  PROVE  Sizes \in Seq(Int) /\ Len(Sizes) = Len(arena) /\ Len(arena) \in Nat
         /\ DOMAIN arena = 1..Len(arena)
         /\ SumOf(Sizes) \in Int
<1>1. DOMAIN arena = 1..Len(arena) /\ Len(arena) \in Nat
  BY DEF TypeOK
<1>2. \A n \in 1..Len(arena) : Size(n) \in Int
  BY <1>1, SizeFacts
<1>3. Sizes \in Seq(Int) /\ Len(Sizes) = Len(arena)
  BY <1>1, <1>2 DEF Sizes
<1>4. SumOf(Sizes) \in Int
  <2>1. SumOf(Append(Sizes, 0)) = SumOf(Sizes) + 0 /\ SumOf(Sizes) \in Int
    BY <1>3, SumOfAppend
  <2>2. QED
    BY <2>1
<1>5. QED
  BY <1>1, <1>3, <1>4

(* A value has one owner, so that an update disturbs no other node.        *)
LEMMA OthersKept ==
  ASSUME TypeOK, Contents, NEW n \in DOMAIN arena, NEW tombstone \in BOOLEAN, NEW val \in Values,
         NEW j \in Nat, SameButFor(n, tombstone, j), ValueAt(n, tombstone, val, j),
         NEW m \in DOMAIN arena, m # n
  PROVE  /\ Data(m)' = Data(m) /\ Size(m)' = Size(m)
         /\ arena[m].val_index = j => j = 0
<1>1. arena'[m] = arena[m]
  BY SameShape
<1>2. PICK v \in 0..Len(val_data) : v = arena[m].val_index
  BY StoredValue
<1>3. Len(val_data) \in Nat /\ (v = arena[n].val_index => v = 0)
  BY <1>2, StoredValue DEF Contents, INVALID_INDEX
<1>4. v = j => j = 0
  BY <1>2, <1>3 DEF ValueAt
<1>5. v # 0 => val_data'[v] = val_data[v]
  BY <1>3, <1>4 DEF ValueAt
<1>6. ~arena[m].tombstone => v # 0
  BY <1>2, StoredValue
<1>7. Data(m)' = Data(m)
  <2>1. CASE arena[m].tombstone
    BY <1>1, <2>1 DEF Data
  <2>2. CASE ~arena[m].tombstone
    BY <1>1, <1>2, <1>5, <1>6, <2>2 DEF Data
  <2>3. QED
    BY <2>1, <2>2
<1>8. Size(m)' = Size(m)
  BY <1>1, <1>7 DEF Size
<1>9. QED
  BY <1>2, <1>4, <1>7, <1>8

LEMMA OldSizeFacts ==
  ASSUME TypeOK, Contents, NEW n \in DOMAIN arena
  PROVE  OldSize(n) \in Nat
         /\ OldSize(n) = IF arena[n].val_index = 0 THEN 0 ELSE val_data[arena[n].val_index]
  BY StoredValue DEF OldSize, INVALID_INDEX

(* updateVal takes what the node counted off the counter and, where a      *)
(* tombstone hides a value, the size of that value, which nothing had      *)
(* added: that is what miscounted collects.                                *)
LEMMA UpdateCounts ==
  ASSUME SInv, NEW n \in DOMAIN arena, NEW tombstone \in BOOLEAN, NEW val \in Values,
         UpdateVal(n, tombstone, val),
         NEW j \in Nat, SameButFor(n, tombstone, j), ValueAt(n, tombstone, val, j),
         miscounted' = IF HidesValue(n) THEN Word(miscounted + val_data[arena[n].val_index])
                       ELSE miscounted
  PROVE  /\ CounterFollowsContent'
         /\ byte_counter' \in 0..(2^WordBits - 1) /\ miscounted' \in 0..(2^WordBits - 1)
<1>1. TypeOK /\ Contents /\ CounterFollowsContent
  BY DEF SInv, Structure
<1>2. PICK old \in Nat : old = OldSize(n)
  BY <1>1, OldSizeFacts
<1>3. PICK c \in Nat : c = KeySize(arena[n].key)
  BY <1>1, SizeFacts
<1>4. PICK before \in Nat : before = Size(n) /\ before = c + (IF arena[n].tombstone THEN 0 ELSE old)
  <2>1. Size(n) = c + (IF arena[n].tombstone THEN 0 ELSE val_data[arena[n].val_index])
        /\ Size(n) \in Nat
    BY <1>1, <1>3, SizeFacts
  <2>2. ~arena[n].tombstone => val_data[arena[n].val_index] = old
    BY <1>1, <1>2, OldSizeFacts, StoredValue
  <2>3. QED
    BY <1>3, <2>1, <2>2
<1>5. PICK e \in Nat : e = ValueOf(tombstone, val)
  BY LevelFacts DEF ValueOf
<1>6. Size(n)' = c + e
  <2>1. arena'[n].tombstone = tombstone /\ arena'[n].key = arena[n].key /\ arena'[n].val_index = j
    BY <1>1, SameShape
  <2>2. CASE tombstone
    <3>1. Size(n)' = c + 0
      BY <1>3, <2>1, <2>2 DEF Size, KeySize, EmptyKey
    <3>2. QED
      BY <1>3, <1>5, <2>2, <3>1 DEF ValueOf
  <2>3. CASE ~tombstone
    <3>1. Data(n)'.val = e
      BY <1>5, <2>1, <2>3 DEF Data, Entry, ValueAt, ValueOf
    <3>2. QED
      BY <1>3, <2>1, <2>3, <3>1 DEF Size, KeySize, EmptyKey
  <2>4. QED
    BY <2>2, <2>3
<1>7. Sizes' = [Sizes EXCEPT ![n] = c + e]
  <2>1. DOMAIN arena' = DOMAIN arena
    BY <1>1, SameShape
  <2>2. \A m \in DOMAIN arena : m # n => Size(m)' = Size(m)
    BY <1>1, OthersKept
  <2>3. QED
    BY <1>6, <2>1, <2>2 DEF Sizes
<1>8. PICK s \in Int : s = SumOf(Sizes)
  BY <1>1, SizesType
<1>9. SumOf(Sizes') = s - before + (c + e)
  <2>1. Sizes \in Seq(Int) /\ n \in 1..Len(Sizes) /\ c + e \in Int /\ Sizes[n] = before
    <3>1. Sizes \in Seq(Int) /\ n \in 1..Len(Sizes)
      BY <1>1, SizesType
    <3>2. Sizes[n] = Size(n)
      BY DEF Sizes
    <3>3. c + e \in Int
      BY <1>5
    <3>4. Sizes[n] = before
      BY <1>4, <3>2
    <3>5. QED
      BY <3>1, <3>3, <3>4
  <2>2. PICK y \in Int : y = c + e
    BY <2>1
  <2>3. SumOf([Sizes EXCEPT ![n] = y]) = SumOf(Sizes) - Sizes[n] + y
    BY <2>1, SumOfUpdate
  <2>4. QED
    BY <1>7, <1>8, <2>1, <2>2, <2>3
<1>10. PICK b \in Int : b = miscounted /\ byte_counter = Word(s - b)
  BY <1>1, <1>8 DEF TypeOK, CounterFollowsContent
<1>11. byte_counter' = Word(byte_counter + (e - old))
  <2>1. byte_counter \in Int
    BY <1>1 DEF TypeOK
  <2>2. CASE tombstone
    <3>1. byte_counter' = Word(byte_counter - old) /\ e = 0
      BY <1>2, <1>5, <2>2 DEF UpdateVal, ValueOf
    <3>2. byte_counter - old = byte_counter + (e - old)
      BY <2>1, <3>1
    <3>3. QED
      BY <3>1, <3>2
  <2>3. CASE ~tombstone
    <3>1. byte_counter' = Word(byte_counter - old + e)
      BY <1>2, <1>5, <2>3 DEF UpdateVal, ValueOf
    <3>2. byte_counter - old + e = byte_counter + (e - old)
      BY <1>5, <2>1
    <3>3. QED
      BY <3>1, <3>2
  <2>4. QED
    BY <2>2, <2>3
<1>12. byte_counter' = Word((s - b) + (e - old))
  <2>1. PICK x \in Int, y \in Int : x = s - b /\ y = e - old
    BY <1>5
  <2>2. Word(Word(x) + y) = Word(x + y)
    BY WordFacts
  <2>3. QED
    BY <1>10, <1>11, <2>1, <2>2
<1>13. byte_counter' \in 0..(2^WordBits - 1)
  <2>1. (s - b) + (e - old) \in Int
    BY <1>5
  <2>2. QED
    BY <1>12, <2>1, WordFacts
<1>14. CASE HidesValue(n)
  <2>1. before = c /\ arena[n].val_index # 0 /\ old = val_data[arena[n].val_index]
    BY <1>1, <1>2, <1>4, <1>14, OldSizeFacts DEF HidesValue, INVALID_INDEX
  <2>2. miscounted' = Word(b + old)
    BY <1>10, <1>14, <2>1
  <2>3. PICK x \in Int, y \in Int : x = b + old /\ y = s + e
    BY <1>5
  <2>4. Word(y - Word(x)) = Word(y - x)
    BY WordFacts
  <2>5. y - x = (s - b) + (e - old) /\ SumOf(Sizes') = y
    BY <1>3, <1>4, <1>5, <1>9, <2>1, <2>3
  <2>6. miscounted' \in 0..(2^WordBits - 1)
    BY <2>2, <2>3, WordFacts
  <2>7. QED
    BY <1>12, <1>13, <2>2, <2>3, <2>4, <2>5, <2>6 DEF CounterFollowsContent
<1>15. CASE ~HidesValue(n)
  <2>1. before = c + old
    <3>1. arena[n].tombstone => arena[n].val_index = 0 /\ old = 0
      BY <1>1, <1>2, <1>15, OldSizeFacts DEF HidesValue, INVALID_INDEX
    <3>2. QED
      BY <1>2, <1>3, <1>4, <3>1
  <2>2. miscounted' = b
    BY <1>10, <1>15
  <2>3. SumOf(Sizes') - b = (s - b) + (e - old)
    BY <1>3, <1>4, <1>5, <1>9, <2>1
  <2>4. miscounted' \in 0..(2^WordBits - 1)
    BY <1>1, <1>10, <2>2 DEF TypeOK
  <2>5. QED
    BY <1>12, <1>13, <2>2, <2>3, <2>4 DEF CounterFollowsContent
<1>16. QED
  BY <1>14, <1>15

-----------------------------------------------------------------------------
(* An insertion under a key that is there.                                 *)

LEMMA UpdateStep ==
  ASSUME SInv, NEW tombstone \in BOOLEAN, NEW key \in Keys, NEW val \in Values,
         NEW n, n = AtOrAfter(key), arena[n].key = key,
         UpdateVal(n, tombstone, val), Record(tombstone, key, val)
  PROVE  SInv'
<1>1. Structure /\ Contents /\ TypeOK /\ key \in Nat
  BY LevelFacts DEF SInv, Structure
<1>2. /\ n \in DOMAIN arena
      /\ n # head => n \in Nodes
      /\ \A m \in Nodes : arena[m].key = key => m = n
      /\ n = head => key = EmptyKey /\ Nodes = {}
  BY <1>1, FindsTheNode
<1>3. PICK j \in Nat : SameButFor(n, tombstone, j) /\ ValueAt(n, tombstone, val, j)
  BY <1>1, <1>2, UpdateEffect
<1>4. /\ DOMAIN arena' = DOMAIN arena /\ Len(arena') = Len(arena)
      /\ \A m \in DOMAIN arena : /\ arena'[m].levels = arena[m].levels
                                 /\ arena'[m].next = arena[m].next
                                 /\ arena'[m].key = arena[m].key
                                 /\ m # n => arena'[m] = arena[m]
      /\ arena'[n].tombstone = tombstone /\ arena'[n].val_index = j
      /\ (arena \in Seq(Node))'
      /\ \A m \in DOMAIN arena : DOMAIN arena'[m].next = 0..arena'[m].levels
  BY <1>1, <1>2, <1>3, SameShape
<1>5. /\ entries' = [entries EXCEPT ![key] = Entry(tombstone, ValueOf(tombstone, val))]
      /\ miscounted' = IF HidesValue(n) THEN Word(miscounted + val_data[arena[n].val_index])
                       ELSE miscounted
  BY DEF Record
<1>6. /\ CounterFollowsContent'
      /\ byte_counter' \in 0..(2^WordBits - 1) /\ miscounted' \in 0..(2^WordBits - 1)
  BY <1>2, <1>3, <1>5, UpdateCounts
<1>7. TypeOK'
  BY <1>3, <1>4, <1>6 DEF TypeOK, ValueAt
<1>8. Structure'
  <2>1. TowersAreSorted'
    BY <1>1, <1>4, SortedKept DEF Structure
  <2>2. Nodes' = Nodes
    BY <1>4 DEF Nodes, head
  <2>3. /\ head \in DOMAIN arena' /\ arena'[head].levels = MAX_LVL
        /\ arena'[head].key = EmptyKey
    BY <1>1, <1>4 DEF Structure
  <2>4. /\ \A m \in Nodes : arena'[m].key \in Keys
        /\ \A m, p \in Nodes : arena'[m].key = arena'[p].key => m = p
    BY <1>1, <1>4 DEF Structure, Nodes
  <2>5. QED
    BY <1>7, <2>1, <2>2, <2>3, <2>4 DEF Structure, head, EmptyKey
<1>9. \A m \in DOMAIN arena : m # n => /\ Data(m)' = Data(m)
                                       /\ arena[m].val_index = j => j = 0
  BY <1>1, <1>2, <1>3, OthersKept
<1>10. Data(n)' = Entry(tombstone, ValueOf(tombstone, val))
  <2>1. CASE tombstone
    BY <1>4, <2>1 DEF Data, Entry, ValueOf
  <2>2. CASE ~tombstone
    BY <1>3, <1>4, <2>2 DEF Data, Entry, ValueAt, ValueOf
  <2>3. QED
    BY <2>1, <2>2
<1>11. Contents'
  <2>1. \A m \in DOMAIN arena' : arena'[m].tombstone \/ arena'[m].val_index # INVALID_INDEX
    <3>1. ASSUME NEW m \in DOMAIN arena
          PROVE  arena'[m].tombstone \/ arena'[m].val_index # 0
      <4>1. CASE m = n
        BY <1>3, <1>4, <4>1 DEF ValueAt
      <4>2. CASE m # n
        BY <1>1, <1>4, <4>2 DEF Contents, INVALID_INDEX
      <4>3. QED
        BY <4>1, <4>2
    <3>2. QED
      BY <1>4, <3>1 DEF INVALID_INDEX
  <2>2. \A m, p \in DOMAIN arena' :
          arena'[m].val_index = arena'[p].val_index => m = p \/ arena'[p].val_index = INVALID_INDEX
    <3>1. ASSUME NEW m \in DOMAIN arena, NEW p \in DOMAIN arena,
                 arena'[m].val_index = arena'[p].val_index, m # p
          PROVE  arena'[p].val_index = 0
      <4>1. CASE m # n /\ p # n
        BY <1>1, <1>4, <3>1, <4>1 DEF Contents, INVALID_INDEX
      <4>2. CASE m = n
        BY <1>4, <1>9, <3>1, <4>2
      <4>3. CASE p = n
        BY <1>4, <1>9, <3>1, <4>3
      <4>4. QED
        BY <4>1, <4>2, <4>3
    <3>2. QED
      BY <1>4, <3>1 DEF INVALID_INDEX
  <2>3. entries' = [k \in Keys |-> entries'[k]] /\ entries'[key] = Entry(tombstone, ValueOf(tombstone, val))
        /\ \A k \in Keys : k # key => entries'[k] = entries[k]
    BY <1>1, <1>5 DEF Contents
  <2>4. Nodes' = Nodes
    BY <1>4 DEF Nodes, head
  <2>5. ASSUME NEW m \in Nodes
        PROVE  entries'[arena'[m].key] = Data(m)'
    <3>1. CASE m = n
      BY <1>2, <1>4, <1>10, <2>3, <3>1
    <3>2. CASE m # n
      <4>1. arena'[m].key = arena[m].key /\ arena[m].key # key /\ arena[m].key \in Keys
            /\ m \in DOMAIN arena
        BY <1>1, <1>2, <1>4, <3>2 DEF Nodes, Structure
      <4>2. QED
        BY <1>1, <1>9, <2>3, <3>2, <4>1 DEF Contents
    <3>3. QED
      BY <3>1, <3>2
  <2>6. ASSUME NEW k \in Keys \ {EmptyKey}, \A m \in Nodes : arena'[m].key # k
        PROVE  entries'[k] = NotFound
    <3>1. \A m \in Nodes : arena[m].key # k
      BY <1>4, <2>6 DEF Nodes
    <3>2. k # key
      BY <1>2, <3>1
    <3>3. QED
      BY <1>1, <2>3, <3>1, <3>2 DEF Contents
  <2>7. QED
    BY <2>1, <2>2, <2>3, <2>4, <2>5, <2>6 DEF Contents, EmptyKey, INVALID_INDEX
<1>12. QED
  BY <1>6, <1>8, <1>11 DEF SInv

-----------------------------------------------------------------------------
(* SkipList::constructNode and the links of insert.                        *)

LEMMA RecordRelink ==
  ASSUME NEW A, NEW B, NEW C, NEW D, NEW E,
         NEW r \in [levels : A, next : B, tombstone : C, key : D, val_index : E],
         NEW F, NEW x \in F,
         NEW u, u = [r EXCEPT !.next = x]
  PROVE  /\ u \in [levels : A, next : F, tombstone : C, key : D, val_index : E]
         /\ u.levels = r.levels /\ u.next = x /\ u.key = r.key
         /\ u.tombstone = r.tombstone /\ u.val_index = r.val_index
  OBVIOUS

LEMMA AddEffect ==
  ASSUME Structure, NEW tombstone \in BOOLEAN, NEW key \in Keys, NEW val \in Values,
         NEW max_level \in Levels, AddNode(tombstone, key, val, max_level),
         NEW pred, pred = Predecessors(key), NEW new, new = Len(arena) + 1
  PROVE  /\ new \in Nat /\ DOMAIN arena' = 1..new /\ Len(arena') = new
         /\ DOMAIN arena = 1..(new - 1) /\ new \notin DOMAIN arena /\ new # head
         /\ \A m \in DOMAIN arena :
              /\ arena'[m].levels = arena[m].levels /\ arena'[m].key = arena[m].key
              /\ arena'[m].tombstone = arena[m].tombstone
              /\ arena'[m].val_index = arena[m].val_index
              /\ \A i \in 0..arena[m].levels :
                   arena'[m].next[i] = IF i <= max_level /\ pred[i] = m THEN new
                                       ELSE arena[m].next[i]
         /\ arena'[new].levels = max_level /\ arena'[new].key = key
         /\ arena'[new].tombstone = tombstone
         /\ arena'[new].val_index = IF tombstone THEN 0 ELSE Len(val_data) + 1
         /\ \A i \in 0..max_level : arena'[new].next[i] = arena[pred[i]].next[i]
         /\ (arena \in Seq(Node))'
         /\ \A m \in DOMAIN arena' : DOMAIN arena'[m].next = 0..arena'[m].levels
<1>1. /\ arena \in Seq(Node) /\ Len(arena) \in Nat /\ DOMAIN arena = 1..Len(arena)
      /\ val_data \in Seq(Values) /\ Len(val_data) \in Nat
  BY DEF Structure, TypeOK
<1>2. PICK len \in Nat : len = Len(arena) /\ new = len + 1 /\ DOMAIN arena = 1..len
  BY <1>1
<1>3. head \in 1..len /\ head = 1 /\ new \in Nat /\ new # head
  BY <1>2 DEF Structure, head
<1>4. key \in Nat /\ max_level \in 0..MAX_LVL /\ MAX_LVL \in Nat
  BY LevelFacts
<1>5. ASSUME NEW i \in 0..max_level
      PROVE  i \in Levels /\ pred[i] \in Tower(i) /\ arena[pred[i]].next[i] \in DOMAIN arena
  <2>1. i \in Levels
    BY <1>4, LevelFacts
  <2>2. pred[i] \in Tower(i)
    BY <1>4, <2>1, PredecessorsAreLast DEF IsLast, Below
  <2>3. QED
    BY <2>1, <2>2, LinkFacts, TowerFacts
<1> DEFINE nx(m) == [i \in DOMAIN arena[m].next |->
                       IF Linked(i, max_level) /\ pred[i] = m THEN new ELSE arena[m].next[i]]
           rel == [m \in DOMAIN arena |-> [arena[m] EXCEPT !.next = nx(m)]]
           node == [levels |-> max_level,
                    next |-> [i \in 0..max_level |-> arena[pred[i]].next[i]],
                    tombstone |-> tombstone, key |-> key,
                    val_index |-> IF tombstone THEN INVALID_INDEX ELSE Len(val_data) + 1]
<1>6. arena' = Append(rel, node)
  BY <1>2 DEF AddNode
<1>7. PICK vl \in Nat : /\ vl = Len(val_data') /\ vl >= Len(val_data)
                        /\ ~tombstone => vl = Len(val_data) + 1
  <2>1. val_data' = IF tombstone THEN val_data ELSE Append(val_data, val)
    BY DEF AddNode
  <2>2. QED
    BY <1>1, <2>1
<1>8. PICK F : F = UNION {[0..l -> 1..new] : l \in Levels}
  OBVIOUS
<1>9. PICK S : S = [levels : Levels, next : F, tombstone : BOOLEAN,
                    key : Keys \union {EmptyKey}, val_index : 0..vl]
  OBVIOUS
<1>10. ASSUME NEW m \in DOMAIN arena
       PROVE  /\ nx(m) \in [0..arena[m].levels -> 1..new]
              /\ \A i \in 0..arena[m].levels :
                   nx(m)[i] = IF i <= max_level /\ pred[i] = m THEN new ELSE arena[m].next[i]
  <2>1. arena[m].next \in [0..arena[m].levels -> DOMAIN arena]
    BY NodeFacts DEF Structure
  <2>2. DOMAIN arena \subseteq 1..new /\ new \in 1..new
    BY <1>2
  <2>3. QED
    BY <2>1, <2>2 DEF Linked
<1>11. ASSUME NEW m \in DOMAIN arena
       PROVE  /\ rel[m] \in S /\ rel[m].next = nx(m)
              /\ rel[m].levels = arena[m].levels /\ rel[m].key = arena[m].key
              /\ rel[m].tombstone = arena[m].tombstone /\ rel[m].val_index = arena[m].val_index
  <2>1. PICK x : x = nx(m)
    OBVIOUS
  <2>2. arena[m].levels \in Levels
    BY NodeFacts, LevelFacts DEF Structure
  <2>3. x \in F
    BY <1>8, <1>10, <2>1, <2>2
  <2>4. arena[m] \in [levels : Levels, next : UNION {[0..l -> DOMAIN arena] : l \in Levels},
                      tombstone : BOOLEAN, key : Keys \union {EmptyKey}, val_index : 0..vl]
    <3>1. arena[m] \in Node
      BY <1>1
    <3>2. 0..Len(val_data) \subseteq 0..vl
      BY <1>1, <1>7
    <3>3. QED
      BY <3>1, <3>2 DEF Node
  <2>5. PICK u : u = [arena[m] EXCEPT !.next = x]
    OBVIOUS
  <2>6. /\ u \in S /\ u.next = x
        /\ u.levels = arena[m].levels /\ u.key = arena[m].key
        /\ u.tombstone = arena[m].tombstone /\ u.val_index = arena[m].val_index
    BY <1>9, <2>3, <2>4, <2>5, RecordRelink
  <2>7. rel[m] = u
    BY <2>1, <2>5
  <2>8. QED
    BY <2>1, <2>6, <2>7
<1>12. /\ node \in S /\ node.levels = max_level /\ node.key = key /\ node.tombstone = tombstone
       /\ node.val_index = IF tombstone THEN 0 ELSE Len(val_data) + 1
       /\ \A i \in 0..max_level : node.next[i] = arena[pred[i]].next[i]
       /\ DOMAIN node.next = 0..max_level
  <2>1. PICK x : x = [i \in 0..max_level |-> arena[pred[i]].next[i]]
    OBVIOUS
  <2>2. x \in [0..max_level -> 1..new]
    <3>1. \A i \in 0..max_level : arena[pred[i]].next[i] \in 1..new
      BY <1>2, <1>5
    <3>2. QED
      BY <2>1, <3>1
  <2>3. x \in F
    BY <1>8, <2>2
  <2>4. (IF tombstone THEN INVALID_INDEX ELSE Len(val_data) + 1) \in 0..vl
    BY <1>1, <1>7 DEF INVALID_INDEX
  <2>5. [levels |-> max_level, next |-> x, tombstone |-> tombstone, key |-> key,
         val_index |-> IF tombstone THEN INVALID_INDEX ELSE Len(val_data) + 1] \in S
    BY <1>9, <2>3, <2>4
  <2>6. QED
    BY <2>1, <2>5 DEF INVALID_INDEX
<1>13. rel \in Seq(S) /\ Len(rel) = len
  <2>1. PICK R : R = rel
    OBVIOUS
  <2>2. R = [m \in 1..len |-> R[m]] /\ \A m \in 1..len : R[m] \in S
    BY <1>2, <1>11, <2>1
  <2>3. R \in Seq(S) /\ Len(R) = len
    BY ONLY <2>2, len \in Nat
  <2>4. QED
    BY <2>1, <2>3
<1>14. /\ arena' \in Seq(S) /\ Len(arena') = new /\ DOMAIN arena' = 1..new
       /\ arena'[new] = node /\ \A m \in DOMAIN arena : arena'[m] = rel[m]
  <2> HIDE DEF rel, node
  <2>1. QED
    BY <1>2, <1>6, <1>12, <1>13
<1>15. Node' = S
  BY <1>7, <1>8, <1>9, <1>14 DEF Node, Levels
<1>16. ASSUME NEW m \in DOMAIN arena'
       PROVE  DOMAIN arena'[m].next = 0..arena'[m].levels
  <2> HIDE DEF rel, node, nx
  <2>1. CASE m = new
    BY <1>12, <1>14, <2>1
  <2>2. CASE m # new
    <3>1. m \in DOMAIN arena
      BY <1>2, <1>14, <2>2
    <3>2. QED
      BY <1>10, <1>11, <1>14, <3>1
  <2>3. QED
    BY <2>1, <2>2
<1>17. QED
  <2> HIDE DEF rel, node, nx
  <2>1. \A m \in DOMAIN arena :
              /\ arena'[m].levels = arena[m].levels /\ arena'[m].key = arena[m].key
              /\ arena'[m].tombstone = arena[m].tombstone
              /\ arena'[m].val_index = arena[m].val_index
              /\ \A i \in 0..arena[m].levels :
                   arena'[m].next[i] = IF i <= max_level /\ pred[i] = m THEN new
                                       ELSE arena[m].next[i]
    BY <1>10, <1>11, <1>14
  <2>2. /\ arena'[new].levels = max_level /\ arena'[new].key = key
        /\ arena'[new].tombstone = tombstone
        /\ arena'[new].val_index = IF tombstone THEN 0 ELSE Len(val_data) + 1
        /\ \A i \in 0..max_level : arena'[new].next[i] = arena[pred[i]].next[i]
    BY <1>12, <1>14
  <2>3. new \in Nat /\ DOMAIN arena = 1..(new - 1) /\ new \notin DOMAIN arena /\ new # head
    BY <1>2, <1>3
  <2>4. QED
    BY <1>14, <1>15, <1>16, <2>1, <2>2, <2>3

(* What AddEffect establishes of the arena, for the lemmas below.          *)
Added(tombstone, key, max_level, pred, new) ==
  /\ new \in Nat /\ DOMAIN arena' = 1..new /\ Len(arena') = new
  /\ DOMAIN arena = 1..(new - 1) /\ new \notin DOMAIN arena /\ new # head
  /\ \A m \in DOMAIN arena :
       /\ arena'[m].levels = arena[m].levels /\ arena'[m].key = arena[m].key
       /\ arena'[m].tombstone = arena[m].tombstone
       /\ arena'[m].val_index = arena[m].val_index
       /\ \A i \in 0..arena[m].levels :
            arena'[m].next[i] = IF i <= max_level /\ pred[i] = m THEN new
                                ELSE arena[m].next[i]
  /\ arena'[new].levels = max_level /\ arena'[new].key = key
  /\ arena'[new].tombstone = tombstone
  /\ arena'[new].val_index = IF tombstone THEN 0 ELSE Len(val_data) + 1
  /\ \A i \in 0..max_level : arena'[new].next[i] = arena[pred[i]].next[i]

(* What TowersAreSorted will say of a link from n to x among the nodes T.  *)
LinkAmong(T, n, x) ==
  /\ x \in T
  /\ x = head => \A m \in T \ {head} : n # head /\ arena'[m].key <= arena'[n].key
  /\ x # head => /\ n = head \/ arena'[x].key > arena'[n].key
                 /\ \A m \in T \ {head} :
                      n = head \/ arena'[m].key > arena'[n].key =>
                        m = x \/ arena'[m].key > arena'[x].key

(* One link after the insertion, when the tower of the new node reaches    *)
(* the level: the new node goes between its predecessor and what followed. *)
LEMMA LinkAfterAdd ==
  ASSUME Structure, NEW tombstone, NEW key \in Keys, NEW max_level \in Levels,
         NEW pred, pred = Predecessors(key), NEW new,
         Added(tombstone, key, max_level, pred, new),
         \A m \in Nodes : arena[m].key # key,
         NEW i \in 0..max_level, NEW n \in Tower(i) \union {new},
         NEW x, x = arena'[n].next[i]
  PROVE  LinkAmong(Tower(i) \union {new}, n, x)
<1> USE DEF LinkAmong
<1>1. i \in Levels /\ key \in Nat
  BY LevelFacts
<1>2. PICK p, y : p = pred[i] /\ y = arena[p].next[i]
  OBVIOUS
<1>3. IsLast(key, i, p)
  BY <1>1, <1>2, PredecessorsAreLast
<1>4. p \in Tower(i) /\ (p = head \/ arena[p].key < key) /\ ~(y # head /\ arena[y].key < key)
  BY <1>2, <1>3 DEF IsLast, Below, Precedes
<1>5. /\ y \in Tower(i)
      /\ y = head => \A m \in Tower(i) \ {head} : p # head /\ arena[m].key <= arena[p].key
      /\ y # head => /\ p = head \/ arena[y].key > arena[p].key
                     /\ \A m \in Tower(i) \ {head} :
                          p = head \/ arena[m].key > arena[p].key =>
                            m = y \/ arena[m].key > arena[y].key
  BY <1>1, <1>2, <1>4, LinkFacts, SMTT(30)
<1>6. /\ head \in Tower(i) /\ Tower(i) \subseteq DOMAIN arena /\ new \notin Tower(i) /\ new # head
      /\ \A m \in Tower(i) : arena[m].key \in Nat /\ arena'[m].key = arena[m].key
      /\ arena'[new].key = key
  BY <1>1, TowerFacts DEF Added
<1>7. \A m \in Tower(i) \ {head} : arena[m].key # key
  BY <1>6 DEF Nodes
<1>8. y # head => arena[y].key > key
  BY <1>1, <1>4, <1>5, <1>6, <1>7
<1>9. PICK K : /\ \A m \in Tower(i) : K[m] = arena[m].key /\ K[m] = arena'[m].key /\ K[m] \in Nat
               /\ K[new] = key /\ K[new] = arena'[new].key
  <2>1. \A m \in Tower(i) \union {new} : [z \in Tower(i) \union {new} |-> arena'[z].key][m] = arena'[m].key
    OBVIOUS
  <2>2. QED
    BY <1>6, <2>1
<1>10. ASSUME NEW m \in Tower(i)
       PROVE  arena'[m].next[i] = IF p = m THEN new ELSE arena[m].next[i]
  <2>1. m \in DOMAIN arena /\ i \in 0..arena[m].levels /\ i <= max_level
    <3>1. m \in DOMAIN arena /\ arena[m].levels >= i
      BY DEF Tower
    <3>2. arena[m].levels \in Nat
      BY <3>1, NodeFacts DEF Structure
    <3>3. QED
      BY <1>1, <3>1, <3>2, LevelFacts
  <2>2. QED
    BY <1>2, <2>1 DEF Added
<1>11. CASE n = new
  <2>1. x = y
    BY <1>2, <1>11 DEF Added
  <2>2. CASE y = head
    <3>1. \A m \in Tower(i) \ {head} : K[m] <= key
      BY <1>1, <1>4, <1>5, <1>9, <2>2
    <3>2. QED
      BY <1>1, <1>6, <1>9, <1>11, <2>1, <2>2, <3>1
  <2>3. CASE y # head
    <3>1. \A m \in Tower(i) \ {head} : K[m] > key => m = y \/ K[m] > K[y]
      BY <1>1, <1>4, <1>5, <1>9, <2>3
    <3>2. K[y] > key
      BY <1>5, <1>8, <1>9, <2>3
    <3>3. QED
      BY <1>1, <1>5, <1>6, <1>9, <1>11, <2>1, <2>3, <3>1, <3>2
  <2>4. QED
    BY <2>2, <2>3
<1>12. CASE n = p
  <2>1. x = new
    BY <1>4, <1>10, <1>12
  <2>2. ASSUME NEW m \in Tower(i) \ {head}, p = head \/ K[m] > K[p]
        PROVE  K[m] > key
    <3>1. y # head
      BY <1>4, <1>5, <1>9, <2>2
    <3>2. m = y \/ K[m] > K[y]
      BY <1>4, <1>5, <1>9, <2>2, <3>1
    <3>3. K[y] > key /\ K[y] \in Nat /\ K[m] \in Nat
      BY <1>5, <1>8, <1>9, <3>1
    <3>4. QED
      BY <1>1, <3>2, <3>3
  <2>3. p = head \/ key > K[p]
    BY <1>1, <1>4, <1>9
  <2>4. QED
    BY <1>4, <1>6, <1>9, <1>12, <2>1, <2>2, <2>3
<1>13. CASE n # p /\ n # new
  <2>0. n \in Tower(i)
    BY <1>13
  <2>1. x = arena[n].next[i]
    BY <1>10, <1>13, <2>0
  <2>2. /\ x \in Tower(i)
        /\ x = head => \A m \in Tower(i) \ {head} : n # head /\ K[m] <= K[n]
        /\ x # head => /\ n = head \/ K[x] > K[n]
                       /\ \A m \in Tower(i) \ {head} :
                            n = head \/ K[m] > K[n] => m = x \/ K[m] > K[x]
    <3>1. /\ x \in Tower(i)
          /\ x = head => \A m \in Tower(i) \ {head} : n # head /\ arena[m].key <= arena[n].key
          /\ x # head => /\ n = head \/ arena[x].key > arena[n].key
                         /\ \A m \in Tower(i) \ {head} :
                              n = head \/ arena[m].key > arena[n].key =>
                                m = x \/ arena[m].key > arena[x].key
      BY <1>1, <2>0, <2>1, LinkFacts
    <3>2. QED
      BY <1>9, <2>0, <3>1
  <2>3. CASE n = head \/ K[n] < key
    <3>1. Below(key, i, n)
      BY <1>9, <2>0, <2>3 DEF Below
    <3>2. ~IsLast(key, i, n)
      BY <1>1, <1>3, <1>13, LastIsUnique
    <3>3. x # head /\ Below(key, i, x)
      BY <1>1, <2>1, <3>1, <3>2, NextBelow
    <3>4. K[x] < key
      BY <1>9, <2>2, <3>3 DEF Below
    <3>5. QED
      BY <1>1, <1>6, <1>9, <2>0, <2>2, <3>3, <3>4
  <2>4. CASE n # head /\ ~(K[n] < key)
    <3>1. K[n] > key
      BY <1>1, <1>7, <1>9, <2>0, <2>4
    <3>2. QED
      BY <1>1, <1>6, <1>9, <2>0, <2>2, <2>4, <3>1
  <2>5. QED
    BY <2>3, <2>4
<1>14. QED
  BY <1>11, <1>12, <1>13

LEMMA SortedAfterAdd ==
  ASSUME Structure, NEW tombstone, NEW key \in Keys, NEW max_level \in Levels,
         NEW pred, pred = Predecessors(key), NEW new,
         Added(tombstone, key, max_level, pred, new),
         \A m \in Nodes : arena[m].key # key
  PROVE  TowersAreSorted'
<1> DEFINE at1(i, n) == {m \in DOMAIN arena' \ {head} :
             m # n /\ arena'[m].levels >= i /\ (n = head \/ arena'[m].key > arena'[n].key)}
<1>1. ASSUME NEW i \in Levels, NEW n \in DOMAIN arena', arena'[n].levels >= i
      PROVE  \/ at1(i, n) = {} /\ arena'[n].next[i] = head
             \/ /\ arena'[n].next[i] \in at1(i, n)
                /\ \A m \in at1(i, n) :
                     m = arena'[n].next[i] \/ arena'[m].key > arena'[arena'[n].next[i]].key
  <2>1. PICK x : x = arena'[n].next[i]
    OBVIOUS
  <2>2. PICK T : T = {m \in DOMAIN arena' : arena'[m].levels >= i}
    OBVIOUS
  <2>3. T = IF i <= max_level THEN Tower(i) \union {new} ELSE Tower(i)
    <3>1. /\ DOMAIN arena' = DOMAIN arena \union {new} /\ arena'[new].levels = max_level
          /\ \A m \in DOMAIN arena : arena'[m].levels = arena[m].levels
      BY DEF Added
    <3>2. max_level >= i <=> i <= max_level
      BY LevelFacts
    <3>3. QED
      BY <2>2, <3>1, <3>2 DEF Tower
  <2>4. \A m \in T : arena'[m].key \in Nat
    <3>1. \A m \in Tower(i) : arena'[m].key \in Nat
      BY TowerFacts DEF Added
    <3>2. arena'[new].key \in Nat
      BY LevelFacts DEF Added
    <3>3. QED
      BY <2>3, <3>1, <3>2
  <2>5. LinkAmong(T, n, x)
    <3>1. CASE i <= max_level
      <4>1. i \in 0..max_level /\ T = Tower(i) \union {new} /\ n \in T
        BY <1>1, <2>2, <2>3, <3>1, LevelFacts
      <4>2. n \in Tower(i) \union {new}
        BY <4>1
      <4>3. LinkAmong(Tower(i) \union {new}, n, x)
        BY <2>1, <4>1, <4>2, LinkAfterAdd
      <4>4. QED
        BY <4>1, <4>3
    <3>2. CASE ~(i <= max_level)
      <4>1. T = Tower(i) /\ n \in Tower(i)
        BY <1>1, <2>2, <2>3, <3>2
      <4>2. n \in DOMAIN arena /\ i \in 0..arena[n].levels
        <5>1. n \in DOMAIN arena /\ arena[n].levels >= i
          BY <4>1 DEF Tower
        <5>2. arena[n].levels \in Nat
          BY <5>1, NodeFacts DEF Structure
        <5>3. QED
          BY <5>1, <5>2, LevelFacts
      <4>3. x = arena[n].next[i]
        BY <2>1, <3>2, <4>2 DEF Added
      <4>4. /\ x \in Tower(i)
            /\ x = head => \A m \in Tower(i) \ {head} : n # head /\ arena[m].key <= arena[n].key
            /\ x # head => /\ n = head \/ arena[x].key > arena[n].key
                           /\ \A m \in Tower(i) \ {head} :
                                n = head \/ arena[m].key > arena[n].key =>
                                  m = x \/ arena[m].key > arena[x].key
        BY <4>1, <4>3, LinkFacts
      <4>5. \A m \in Tower(i) : arena'[m].key = arena[m].key
        BY DEF Tower, Added
      <4>6. QED
        BY <4>1, <4>4, <4>5 DEF LinkAmong
    <3>3. QED
      BY <3>1, <3>2
  <2>6. \A m : m \in at1(i, n) <=> /\ m \in T \ {head} /\ m # n
                                   /\ (n = head \/ arena'[m].key > arena'[n].key)
    BY <2>2
  <2>7. n \in T
    BY <1>1, <2>2
  <2>8. CASE x = head
    <3>1. at1(i, n) = {}
      BY <2>4, <2>5, <2>6, <2>7, <2>8 DEF LinkAmong
    <3>2. QED
      BY <2>1, <2>8, <3>1
  <2>9. CASE x # head
    <3>1. x # n
      BY <2>4, <2>5, <2>7, <2>9 DEF LinkAmong
    <3>2. x \in at1(i, n) /\ \A m \in at1(i, n) : m = x \/ arena'[m].key > arena'[x].key
      <4> HIDE DEF at1
      <4>1. QED
        BY <2>5, <2>6, <2>9, <3>1 DEF LinkAmong
    <3>3. QED
      BY <2>1, <3>2
  <2>10. QED
    BY <2>8, <2>9
<1>2. QED
  BY <1>1 DEF TowersAreSorted, Levels, head

(* An insertion under a new key.                                           *)
LEMMA AddStep ==
  ASSUME SInv, NEW tombstone \in BOOLEAN, NEW key \in Keys, NEW val \in Values,
         NEW n, n = AtOrAfter(key), arena[n].key # key,
         NEW max_level \in Levels, AddNode(tombstone, key, val, max_level),
         Record(tombstone, key, val)
  PROVE  SInv'
<1>1. Structure /\ Contents /\ CounterFollowsContent /\ TypeOK /\ key \in Nat /\ val \in Nat
  BY LevelFacts DEF SInv, Structure
<1>2. \A m \in Nodes : arena[m].key # key
  BY <1>1, FindsTheNode
<1>3. PICK pred : pred = Predecessors(key)
  OBVIOUS
<1>4. PICK new : new = Len(arena) + 1
  OBVIOUS
<1>5. /\ Added(tombstone, key, max_level, pred, new)
      /\ (arena \in Seq(Node))'
      /\ \A m \in DOMAIN arena' : DOMAIN arena'[m].next = 0..arena'[m].levels
  BY <1>1, <1>3, <1>4, AddEffect DEF Added
<1>6. /\ val_data' = IF tombstone THEN val_data ELSE Append(val_data, val)
      /\ byte_counter' = Word(byte_counter + KeySize(key) + val)
      /\ entries' = [entries EXCEPT ![key] = Entry(tombstone, ValueOf(tombstone, val))]
      /\ miscounted' = IF tombstone THEN Word(miscounted - val) ELSE miscounted
  BY DEF AddNode, Record
<1>7. PICK vl \in Nat : vl = Len(val_data)
  BY <1>1 DEF TypeOK
<1>8. /\ val_data' \in Seq(Values) /\ \A v \in 1..vl : val_data'[v] = val_data[v]
      /\ ~tombstone => val_data'[vl + 1] = val
  BY <1>1, <1>6, <1>7 DEF TypeOK
<1>9. \A m \in DOMAIN arena : arena[m].val_index \in 0..vl
  BY <1>1, <1>7, StoredValue
<1>10. /\ DOMAIN arena' = DOMAIN arena \union {new} /\ new \notin DOMAIN arena
       /\ Nodes' = Nodes \union {new} /\ head \in DOMAIN arena /\ new # head
  BY <1>1, <1>5 DEF Added, Nodes, head, Structure
<1>11. /\ arena'[new].levels = max_level /\ arena'[new].key = key
       /\ arena'[new].tombstone = tombstone
       /\ arena'[new].val_index = IF tombstone THEN 0 ELSE vl + 1
       /\ \A m \in DOMAIN arena :
            /\ arena'[m].levels = arena[m].levels /\ arena'[m].key = arena[m].key
            /\ arena'[m].tombstone = arena[m].tombstone
            /\ arena'[m].val_index = arena[m].val_index
  BY <1>5, <1>7 DEF Added
<1>12. \A m \in DOMAIN arena : Data(m)' = Data(m)
  <2>1. TAKE m \in DOMAIN arena
  <2>2. PICK v \in 0..vl : v = arena[m].val_index /\ v = arena'[m].val_index
    BY <1>9, <1>11
  <2>3. arena'[m].tombstone = arena[m].tombstone /\ (~arena[m].tombstone => v # 0)
    BY <1>1, <1>11, <2>2, StoredValue
  <2>4. v # 0 => val_data'[v] = val_data[v]
    BY <1>8
  <2>5. CASE arena[m].tombstone
    BY <2>3, <2>5 DEF Data
  <2>6. CASE ~arena[m].tombstone
    BY <2>2, <2>3, <2>4, <2>6 DEF Data
  <2>7. QED
    BY <2>5, <2>6
<1>13. Data(new)' = Entry(tombstone, ValueOf(tombstone, val))
  <2>1. CASE tombstone
    BY <1>1, <1>11, <2>1 DEF Data, Entry, ValueOf
  <2>2. CASE ~tombstone
    BY <1>8, <1>11, <2>2 DEF Data, Entry, ValueOf
  <2>3. QED
    BY <2>1, <2>2
<1>14. Contents'
  <2>1. \A m \in DOMAIN arena' : arena'[m].tombstone \/ arena'[m].val_index # INVALID_INDEX
    BY <1>1, <1>7, <1>10, <1>11 DEF Contents, INVALID_INDEX
  <2>2. ASSUME NEW m \in DOMAIN arena', NEW q \in DOMAIN arena',
               arena'[m].val_index = arena'[q].val_index
        PROVE  m = q \/ arena'[q].val_index = INVALID_INDEX
    <3>1. CASE m \in DOMAIN arena /\ q \in DOMAIN arena
      BY <1>1, <1>11, <2>2, <3>1 DEF Contents
    <3>2. CASE m = new /\ q = new
      BY <3>2
    <3>3. CASE (m = new /\ q \in DOMAIN arena) \/ (m \in DOMAIN arena /\ q = new)
      <4>1. PICK r \in DOMAIN arena, v \in 0..vl :
              v = arena[r].val_index /\ v = arena'[m].val_index /\ v = arena'[q].val_index
              /\ v = IF tombstone THEN 0 ELSE vl + 1
        BY <1>9, <1>11, <2>2, <3>3
      <4>2. v = 0
        BY <1>7, <4>1
      <4>3. QED
        BY <4>1, <4>2 DEF INVALID_INDEX
    <3>4. QED
      BY <1>10, <3>1, <3>2, <3>3
  <2>3. entries' = [k \in Keys |-> entries'[k]] /\ entries'[key] = Entry(tombstone, ValueOf(tombstone, val))
        /\ \A k \in Keys : k # key => entries'[k] = entries[k]
    BY <1>1, <1>6 DEF Contents
  <2>4. ASSUME NEW m \in Nodes'
        PROVE  entries'[arena'[m].key] = Data(m)'
    <3>1. CASE m = new
      BY <1>11, <1>13, <2>3, <3>1
    <3>2. CASE m \in Nodes
      <4>1. m \in DOMAIN arena /\ arena'[m].key = arena[m].key /\ arena[m].key # key
            /\ arena[m].key \in Keys
        BY <1>1, <1>2, <1>11, <3>2 DEF Nodes, Structure
      <4>2. QED
        BY <1>1, <1>12, <2>3, <3>2, <4>1 DEF Contents
    <3>3. QED
      BY <1>10, <3>1, <3>2
  <2>5. ASSUME NEW k \in Keys \ {EmptyKey}, \A m \in Nodes' : arena'[m].key # k
        PROVE  entries'[k] = NotFound
    <3>1. k # key
      BY <1>10, <1>11, <2>5
    <3>2. \A m \in Nodes : arena[m].key # k
      BY <1>10, <1>11, <2>5 DEF Nodes
    <3>3. QED
      BY <1>1, <2>3, <3>1, <3>2 DEF Contents
  <2>6. QED
    BY <2>1, <2>2, <2>3, <2>4, <2>5 DEF Contents, EmptyKey, INVALID_INDEX
<1>15. PICK c \in Nat, e \in Nat : c = KeySize(key) /\ e = ValueOf(tombstone, val)
  BY <1>1 DEF KeySize, ValueOf
<1>16. Sizes' = Append(Sizes, c + e)
  <2>1. \A m \in DOMAIN arena : Size(m)' = Size(m)
    BY <1>11, <1>12 DEF Size, KeySize, EmptyKey
  <2>2. Size(new)' = c + e
    <3>1. Data(new)'.val = e
      BY <1>13, <1>15 DEF Entry
    <3>2. Size(new)' = c + (IF tombstone THEN 0 ELSE e)
      BY <1>11, <1>15, <3>1 DEF Size, KeySize, EmptyKey
    <3>3. QED
      BY <1>15, <3>2 DEF ValueOf
  <2>3. Sizes' = [m \in DOMAIN arena' |-> IF m = new THEN c + e ELSE Size(m)]
    BY <1>10, <2>1, <2>2 DEF Sizes
  <2>4. DOMAIN arena' = 1..new /\ DOMAIN arena = 1..(new - 1) /\ new \in Nat
    BY <1>5 DEF Added
  <2>5. PICK s \in Seq(Int) : /\ s = Sizes /\ DOMAIN s = 1..(new - 1) /\ Len(s) = new - 1
                              /\ \A m \in 1..(new - 1) : s[m] = Size(m)
    <3>1. Sizes \in Seq(Int)
      BY <1>1, SizesType
    <3>2. Sizes = [m \in 1..(new - 1) |-> Size(m)]
      BY <2>4 DEF Sizes
    <3>3. QED
      BY <1>1, <1>4, <3>1, <3>2, SizesType
  <2>6. Append(s, c + e) = [m \in 1..new |-> IF m = new THEN c + e ELSE s[m]]
    BY <2>4, <2>5
  <2>7. [m \in 1..new |-> IF m = new THEN c + e ELSE s[m]]
          = [m \in 1..new |-> IF m = new THEN c + e ELSE Size(m)]
    BY <2>4, <2>5
  <2>8. QED
    BY <2>3, <2>4, <2>5, <2>6, <2>7
<1>17. PICK t \in Int, b \in Nat, d \in Int, f \in Int :
         /\ t = SumOf(Sizes) /\ b = miscounted /\ d = c + val /\ f = c + e
         /\ byte_counter = Word(t - b) /\ SumOf(Sizes') = t + f
         /\ byte_counter' = Word(byte_counter + d)
  <2>1. Sizes \in Seq(Int) /\ SumOf(Sizes) \in Int /\ c + val \in Int /\ c + e \in Int
    BY <1>1, <1>15, SizesType
  <2>2. PICK d \in Int, f \in Int : d = c + val /\ f = c + e
    BY <2>1
  <2>3. SumOf(Sizes') = SumOf(Sizes) + f
    BY <1>16, <2>1, <2>2, SumOfAppend
  <2>4. byte_counter \in Nat /\ miscounted \in Nat
    BY <1>1, WordFacts DEF TypeOK
  <2>5. byte_counter + c + val = byte_counter + d
    BY <1>1, <2>2, <2>4
  <2>6. byte_counter' = Word(byte_counter + d)
    BY <1>6, <1>15, <2>5
  <2>7. QED
    BY <1>1, <2>1, <2>2, <2>3, <2>4, <2>6 DEF CounterFollowsContent
<1>18. byte_counter' = Word(t + d - b) /\ byte_counter' \in 0..(2^WordBits - 1)
  <2>1. PICK x \in Int, y \in Int : x = t - b /\ y = x + d /\ y = t + d - b
    OBVIOUS
  <2>2. Word(Word(x) + d) = Word(y) /\ Word(y) \in 0..(2^WordBits - 1)
    <3>1. Word(Word(x) + d) = Word(x + d)
      BY WordFacts
    <3>2. Word(y) \in 0..(2^WordBits - 1)
      BY WordFacts
    <3>3. QED
      BY <2>1, <3>1, <3>2
  <2>3. QED
    BY <1>17, <2>1, <2>2
<1>19. CounterFollowsContent' /\ miscounted' \in 0..(2^WordBits - 1)
  <2>1. CASE tombstone
    <3>1. PICK x \in Int, y \in Int : x = b - val /\ y = t + f
      BY <1>1
    <3>2. Word(y - Word(x)) = Word(y - x) /\ Word(x) \in 0..(2^WordBits - 1)
      BY WordFacts
    <3>3. y - x = t + d - b
      <4>1. e = 0
        BY <1>15, <2>1 DEF ValueOf
      <4>2. QED
        BY <1>1, <1>15, <1>17, <3>1, <4>1
    <3>4. miscounted' = Word(x)
      BY <1>6, <1>17, <2>1, <3>1
    <3>5. QED
      BY <1>17, <1>18, <3>1, <3>2, <3>3, <3>4 DEF CounterFollowsContent
  <2>2. CASE ~tombstone
    <3>1. f = d /\ miscounted' = miscounted
      BY <1>6, <1>15, <1>17, <2>2 DEF ValueOf
    <3>2. QED
      BY <1>1, <1>17, <1>18, <3>1 DEF CounterFollowsContent, TypeOK
  <2>3. QED
    BY <2>1, <2>2
<1>20. TypeOK'
  BY <1>1, <1>5, <1>6, <1>8, <1>18, <1>19 DEF TypeOK
<1>21. Structure'
  <2>1. TowersAreSorted'
    BY <1>1, <1>2, <1>3, <1>5, SortedAfterAdd
  <2>2. arena'[head].levels = MAX_LVL /\ arena'[head].key = EmptyKey
    BY <1>1, <1>10, <1>11 DEF Structure
  <2>3. \A m \in Nodes' : arena'[m].key \in Keys
    BY <1>1, <1>10, <1>11 DEF Structure, Nodes
  <2>4. \A m, q \in Nodes' : arena'[m].key = arena'[q].key => m = q
    <3>1. \A m \in Nodes : arena'[m].key = arena[m].key
      BY <1>11 DEF Nodes
    <3>2. QED
      BY <1>1, <1>2, <1>10, <1>11, <3>1 DEF Structure
  <2>5. QED
    BY <1>10, <1>20, <2>1, <2>2, <2>3, <2>4 DEF Structure, head, EmptyKey
<1>22. QED
  BY <1>14, <1>19, <1>21 DEF SInv

LEMMA InsertStep ==
  ASSUME SInv, NEW tombstone \in BOOLEAN, NEW key \in Keys, NEW val \in Values,
         Insert(tombstone, key, val), Record(tombstone, key, val)
  PROVE  SInv'
<1>1. PICK n : n = AtOrAfter(key)
  OBVIOUS
<1>2. CASE arena[n].key = key
  <2>1. UpdateVal(n, tombstone, val)
    BY <1>1, <1>2 DEF Insert
  <2>2. QED
    BY <1>1, <1>2, <2>1, UpdateStep
<1>3. CASE arena[n].key # key
  <2>1. PICK max_level \in Levels : AddNode(tombstone, key, val, max_level)
    BY <1>1, <1>3 DEF Insert
  <2>2. QED
    BY <1>1, <1>3, <2>1, AddStep
<1>4. QED
  BY <1>2, <1>3

-----------------------------------------------------------------------------
(* The empty memtable.                                                     *)

IsEmpty ==
  /\ arena = <<HeadNode>> /\ val_data = <<>> /\ byte_counter = 0
  /\ entries = [k \in Keys |-> NotFound] /\ miscounted = 0

LEMMA EmptyMemtable == IsEmpty => SInv
<1>1. SUFFICES ASSUME IsEmpty
               PROVE  SInv
  OBVIOUS
<1>2. /\ DOMAIN arena = {head} /\ Len(arena) = 1 /\ val_data = <<>> /\ byte_counter = 0
      /\ entries = [k \in Keys |-> NotFound] /\ miscounted = 0
      /\ arena[head] = HeadNode
  BY <1>1 DEF IsEmpty, head
<1>3. /\ HeadNode.levels = MAX_LVL /\ HeadNode.key = EmptyKey /\ HeadNode.tombstone = TRUE
      /\ HeadNode.val_index = 0 /\ HeadNode.next = [i \in Levels |-> head]
  BY DEF HeadNode, INVALID_INDEX
<1>4. TypeOK
  <2>1. HeadNode \in Node
    <3>1. [i \in Levels |-> head] \in [0..MAX_LVL -> DOMAIN arena]
      BY <1>2, LevelFacts
    <3>2. HeadNode.next \in UNION {[0..l -> DOMAIN arena] : l \in Levels}
      BY <1>3, <3>1, LevelFacts
    <3>3. 0 \in 0..Len(val_data)
      BY <1>2
    <3>4. QED
      BY <1>3, <3>2, <3>3, LevelFacts DEF Node, HeadNode, INVALID_INDEX
  <2>2. arena \in Seq(Node)
    BY <1>1, <2>1 DEF IsEmpty
  <2>3. \A n \in DOMAIN arena : DOMAIN arena[n].next = 0..arena[n].levels
    BY <1>2, <1>3, LevelFacts
  <2>4. 0 \in 0..(2^WordBits - 1)
    <3>1. PICK w \in Nat \ {0} : w = 2^WordBits
      BY WordFacts
    <3>2. 0 \in 0..(w - 1)
      OBVIOUS
    <3>3. QED
      BY <3>1, <3>2
  <2>5. QED
    BY <1>2, <2>2, <2>3, <2>4 DEF TypeOK
<1>5. TowersAreSorted
  <2>1. ASSUME NEW i \in Levels, NEW n \in DOMAIN arena
        PROVE  arena[n].next[i] = head
    BY <1>2, <1>3
  <2>2. DOMAIN arena \ {head} = {}
    BY <1>2
  <2>3. QED
    BY <2>1, <2>2 DEF TowersAreSorted
<1>6. Structure
  BY <1>2, <1>3, <1>4, <1>5 DEF Structure, Nodes
<1>7. Contents
  BY <1>2, <1>3 DEF Contents, Nodes, INVALID_INDEX
<1>8. CounterFollowsContent
  <2>1. Size(head) = 0
    BY <1>2, <1>3 DEF Size, KeySize
  <2>2. PICK s \in Seq(Int) : s = <<>>
    <3>1. <<>> \in Seq(Int)
      OBVIOUS
    <3>2. QED
      BY <3>1
  <2>3. Sizes = Append(s, 0)
    BY <1>2, <2>1, <2>2 DEF Sizes, head
  <2>4. SumOf(s) = 0
    <3>1. PICK g : IsSum(s, g) /\ SumOf(s) = g[Len(s)]
      BY SumFacts
    <3>2. QED
      BY <2>2, <3>1 DEF IsSum
  <2>5. SumOf(Append(s, 0)) = SumOf(s) + 0
    BY SumOfAppend
  <2>6. SumOf(Sizes) - miscounted = 0
    BY <1>2, <2>3, <2>4, <2>5
  <2>7. Word(0) = 0
    <3>1. PICK w \in Nat \ {0} : w = 2^WordBits
      BY WordFacts
    <3>2. 0 % w = 0
      OBVIOUS
    <3>3. QED
      BY <3>1, <3>2 DEF Word
  <2>8. QED
    BY <1>2, <2>6, <2>7 DEF CounterFollowsContent
<1>9. QED
  BY <1>6, <1>7, <1>8 DEF SInv

LEMMA InitStep == Init => SInv
  BY EmptyMemtable DEF Init, IsEmpty

LEMMA ClearStep == Clear => SInv'
<1>1. SUFFICES ASSUME Clear
               PROVE  SInv'
  OBVIOUS
<1>2. IsEmpty'
  BY <1>1 DEF Clear, IsEmpty, HeadNode, Levels, head, EmptyKey, INVALID_INDEX, NotFound
<1>3. QED
  BY <1>2, EmptyMemtable, PTL

LEMMA Stutter ==
  ASSUME SInv, UNCHANGED vars
  PROVE  SInv'
<1>1. /\ arena' = arena /\ val_data' = val_data /\ byte_counter' = byte_counter
      /\ entries' = entries /\ miscounted' = miscounted
  BY DEF vars, history
<1>2. TypeOK'
  BY <1>1 DEF SInv, Structure, TypeOK, Node, Levels, EmptyKey
<1>3. TowersAreSorted'
  BY <1>1, SortedKept DEF SInv, Structure
<1>4. Structure'
  BY <1>1, <1>2, <1>3 DEF SInv, Structure, Nodes, head, EmptyKey
<1>5. Contents'
  BY <1>1 DEF SInv, Contents, Nodes, Data, Entry, NotFound, head, EmptyKey, INVALID_INDEX
<1>6. Sizes' = Sizes
  BY <1>1 DEF Sizes, Size, Data, Entry, KeySize, EmptyKey
<1>7. CounterFollowsContent'
  BY <1>1, <1>6 DEF SInv, CounterFollowsContent
<1>8. QED
  BY <1>4, <1>5, <1>7 DEF SInv

-----------------------------------------------------------------------------
(* The theorems.                                                           *)

(* The inductive invariant: no two nodes have a key, no two own a value,   *)
(* the towers are sorted, each node has what was last inserted under its   *)
(* key, and the counter counts what the nodes hold.                        *)
THEOREM Invariance == Spec => []SInv
<1>1. SInv /\ [Next]_vars => SInv'
  <2>1. SUFFICES ASSUME SInv, [Next]_vars
                 PROVE  SInv'
    OBVIOUS
  <2>2. ASSUME NEW tombstone \in BOOLEAN, NEW k \in Keys, NEW v \in Values,
               Put(tombstone, k, v)
        PROVE  SInv'
    BY <2>1, <2>2, InsertStep DEF Put
  <2>3. QED
    BY <2>1, <2>2, ClearStep, Stutter DEF Next
<1>2. QED
  BY <1>1, InitStep, PTL DEF Spec

(* Every node of the arena is well formed, its links and its value index   *)
(* included, and the counters fit the word.                                *)
THEOREM TypeCorrect == Spec => []TypeOK
<1>1. SInv => TypeOK
  BY DEF SInv, Structure
<1>2. QED
  BY <1>1, Invariance, PTL

(* Every level links exactly the nodes whose tower reaches it, in strictly *)
(* increasing order, whatever levels the nodes were given.                 *)
THEOREM Sorted == Spec => []TowersAreSorted
<1>1. SInv => TowersAreSorted
  BY DEF SInv, Structure
<1>2. QED
  BY <1>1, Invariance, PTL

(* A search of the memtable finds what was last inserted under the key.    *)
THEOREM FindsLastInsert == Spec => []SearchFindsLastInsert
  BY SearchIsRight, Invariance, PTL

(* byte_counter is what the nodes count for, but for the bytes subtracted  *)
(* twice and those counted for a tombstone's value that is not stored,     *)
(* modulo the width of the word.                                           *)
THEOREM CounterIsRight == Spec => []CounterFollowsContent
<1>1. SInv => CounterFollowsContent
  BY DEF SInv
<1>2. QED
  BY <1>1, Invariance, PTL
=============================================================================
