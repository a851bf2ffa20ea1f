---------------------------- MODULE Recovery_proofs ----------------------------
(***************************************************************************)
(* Proofs about Recovery.                                                  *)
(***************************************************************************)
EXTENDS Recovery, DataLemmas, SequenceTheorems

-----------------------------------------------------------------------------
(* Facts about the operators of the model.                                 *)

LEMMA Constants_ ==
  /\ MAX_LEVEL \in Nat \ {0} /\ COMPACTION_TRIGGER \in Nat /\ COMPACTION_TRIGGER >= 2
  /\ Radix \in Nat /\ Radix >= 2 /\ MaxWrites \in Nat
  /\ Levels = 0..MAX_LEVEL /\ Slots = {0, 1}
  BY ConstantsAssumption DEF ConstantsAssumption, Levels, Slots

(* Max, of a set of which there is a greatest element.                     *)
LEMMA MaxIs ==
  ASSUME NEW S, S \subseteq Int, NEW m \in S, \A x \in S : x <= m
  PROVE  Max(S) = m
<1>1. PICK y : y = CHOOSE x \in S : \A z \in S : x >= z
  OBVIOUS
<1>2. y \in S /\ \A z \in S : y >= z
  BY <1>1
<1>3. y = m
  BY <1>2
<1>4. QED
  BY <1>1, <1>3 DEF Max

LEMMA MaxFacts ==
  ASSUME NEW n \in Nat, NEW S, S \subseteq 0..n, S # {}
  PROVE  Max(S) \in S /\ \A x \in S : x <= Max(S)
<1>1. PICK m \in S : \A x \in S : x <= m
  BY GreatestExists
<1>2. S \subseteq Int
  OBVIOUS
<1>3. Max(S) = m
  BY <1>1, <1>2, MaxIs
<1>4. QED
  BY <1>1, <1>3

LEMMA MaxOfTwo ==
  ASSUME NEW a \in Int, NEW b \in Int
  PROVE  Max({a, b}) = IF a <= b THEN b ELSE a
<1>1. PICK S : S = {a, b}
  OBVIOUS
<1>2. S \subseteq Int /\ a \in S /\ b \in S
  BY <1>1
<1>3. CASE a <= b
  BY <1>1, <1>2, <1>3, MaxIs
<1>4. CASE ~(a <= b)
  BY <1>1, <1>2, <1>4, MaxIs
<1>5. QED
  BY <1>3, <1>4

-----------------------------------------------------------------------------
(* What a search finds in a set X of tables whose files are D: level by    *)
(* level, in each the greatest number first.                               *)

AllTables == Levels \X Nat
Before(t, u) == t[1] < u[1] \/ (t[1] = u[1] /\ t[2] > u[2])
Holders(D, X, k) == {t \in X : D[t].data[k] # 0}
IsTop(D, X, k, t) == t \in Holders(D, X, k) /\ \A u \in Holders(D, X, k) : u = t \/ Before(t, u)
EntryIn(D, X, k) ==
  IF Holders(D, X, k) = {} THEN 0 ELSE D[CHOOSE t \in Holders(D, X, k) : IsTop(D, X, k, t)].data[k]

(* From level l on.                                                        *)
Deeper(X, l) == {t \in X : t[1] >= l}

LEMMA AllTablesFacts ==
  ASSUME NEW t \in AllTables
  PROVE  t = <<t[1], t[2]>> /\ t[1] \in 0..MAX_LEVEL /\ t[1] \in Nat /\ t[2] \in Nat
  BY Constants_ DEF AllTables

LEMMA TableName ==
  ASSUME NEW l \in Levels, NEW n \in Nat
  PROVE  <<l, n>> \in AllTables
  BY DEF AllTables

LEMMA TopExists ==
  ASSUME NEW D, NEW X, X \subseteq AllTables, NEW N \in Nat, \A t \in X : t[2] <= N,
         NEW k, Holders(D, X, k) # {}
  PROVE  \E t \in X : IsTop(D, X, k, t)
<1>1. PICK H : H = Holders(D, X, k)
  OBVIOUS
<1>2. H # {} /\ \A t \in H : t \in X /\ t[1] \in Nat /\ t[2] \in Nat /\ t[2] <= N /\ t = <<t[1], t[2]>>
  BY <1>1, AllTablesFacts DEF Holders
<1>3. PICK A : A = {t[1] : t \in H}
  OBVIOUS
<1>4. A \subseteq Nat /\ A # {}
  BY <1>2, <1>3
<1>5. PICK l \in A : \A m \in A : l <= m
  BY <1>4, LeastExists
<1>6. PICK B : B = {t[2] : t \in {u \in H : u[1] = l}}
  OBVIOUS
<1>7. B \subseteq 0..N /\ B # {}
  BY <1>2, <1>3, <1>5, <1>6
<1>8. PICK n \in B : \A m \in B : m <= n
  BY <1>7, GreatestExists
<1>9. PICK t \in H : t[1] = l /\ t[2] = n
  BY <1>6, <1>8
<1>10. \A u \in H : u = t \/ Before(t, u)
  <2>1. SUFFICES ASSUME NEW u \in H, u # t
                 PROVE  Before(t, u)
    OBVIOUS
  <2>2. l <= u[1] /\ u[1] \in Nat /\ l \in Nat
    BY <1>2, <1>3, <1>5, <1>9
  <2>3. u[1] = l => u[2] <= n /\ u[2] # n
    BY <1>2, <1>6, <1>8, <1>9, <2>1
  <2>4. u[2] \in Nat /\ n \in Nat
    BY <1>2, <1>9
  <2>5. QED
    BY <1>9, <2>2, <2>3, <2>4 DEF Before
<1>11. QED
  BY <1>1, <1>2, <1>9, <1>10 DEF IsTop

LEMMA TopIsEntry ==
  ASSUME NEW D, NEW X, X \subseteq AllTables, NEW k, NEW t, IsTop(D, X, k, t)
  PROVE  t \in X /\ D[t].data[k] # 0 /\ EntryIn(D, X, k) = D[t].data[k] /\ EntryIn(D, X, k) # 0
<1>1. PICK H : H = Holders(D, X, k)
  OBVIOUS
<1>2. t \in H /\ t \in X /\ D[t].data[k] # 0 /\ \A u \in H : u = t \/ Before(t, u)
  BY <1>1 DEF IsTop, Holders
<1>3. PICK s : s = CHOOSE u \in H : IsTop(D, X, k, u)
  OBVIOUS
<1>4. s \in H /\ IsTop(D, X, k, s)
  BY <1>2, <1>3
<1>5. s = t
  <2>1. SUFFICES ASSUME s # t
                 PROVE  FALSE
    OBVIOUS
  <2>2. Before(t, s) /\ Before(s, t)
    BY <1>1, <1>2, <1>4, <2>1 DEF IsTop
  <2>3. s \in AllTables /\ t \in AllTables
    BY <1>1, <1>2, <1>4 DEF Holders
  <2>4. QED
    BY <2>2, <2>3, AllTablesFacts DEF Before
<1>6. QED
  BY <1>1, <1>2, <1>3, <1>5 DEF EntryIn

LEMMA NoHolder ==
  ASSUME NEW D, NEW X, NEW k, \A t \in X : D[t].data[k] = 0
  PROVE  EntryIn(D, X, k) = 0
  BY DEF EntryIn, Holders

(* Only the holders of a key matter.                                       *)
LEMMA SameHolders ==
  ASSUME NEW D, NEW E, NEW X, X \subseteq AllTables, NEW N \in Nat, \A t \in X : t[2] <= N,
         NEW Y, Y \subseteq AllTables, NEW k, Holders(D, X, k) = Holders(E, Y, k),
         \A t \in Holders(D, X, k) : D[t].data[k] = E[t].data[k]
  PROVE  EntryIn(D, X, k) = EntryIn(E, Y, k)
<1>1. CASE Holders(D, X, k) = {}
  BY <1>1 DEF EntryIn
<1>2. CASE Holders(D, X, k) # {}
  <2>1. PICK t \in X : IsTop(D, X, k, t)
    BY <1>2, TopExists
  <2>2. IsTop(E, Y, k, t)
    BY <2>1 DEF IsTop
  <2>3. t \in Holders(D, X, k)
    BY <2>1 DEF IsTop
  <2>4. EntryIn(D, X, k) = D[t].data[k]
    BY <2>1, TopIsEntry
  <2>5. EntryIn(E, Y, k) = E[t].data[k]
    BY <2>2, TopIsEntry
  <2>6. QED
    BY <2>3, <2>4, <2>5
<1>3. QED
  BY <1>1, <1>2

LEMMA EntryRange ==
  ASSUME NEW D, NEW X, X \subseteq AllTables, NEW N \in Nat, \A t \in X : t[2] <= N,
         NEW k, NEW S, 0 \in S, \A t \in X : D[t].data[k] \in S
  PROVE  EntryIn(D, X, k) \in S
<1>1. CASE Holders(D, X, k) = {}
  BY <1>1 DEF EntryIn
<1>2. CASE Holders(D, X, k) # {}
  <2>1. PICK t \in X : IsTop(D, X, k, t)
    BY <1>2, TopExists
  <2>2. QED
    BY <2>1, TopIsEntry
<1>3. QED
  BY <1>1, <1>2

(* A table t that comes before those of its level.                         *)
FirstAdded(D, X, Y, t, k, l) ==
  /\ l > t[1] => EntryIn(D, Deeper(Y, l), k) = EntryIn(D, Deeper(X, l), k)
  /\ D[t].data[k] = 0 => EntryIn(D, Deeper(Y, l), k) = EntryIn(D, Deeper(X, l), k)
  /\ l <= t[1] /\ D[t].data[k] # 0 /\ (\A u \in X : l <= u[1] /\ u[1] < t[1] => D[u].data[k] = 0) =>
       EntryIn(D, Deeper(Y, l), k) = D[t].data[k]
  /\ l <= t[1] /\ (\E u \in X : l <= u[1] /\ u[1] < t[1] /\ D[u].data[k] # 0) =>
       EntryIn(D, Deeper(Y, l), k) = EntryIn(D, Deeper(X, l), k)

LEMMA AddFirst ==
  ASSUME NEW D, NEW X, X \subseteq AllTables, NEW N \in Nat, \A u \in X : u[2] <= N,
         NEW t \in AllTables, \A u \in X : u[1] = t[1] => u[2] < t[2],
         NEW k, NEW l \in Nat, NEW Y, Y = X \union {t}
  PROVE  FirstAdded(D, X, Y, t, k, l)
<1>0. PICK P, Q : P = Deeper(X, l) /\ Q = Deeper(Y, l)
  OBVIOUS
<1>1. /\ Y \subseteq AllTables /\ P \subseteq AllTables /\ Q \subseteq AllTables
      /\ \A u \in P : u[2] <= N
  BY <1>0 DEF Deeper
<1>2. \A u \in Y : u[1] \in Nat /\ u[2] \in Nat
  BY <1>1, AllTablesFacts
<1>3. ASSUME l > t[1]
      PROVE  P = Q
  BY <1>0, <1>2, <1>3 DEF Deeper
<1>4. ASSUME D[t].data[k] = 0
      PROVE  EntryIn(D, Q, k) = EntryIn(D, P, k)
  <2>1. Holders(D, Q, k) = Holders(D, P, k)
    BY <1>0, <1>4 DEF Deeper, Holders
  <2>2. QED
    BY <1>1, <2>1, SameHolders
<1>5. ASSUME l <= t[1], D[t].data[k] # 0, \A u \in X : l <= u[1] /\ u[1] < t[1] => D[u].data[k] = 0
      PROVE  EntryIn(D, Q, k) = D[t].data[k]
  <2>1. t \in Holders(D, Q, k)
    BY <1>0, <1>5 DEF Deeper, Holders
  <2>2. ASSUME NEW u \in Holders(D, Q, k), u # t
        PROVE  Before(t, u)
    <3>1. u \in X /\ u[1] >= l /\ D[u].data[k] # 0 /\ u[1] \in Nat /\ t[1] \in Nat
      BY <1>0, <1>2, <2>2 DEF Deeper, Holders
    <3>2. QED
      BY <1>5, <3>1 DEF Before
  <2>3. IsTop(D, Q, k, t)
    BY <2>1, <2>2 DEF IsTop
  <2>4. QED
    BY <1>1, <2>3, TopIsEntry
<1>6. ASSUME l <= t[1], NEW v \in X, l <= v[1], v[1] < t[1], D[v].data[k] # 0
      PROVE  EntryIn(D, Q, k) = EntryIn(D, P, k)
  <2>1. v \in Holders(D, P, k)
    BY <1>0, <1>2, <1>6 DEF Deeper, Holders
  <2>2. Holders(D, P, k) # {}
    BY <2>1
  <2>3. PICK s \in P : IsTop(D, P, k, s)
    BY <1>1, <2>2, TopExists
  <2>4. s[1] <= v[1] /\ s \in X /\ s[1] \in Nat /\ v[1] \in Nat
    BY <1>0, <1>2, <2>1, <2>3 DEF IsTop, Before, Deeper, Holders
  <2>5. Before(s, t)
    BY <1>2, <1>6, <2>4 DEF Before
  <2>6. IsTop(D, Q, k, s)
    BY <1>0, <2>3, <2>5 DEF IsTop, Holders, Deeper
  <2>7. EntryIn(D, Q, k) = D[s].data[k]
    BY <1>1, <2>6, TopIsEntry
  <2>8. EntryIn(D, P, k) = D[s].data[k]
    BY <1>1, <2>3, TopIsEntry
  <2>9. QED
    BY <2>7, <2>8
<1>7. QED
  BY <1>0, <1>3, <1>4, <1>5, <1>6 DEF FirstAdded

(* Levels that hold nothing of a key.                                      *)
LEMMA SkipLevels ==
  ASSUME NEW D, NEW X, X \subseteq AllTables, NEW N \in Nat, \A t \in X : t[2] <= N, NEW k, NEW l \in Nat, NEW m \in Nat, l <= m,
         \A u \in X : l <= u[1] /\ u[1] < m => D[u].data[k] = 0
  PROVE  EntryIn(D, Deeper(X, l), k) = EntryIn(D, Deeper(X, m), k)
<1>1. \A u \in X : u[1] \in Nat
  BY AllTablesFacts
<1>2. PICK P, Q : P = Deeper(X, l) /\ Q = Deeper(X, m)
  OBVIOUS
<1>3. Holders(D, P, k) = Holders(D, Q, k)
  BY <1>1, <1>2 DEF Holders, Deeper
<1>4. P \subseteq AllTables /\ Q \subseteq AllTables /\ \A t \in P : t[2] <= N
  BY <1>2 DEF Deeper
<1>5. QED
  BY <1>2, <1>3, <1>4, SameHolders

(* The tables X without some of the last of level m.                       *)
LastDropped(D, X, Y, m, k, l) ==
  /\ l > m => EntryIn(D, Deeper(Y, l), k) = EntryIn(D, Deeper(X, l), k)
  /\ l <= m /\ (\E y \in Y : l <= y[1] /\ y[1] <= m /\ D[y].data[k] # 0) =>
       EntryIn(D, Deeper(Y, l), k) = EntryIn(D, Deeper(X, l), k)
  /\ l <= m /\ (\A y \in Y : l <= y[1] /\ y[1] <= m => D[y].data[k] = 0) =>
       /\ EntryIn(D, Deeper(Y, l), k) = EntryIn(D, Deeper(X, m + 1), k)
       /\ Holders(D, X \ Y, k) # {} => EntryIn(D, Deeper(X, l), k) = EntryIn(D, X \ Y, k)
       /\ Holders(D, X \ Y, k) = {} => EntryIn(D, Deeper(X, l), k) = EntryIn(D, Deeper(X, m + 1), k)

LEMMA DropLast ==
  ASSUME NEW D, NEW X, X \subseteq AllTables, NEW N \in Nat, \A u \in X : u[2] <= N,
         NEW Y, Y \subseteq X, NEW m \in Nat,
         \A r \in X \ Y : r[1] = m /\ \A y \in Y : y[1] = m => r[2] < y[2],
         NEW k, NEW l \in Nat
  PROVE  LastDropped(D, X, Y, m, k, l)
<1>1. \A u \in X : u[1] \in Nat /\ u[2] \in Nat
  BY AllTablesFacts
<1>2. /\ Deeper(X, l) \subseteq AllTables /\ Deeper(Y, l) \subseteq AllTables
      /\ Y \subseteq AllTables /\ X \ Y \subseteq AllTables
      /\ \A u \in Deeper(X, l) : u[2] <= N
  BY DEF Deeper
<1>3. \A j \in Nat : j > m => Deeper(Y, j) = Deeper(X, j)
  BY <1>1 DEF Deeper
<1>4. ASSUME l <= m, NEW y \in Y, l <= y[1], y[1] <= m, D[y].data[k] # 0
      PROVE  EntryIn(D, Deeper(Y, l), k) = EntryIn(D, Deeper(X, l), k)
  <2>1. y \in Holders(D, Deeper(X, l), k)
    BY <1>1, <1>4 DEF Deeper, Holders
  <2>2. Holders(D, Deeper(X, l), k) # {}
    BY <2>1
  <2>3. PICK s \in Deeper(X, l) : IsTop(D, Deeper(X, l), k, s)
    BY <1>2, <2>2, TopExists
  <2>4. s = y \/ Before(s, y)
    BY <2>1, <2>3 DEF IsTop
  <2>5. s \in Y
    <3>1. s \in X
      BY <2>3 DEF Deeper
    <3>2. s \in X \ Y => s[1] = m /\ (y[1] = m => s[2] < y[2])
      OBVIOUS
    <3>3. QED
      BY <1>1, <1>4, <2>4, <3>1, <3>2 DEF Before
  <2>6. IsTop(D, Deeper(Y, l), k, s)
    BY <2>3, <2>5 DEF IsTop, Holders, Deeper
  <2>7. QED
    BY <1>2, <2>3, <2>6, TopIsEntry
<1>5. ASSUME l <= m, \A y \in Y : l <= y[1] /\ y[1] <= m => D[y].data[k] = 0
      PROVE  /\ EntryIn(D, Deeper(Y, l), k) = EntryIn(D, Deeper(X, m + 1), k)
             /\ Holders(D, X \ Y, k) # {} => EntryIn(D, Deeper(X, l), k) = EntryIn(D, X \ Y, k)
             /\ Holders(D, X \ Y, k) = {} => EntryIn(D, Deeper(X, l), k) = EntryIn(D, Deeper(X, m + 1), k)
  <2>1. EntryIn(D, Deeper(Y, l), k) = EntryIn(D, Deeper(Y, m + 1), k)
    <3>1. \A u \in Y : l <= u[1] /\ u[1] < m + 1 => D[u].data[k] = 0
      BY <1>1, <1>5
    <3>2. m + 1 \in Nat /\ l <= m + 1
      BY <1>5
    <3>3. QED
      BY <1>2, <3>1, <3>2, SkipLevels
  <2>2. Deeper(Y, m + 1) = Deeper(X, m + 1)
    BY <1>3
  <2>3. ASSUME Holders(D, X \ Y, k) # {}
        PROVE  EntryIn(D, Deeper(X, l), k) = EntryIn(D, X \ Y, k)
    <3>1. PICK s \in X \ Y : IsTop(D, X \ Y, k, s)
      BY <1>2, <2>3, TopExists
    <3>2. s[1] = m /\ s \in X /\ D[s].data[k] # 0
      BY <3>1 DEF IsTop, Holders
    <3>3. s \in Holders(D, Deeper(X, l), k)
      BY <1>5, <3>2 DEF Holders, Deeper
    <3>4. ASSUME NEW u \in Holders(D, Deeper(X, l), k), u # s
          PROVE  Before(s, u)
      <4>1. u \in X /\ u[1] >= l /\ D[u].data[k] # 0
        BY <3>4 DEF Holders, Deeper
      <4>2. CASE u \in X \ Y
        BY <3>1, <3>4, <4>1, <4>2 DEF IsTop, Holders
      <4>3. CASE u \in Y
        BY <1>1, <1>5, <3>2, <4>1, <4>3 DEF Before
      <4>4. QED
        BY <4>1, <4>2, <4>3
    <3>5. IsTop(D, Deeper(X, l), k, s)
      BY <3>3, <3>4 DEF IsTop
    <3>6. QED
      BY <1>2, <3>1, <3>5, TopIsEntry
  <2>4. ASSUME Holders(D, X \ Y, k) = {}
        PROVE  EntryIn(D, Deeper(X, l), k) = EntryIn(D, Deeper(X, m + 1), k)
    <3>1. \A u \in X : l <= u[1] /\ u[1] < m + 1 => D[u].data[k] = 0
      BY <1>1, <1>5, <2>4 DEF Holders
    <3>2. m + 1 \in Nat /\ l <= m + 1
      BY <1>5
    <3>3. QED
      BY <3>1, <3>2, SkipLevels
  <2>5. QED
    BY <2>1, <2>2, <2>3, <2>4
<1>6. QED
  BY <1>3, <1>4, <1>5 DEF LastDropped

(* Tables M each of which comes after one of X that holds what it holds.   *)
LEMMA AddShadowed ==
  ASSUME NEW D, NEW X, X \subseteq AllTables, NEW N \in Nat, \A u \in X : u[2] <= N,
         NEW M, M \subseteq AllTables, NEW k,
         \A t \in M : D[t].data[k] # 0 => \E u \in X : D[u].data[k] # 0 /\ Before(u, t)
  PROVE  EntryIn(D, X \union M, k) = EntryIn(D, X, k)
<1>0. PICK Y : Y = X \union M
  OBVIOUS
<1>1. Y \subseteq AllTables /\ \A u \in Y : u[1] \in Nat /\ u[2] \in Nat
  BY <1>0, AllTablesFacts
<1>2. CASE Holders(D, X, k) = {}
  <2>1. \A t \in Y : D[t].data[k] = 0
    BY <1>0, <1>2 DEF Holders
  <2>2. EntryIn(D, Y, k) = 0 /\ EntryIn(D, X, k) = 0
    BY <1>0, <2>1, NoHolder
  <2>3. QED
    BY <1>0, <2>2
<1>3. CASE Holders(D, X, k) # {}
  <2>1. PICK s \in X : IsTop(D, X, k, s)
    BY <1>3, TopExists
  <2>2. \A u \in X : D[u].data[k] # 0 => u = s \/ Before(s, u)
    BY <2>1 DEF IsTop, Holders
  <2>3. ASSUME NEW u \in Holders(D, Y, k), u # s
        PROVE  Before(s, u)
    <3>1. D[u].data[k] # 0 /\ u \in Y /\ s \in Y
      BY <1>0, <2>3 DEF Holders
    <3>2. CASE u \in X
      BY <2>2, <2>3, <3>1, <3>2
    <3>3. CASE u \in M
      <4>1. PICK v \in X : D[v].data[k] # 0 /\ Before(v, u)
        BY <3>1, <3>3
      <4>2. v = s \/ Before(s, v)
        BY <2>2, <4>1
      <4>3. v \in Y
        BY <1>0
      <4>4. QED
        BY <1>1, <3>1, <4>1, <4>2, <4>3 DEF Before
    <3>4. QED
      BY <1>0, <3>1, <3>2, <3>3
  <2>4. IsTop(D, Y, k, s)
    BY <1>0, <2>1, <2>3 DEF IsTop, Holders
  <2>5. EntryIn(D, Y, k) = D[s].data[k]
    BY <1>1, <2>4, TopIsEntry
  <2>6. EntryIn(D, X, k) = D[s].data[k]
    BY <2>1, TopIsEntry
  <2>7. QED
    BY <1>0, <2>5, <2>6
<1>4. QED
  BY <1>2, <1>3

(* Files that are the same where they matter.                              *)
LEMMA SameFiles ==
  ASSUME NEW D, NEW E, NEW X, X \subseteq AllTables, NEW N \in Nat, \A t \in X : t[2] <= N, NEW k,
         \A t \in X : D[t].data[k] = E[t].data[k]
  PROVE  EntryIn(D, X, k) = EntryIn(E, X, k)
<1>1. PICK H : H = Holders(D, X, k) /\ H = Holders(E, X, k)
  BY DEF Holders
<1>2. CASE H = {}
  BY <1>1, <1>2 DEF EntryIn
<1>3. CASE H # {}
  <2>1. PICK t \in X : IsTop(D, X, k, t)
    BY <1>1, <1>3, TopExists
  <2>2. IsTop(E, X, k, t)
    BY <1>1, <2>1 DEF IsTop
  <2>3. EntryIn(D, X, k) = D[t].data[k]
    BY <2>1, TopIsEntry
  <2>4. EntryIn(E, X, k) = E[t].data[k]
    BY <2>2, TopIsEntry
  <2>5. QED
    BY <2>3, <2>4
<1>4. QED
  BY <1>2, <1>3

-----------------------------------------------------------------------------
(* The newest write of a key among ws, of the writes W.                    *)
NewestIn(W, k, ws) == Max({w \in ws : w > 0 /\ W[w].key = k} \union {0})

LEMMA NewestFacts ==
  ASSUME NEW n \in Nat, NEW W, NEW k, NEW ws, \A x \in ws : x \in 1..n
  PROVE  /\ NewestIn(W, k, ws) \in 0..n
         /\ NewestIn(W, k, ws) # 0 => NewestIn(W, k, ws) \in ws /\ W[NewestIn(W, k, ws)].key = k
         /\ \A w \in ws : W[w].key = k => w <= NewestIn(W, k, ws) /\ NewestIn(W, k, ws) # 0
<1>1. PICK S : S = {w \in ws : w > 0 /\ W[w].key = k} \union {0}
  OBVIOUS
<1>2. S \subseteq 0..n /\ S # {}
  <2>1. ASSUME NEW x \in S
        PROVE  x \in 0..n
    <3>1. x = 0 \/ x \in ws
      BY <1>1
    <3>2. x \in ws => x \in 1..n
      OBVIOUS
    <3>3. QED
      BY <3>1, <3>2
  <2>2. 0 \in S
    BY <1>1
  <2>3. QED
    BY <2>1, <2>2
<1>3. PICK m : m = Max(S)
  OBVIOUS
<1>4. m \in S /\ \A x \in S : x <= m
  BY <1>2, <1>3, MaxFacts
<1>5. NewestIn(W, k, ws) = m
  BY <1>1, <1>3 DEF NewestIn
<1>6. m \in 0..n /\ (m # 0 => m \in ws /\ W[m].key = k)
  BY <1>1, <1>2, <1>4
<1>7. ASSUME NEW w \in ws, W[w].key = k
      PROVE  w <= m /\ m # 0
  BY <1>1, <1>4, <1>6, <1>7
<1>8. QED
  BY <1>5, <1>6, <1>7

LEMMA NewestNone ==
  ASSUME NEW n \in Nat, NEW W, NEW k, NEW ws, \A x \in ws : x \in 1..n, \A w \in ws : W[w].key # k
  PROVE  NewestIn(W, k, ws) = 0
  BY NewestFacts

(* Only the writes of the key matter.                                      *)
LEMMA NewestSame ==
  ASSUME NEW n \in Nat, NEW W, NEW V, NEW k, NEW ws, \A x \in ws : x \in 1..n, NEW vs, \A x \in vs : x \in 1..n,
         \A w \in 1..n : (w \in ws /\ W[w].key = k) <=> (w \in vs /\ V[w].key = k)
  PROVE  NewestIn(W, k, ws) = NewestIn(V, k, vs)
<1>1. PICK S, T : /\ S = {w \in ws : w > 0 /\ W[w].key = k} \union {0}
                  /\ T = {w \in vs : w > 0 /\ V[w].key = k} \union {0}
  OBVIOUS
<1>2. S = T
  BY <1>1
<1>3. QED
  BY <1>1, <1>2 DEF NewestIn

-----------------------------------------------------------------------------
(* The invariant.  It is about a store whose files were InOrder whenever a *)
(* life ended, or that is in its first life.                               *)

Live == phase \in {"up", "stopping", "log2", "closing"}
Loaded == phase \in {"logs", "up", "stopping", "log2", "closing"}
Fresh == phase \in {"down", "tables", "logs"}

(* What w answers, and what is left of it by a merge, of the writes W.     *)
TombstoneIn(W, w) == w > 0 /\ W[w].tombstone
AnswerIn(W, w) == IF TombstoneIn(W, w) THEN 0 ELSE w
PurgedIn(W, purge, w) == IF purge /\ TombstoneIn(W, w) THEN 0 ELSE w

MergeLevels == 0..(MAX_LEVEL - 1)
Writing == flusher \in {"write", "publish"}
Merging(l) == merge[l].at \in {"write", "add"}
FlushTable == <<0, flush_num>>
MergeTable(l) == <<l + 1, merge[l].num>>

(* Types.                                                                  *)
ControlTypes ==
  /\ phase \in {"down", "tables", "logs", "log2", "up", "stopping", "closing", "failed"}
  /\ writer \in {"run", "full", "open"} /\ active \in Slots
  /\ flusher \in {"idle", "pending", "write", "publish", "close", "remove"}
  /\ trusted \in BOOLEAN /\ starts \in Nat \ {0}
  /\ (starts = 1 => phase \in {"up", "stopping", "closing", "down"})
  /\ (phase \notin {"down", "failed"} => trusted)

WriteTypes ==
  /\ writes \in Seq([key : Keys, tombstone : BOOLEAN]) /\ Len(writes) <= MaxWrites
  /\ \A w \in lost : w \in 1..Len(writes)

LogTypes ==
  /\ \A n \in DOMAIN logs : n \in Nat /\ logs[n] \in Seq(-1..Len(writes))
  /\ memtable \in [Slots -> [Keys -> 0..Len(writes)]]
  /\ file \in [Slots -> Nat \union {NULL, Closed}] /\ filepath \in [Slots -> Nat \union {NULL}]
  /\ buffer \in [Slots -> Seq(1..Len(writes))]
  /\ wal_log_counter \in Nat /\ wal_files \in Seq(Nat)

FileTypes ==
  /\ \A t \in DOMAIN sstables : /\ t \in AllTables /\ sstables[t].finished \in BOOLEAN
                                /\ sstables[t].data \in [Keys -> 0..Len(writes)]
  /\ \E N \in Nat : \A t \in DOMAIN sstables : t[2] <= N

Merges == [at : {"idle", "write", "add", "remove"}, num : Nat, purge : BOOLEAN]
ListTypes ==
  /\ flush_num \in Nat /\ sstable_counter \in Nat /\ curr_max_level \in Levels
  /\ readers_at_level \in [Levels -> Seq(Nat)] /\ merge \in [MergeLevels -> Merges]
  /\ awake \subseteq Levels /\ doomed \subseteq DOMAIN sstables
  /\ unlinked \in [Levels -> Int]

TableTypes == FileTypes /\ ListTypes
Types == ControlTypes /\ WriteTypes /\ LogTypes /\ TableTypes

(* What a process that has not read the logs yet starts with.              *)
FreshInv ==
  Fresh =>
    /\ writer = "run" /\ active = 0 /\ memtable = [i \in Slots |-> Empty]
    /\ file = [i \in Slots |-> NULL] /\ filepath = [i \in Slots |-> NULL]
    /\ buffer = [i \in Slots |-> <<>>] /\ wal_log_counter = 1
    /\ flusher = "idle" /\ merge = [l \in MergeLevels |-> Idle] /\ awake = {} /\ doomed = {}
    /\ unlinked = [l \in Levels |-> -1]
    /\ phase # "logs" => readers_at_level = [l \in Levels |-> <<>>]

-----------------------------------------------------------------------------
(* The tables.                                                             *)

InList(t) == \E i \in DOMAIN readers_at_level[t[1]] : readers_at_level[t[1]][i] = t[2]
Listed == {t \in AllTables : InList(t)}
(* What a search that started before the latest merges may still read, but *)
(* for tables that have been unlinked out of turn.                         *)
Published == Listed \union {t \in doomed : t[2] > unlinked[t[1]]}

(* The oldest tables of level l.                                           *)
InputTables(l) ==
  {t \in AllTables : t[1] = l /\ \E i \in 1..COMPACTION_TRIGGER : readers_at_level[l][i] = t[2]}

(* The next number is new.  After a recovery, it may be that of the last   *)
(* table, until it is given to one of level 0.                             *)
CounterInv ==
  Loaded =>
    /\ \A l \in Levels : unlinked[l] < sstable_counter
    /\ \/ \A t \in DOMAIN sstables : t[2] < sstable_counter
       \/ /\ awake = {} /\ doomed = {} /\ merge = [l \in MergeLevels |-> Idle]
          /\ flusher \in {"idle", "pending"}
          /\ \A t \in DOMAIN sstables : /\ t[2] <= sstable_counter
                                        /\ t[2] = sstable_counter => t[1] # 0

(* Every file is in a list, doomed, or being written; in each level the    *)
(* doomed are the oldest and those being written the youngest.             *)
ListInv ==
  /\ \A l \in Levels : \A i, j \in DOMAIN readers_at_level[l] :
       i < j => readers_at_level[l][i] < readers_at_level[l][j]
  /\ \A t \in Listed : t \in DOMAIN sstables /\ sstables[t].finished /\ t[2] > unlinked[t[1]]
  /\ \A t \in doomed : sstables[t].finished /\ t \notin Listed
  /\ \A t \in doomed, u \in Listed : t[1] = u[1] => t[2] < u[2]
  /\ Loaded => \A t \in DOMAIN sstables :
       \/ t \in Listed \/ t \in doomed \/ (Writing /\ t = FlushTable)
       \/ \E l \in MergeLevels : Merging(l) /\ t = MergeTable(l)

FlushOutput ==
  /\ Writing => /\ FlushTable \in DOMAIN sstables /\ unlinked[0] < flush_num
                /\ \A t \in Listed \union doomed : t[1] = 0 => t[2] < flush_num
  /\ flusher = "publish" => /\ sstables[FlushTable].finished
                            /\ sstables[FlushTable].data = memtable[1 - active]
  /\ flusher = "write" => ~sstables[FlushTable].finished

MergeOutput(l) ==
  /\ merge[l].at # "idle" => Len(readers_at_level[l]) >= COMPACTION_TRIGGER
  /\ Merging(l) => /\ MergeTable(l) \in DOMAIN sstables /\ unlinked[l + 1] < merge[l].num
                   /\ \A t \in Listed \union doomed : t[1] = l + 1 => t[2] < merge[l].num
  /\ merge[l].at = "add" =>
       /\ sstables[MergeTable(l)].finished
       /\ \A k \in Keys : sstables[MergeTable(l)].data[k] =
                            PurgedIn(writes, merge[l].purge, EntryIn(sstables, InputTables(l), k))
  /\ merge[l].at = "write" => ~sstables[MergeTable(l)].finished

OutputInv == FlushOutput /\ \A l \in MergeLevels : MergeOutput(l)

(* A merge that purges tombstones has nothing deeper than its level.       *)
PurgeInv ==
  /\ \A l \in awake : l <= curr_max_level
  /\ \A l \in MergeLevels : merge[l].at # "idle" => l <= curr_max_level
  /\ \A l \in MergeLevels : Merging(l) /\ merge[l].purge =>
       \A m \in Levels : m > l => readers_at_level[m] = <<>>
  /\ Loaded => \A m \in Levels : m > curr_max_level /\ readers_at_level[m] # <<>> =>
       m = curr_max_level + 1 /\ merge[curr_max_level].at = "remove"

(* What is found from a level on; the doomed tables do not change it.      *)
ListedFrom(l, k) == AnswerIn(writes, EntryIn(sstables, Deeper(Listed, l), k))
PublishedFrom(l, k) == AnswerIn(writes, EntryIn(sstables, Deeper(Published, l), k))
DoomedInv == \A l \in 0..(MAX_LEVEL + 1), k \in Keys : PublishedFrom(l, k) = ListedFrom(l, k)

(* What the inputs of a merge have, the levels below have as well once the *)
(* output is in its list.                                                  *)
RemovedInv ==
  \A l \in MergeLevels, k \in Keys :
    merge[l].at = "remove" /\ EntryIn(sstables, InputTables(l), k) # 0 =>
      ListedFrom(l + 1, k) = AnswerIn(writes, EntryIn(sstables, InputTables(l), k))

TableInv == CounterInv /\ ListInv /\ OutputInv /\ PurgeInv /\ DoomedInv /\ RemovedInv

-----------------------------------------------------------------------------
(* The logs.                                                               *)

Records(n) == {r \in ToSet(logs[n]) : r > 0}
(* The records of log n, those that stdio has yet to write included.       *)
Rec(n) == Records(n) \union UNION {ToSet(buffer[i]) : i \in {j \in Slots : file[j] = n}}
Held(i) == IF file[i] >= 0 THEN Rec(file[i]) ELSE {}
Known == (DOMAIN writes) \ lost

LogInv ==
  /\ \A m, n \in DOMAIN logs : m < n => \A r \in Rec(m), s \in Rec(n) : r < s
  /\ \A n \in DOMAIN logs : \A r \in Rec(n) : r \in Known
  /\ \A n \in DOMAIN logs, i \in Slots : \A r \in Records(n) : r \notin ToSet(buffer[i])
  /\ \A r \in ToSet(buffer[0]) : r \notin ToSet(buffer[1])
  /\ \A i \in Slots : \A r, s \in DOMAIN buffer[i] : r # s => buffer[i][r] # buffer[i][s]
  /\ \A i \in Slots : \A r \in ToSet(buffer[i]) : r \in Known

FileInv ==
  Live =>
    /\ \A i \in Slots : file[i] < 0 => buffer[i] = <<>>
    /\ \A i \in Slots : file[i] >= 0 => file[i] \in DOMAIN logs
    /\ file[0] >= 0 => file[0] # file[1]
    /\ phase = "closing" => flusher \in {"idle", "pending"} /\ file[1] = Closed

PathInv ==
  Works =>
    /\ writer = "open" <=> file[active] < 0
    /\ flusher \in {"idle", "remove"} <=> file[1 - active] < 0
    /\ phase # "log2" /\ writer # "open" => \A n \in DOMAIN logs : n <= file[active]
    /\ phase # "log2" => \A n \in DOMAIN logs : n < wal_log_counter
    /\ \A i \in Slots : file[1 - i] >= 0 => filepath[i] # file[1 - i]
    /\ \A i \in Slots : filepath[i] < wal_log_counter
    /\ \A i \in Slots : file[i] >= 0 /\ filepath[i] \in DOMAIN logs =>
         filepath[i] = file[i] \/ logs[filepath[i]] = <<>>
    /\ phase = "stopping" => writer = "run"

(* Between the two logs that a recovery reads.                             *)
Second == Head(wal_files)
Log2Inv ==
  phase = "log2" =>
    /\ Len(wal_files) = 1 /\ Second \in DOMAIN logs /\ Second > 1
    /\ \A n \in DOMAIN logs : n <= Second
    /\ \A i \in DOMAIN logs[Second] : logs[Second][i] > 0
    /\ file[0] \in {Closed} \union (DOMAIN logs \ {1, Second}) /\ filepath[0] = NULL
    /\ \A i \in Slots : buffer[i] = <<>>
    /\ \/ /\ writer \in {"full", "open"} /\ (active = 0 <=> writer = "full")
          /\ writer = "full" => flusher = "idle"
          /\ file[1] = NULL /\ filepath[1] = NULL /\ wal_log_counter = 1 /\ 1 \notin DOMAIN logs
       \/ /\ writer = "run" /\ active = 1
          /\ file[1] = 1 /\ filepath[1] = 1 /\ wal_log_counter = 2 /\ logs[1] = <<>>
    /\ active = 1 => memtable[1] = Empty

-----------------------------------------------------------------------------
(* What the memory has, and what the files have without it.                *)

Filling == flusher \in {"pending", "write", "publish"}
Pending == IF phase = "log2" THEN Records(Second) ELSE {}

MemInv ==
  Works => \A k \in Keys :
    /\ memtable[active][k] = NewestIn(writes, k, Held(active))
    /\ Filling => memtable[1 - active][k] = NewestIn(writes, k, Held(1 - active))
    /\ ~Filling => memtable[1 - active][k] = 0

(* The order in which a search, or a recovery that goes on, looks.         *)
ServeInv ==
  Works => \A k \in Keys :
    \/ NewestIn(writes, k, Pending) # 0 /\ NewestIn(writes, k, Known) = NewestIn(writes, k, Pending)
    \/ /\ NewestIn(writes, k, Pending) = 0
       /\ memtable[active][k] # 0 => NewestIn(writes, k, Known) = memtable[active][k]
       /\ memtable[active][k] = 0 /\ memtable[1 - active][k] # 0 =>
            NewestIn(writes, k, Known) = memtable[1 - active][k]
       /\ memtable[active][k] = 0 /\ memtable[1 - active][k] = 0 =>
            ListedFrom(0, k) = AnswerIn(writes, NewestIn(writes, k, Known))

(* Newer writes than those of a memtable are in the logs that follow.      *)
NextInv ==
  Works => \A k \in Keys, x \in Known : writes[x].key = k =>
    /\ memtable[1 - active][k] # 0 /\ x > memtable[1 - active][k] => x \in Held(active) \union Pending
    /\ phase = "log2" /\ memtable[active][k] # 0 /\ x > memtable[active][k] => x \in Pending

Clearing == IF flusher \in {"close", "remove"} THEN {filepath[1 - active]} ELSE {}
Unpublished ==
  UNION {ToSet(buffer[i]) : i \in {j \in Slots : ~(j = 1 - active /\ flusher = "close")}}
Logged(k, ns) == \E n \in ns : \E r \in Records(n) : writes[r].key = k

(* A key of which no log that stays has anything is as new in the tables   *)
(* as what has left the buffers.                                           *)
DurableInv ==
  Live => \A k \in Keys :
    ~Logged(k, DOMAIN logs \ Clearing) =>
      ListedFrom(0, k) = AnswerIn(writes, NewestIn(writes, k, Known \ Unpublished))

(* In the first life, no log is left of a memtable that was flushed.       *)
FirstInv ==
  starts = 1 /\ Live =>
    /\ \A i \in Slots : file[i] >= 0 => filepath[i] = file[i]
    /\ phase # "closing" => \A n \in DOMAIN logs : n \in {file[0], file[1]} \union Clearing
    /\ \A n \in DOMAIN logs \ Clearing : \A r \in Rec(n), x \in Known :
         x > r => \E m \in DOMAIN logs \ Clearing : x \in Rec(m)

(* What InOrder says of the files that are left, and what they hold.       *)
DownInv ==
  Fresh /\ trusted =>
    /\ \A m, n \in DOMAIN logs : m < n => SortsBefore(m, n) /\ m # 1 /\ n # 1
    /\ \A n \in DOMAIN logs : \A i \in DOMAIN logs[n] : logs[n][i] > 0
    /\ \A k \in Keys, n \in DOMAIN logs : NewestIn(writes, k, Records(n)) # 0 =>
         \A x \in Known : writes[x].key = k /\ x > NewestIn(writes, k, Records(n)) =>
           \E m \in DOMAIN logs : x \in Records(m)
    /\ \A t \in DOMAIN sstables : t[1] = 0 => \E u \in DOMAIN sstables : u[2] > t[2]
    /\ (\A t \in DOMAIN sstables : sstables[t].finished) => \A k \in Keys :
         ~Logged(k, DOMAIN logs) =>
           AnswerIn(writes, EntryIn(sstables, DOMAIN sstables, k)) = AnswerIn(writes, NewestIn(writes, k, Known))
    /\ phase = "logs" => \A t \in DOMAIN sstables : sstables[t].finished

DiskInv == starts = 1 /\ phase = "down" => DataOnDisk

FileInvs == LogInv /\ FileInv /\ PathInv /\ Log2Inv
MemInvs == MemInv /\ ServeInv /\ NextInv /\ DurableInv /\ FirstInv
AllInv == Types /\ FreshInv /\ TableInv /\ FileInvs /\ MemInvs /\ DownInv /\ DiskInv
IInv == starts \in Nat \ {0} /\ (trusted \/ starts = 1 => AllInv)

-----------------------------------------------------------------------------
(* The tables of the lists.                                                *)

LEMMA ListedFacts ==
  ASSUME Types, ListInv
  PROVE  /\ Listed \subseteq Published /\ Published \subseteq DOMAIN sstables
         /\ Published \subseteq AllTables /\ Listed \subseteq AllTables
         /\ \A l \in MergeLevels : InputTables(l) \subseteq AllTables
  BY DEF Types, TableTypes, FileTypes, ListTypes, ListInv, Published, Listed, InputTables

(* A bound for the numbers of the tables.                                  *)
LEMMA Bounded ==
  ASSUME Types
  PROVE  \E N \in Nat : \A t \in DOMAIN sstables : t[2] <= N
  BY DEF Types, TableTypes, FileTypes, ListTypes

LEMMA MergeLevelsFacts ==
  ASSUME NEW l \in MergeLevels
  PROVE  l \in Nat /\ l \in Levels /\ l + 1 \in Levels /\ l + 1 \in Nat /\ l < l + 1
  BY Constants_ DEF MergeLevels

LEMMA LevelsFacts ==
  ASSUME NEW l \in Levels
  PROVE  l \in Nat /\ l <= MAX_LEVEL
  BY Constants_

(* What a merge has as inputs is in the list of its level.                 *)
LEMMA InputsListed ==
  ASSUME Types, ListInv, NEW l \in MergeLevels, Len(readers_at_level[l]) >= COMPACTION_TRIGGER
  PROVE  InputTables(l) \subseteq Listed
<1>1. ASSUME NEW t \in InputTables(l)
      PROVE  t \in Listed
  <2>1. PICK i \in 1..COMPACTION_TRIGGER : t \in AllTables /\ t[1] = l /\ readers_at_level[l][i] = t[2]
    BY <1>1 DEF InputTables
  <2>2. readers_at_level[l] \in Seq(Nat)
    BY MergeLevelsFacts DEF Types, TableTypes, FileTypes, ListTypes
  <2>3. i \in DOMAIN readers_at_level[l]
    BY <2>1, <2>2, Constants_
  <2>4. QED
    BY <2>1, <2>3 DEF Listed, InList
<1>2. QED
  BY <1>1

(* Writes that are added do not change what the earlier ones answer.       *)
Extends(W, V) == /\ Len(W) \in Nat /\ Len(V) \in Nat /\ Len(W) <= Len(V)
                 /\ \A i \in 1..Len(W) : V[i] = W[i]

LEMMA AnswerStable ==
  ASSUME NEW W, NEW V, Extends(W, V), NEW w \in 0..Len(W)
  PROVE  /\ AnswerIn(V, w) = AnswerIn(W, w)
         /\ \A p : PurgedIn(V, p, w) = PurgedIn(W, p, w)
<1>1. w > 0 => w \in 1..Len(W)
  BY DEF Extends
<1>2. w > 0 => V[w] = W[w]
  BY <1>1 DEF Extends
<1>3. QED
  BY <1>2 DEF AnswerIn, PurgedIn, TombstoneIn

LEMMA ExtendsSame ==
  ASSUME Types
  PROVE  writes' = writes => Extends(writes, writes')
<1>1. Len(writes) \in Nat
  BY DEF Types, WriteTypes
<1>2. QED
  BY <1>1 DEF Extends

(* What is found is a write.                                               *)
LEMMA FoundIsWrite ==
  ASSUME Types, NEW X, X \subseteq DOMAIN sstables, NEW k \in Keys
  PROVE  EntryIn(sstables, X, k) \in 0..Len(writes)
<1>1. PICK N \in Nat : \A t \in DOMAIN sstables : t[2] <= N
  BY Bounded
<1>2. X \subseteq AllTables /\ (\A t \in X : t[2] <= N) /\ \A t \in X : sstables[t].data[k] \in 0..Len(writes)
  BY <1>1 DEF Types, TableTypes, FileTypes, ListTypes
<1>3. 0 \in 0..Len(writes)
  BY DEF Types, WriteTypes
<1>4. QED
  BY <1>2, <1>3, EntryRange

(* A step that leaves the lists and the files in them alone.               *)
SameTables ==
  /\ readers_at_level' = readers_at_level /\ doomed' = doomed /\ unlinked' = unlinked
  /\ \A t \in Published : t \in DOMAIN sstables' /\ sstables'[t] = sstables[t]

LEMMA SameLists ==
  ASSUME SameTables
  PROVE  /\ Listed' = Listed /\ Published' = Published
         /\ \A l \in MergeLevels : InputTables(l)' = InputTables(l)
  BY DEF SameTables, Listed, InList, Published, InputTables

LEMMA EntrySame ==
  ASSUME Types, ListInv, SameTables, NEW X, X \subseteq Published, NEW k \in Keys
  PROVE  EntryIn(sstables', X, k) = EntryIn(sstables, X, k)
<1>1. PICK N \in Nat : \A t \in DOMAIN sstables : t[2] <= N
  BY Bounded
<1>2. X \subseteq AllTables /\ (\A t \in X : t[2] <= N)
  BY <1>1, ListedFacts
<1>3. \A t \in X : sstables[t].data[k] = sstables'[t].data[k]
  BY DEF SameTables
<1>4. EntryIn(sstables, X, k) = EntryIn(sstables', X, k)
  BY <1>2, <1>3, SameFiles
<1>5. QED
  BY <1>4

LEMMA SearchSame ==
  ASSUME Types, ListInv, SameTables, Extends(writes, writes'), NEW l \in Nat, NEW k \in Keys
  PROVE  ListedFrom(l, k)' = ListedFrom(l, k) /\ PublishedFrom(l, k)' = PublishedFrom(l, k)
<1>1. PICK X, Y : X = Deeper(Listed, l) /\ Y = Deeper(Published, l)
  OBVIOUS
<1>2. X = Deeper(Listed', l) /\ Y = Deeper(Published', l)
  BY <1>1, SameLists
<1>3. X \subseteq Published /\ Y \subseteq Published /\ Published \subseteq DOMAIN sstables
  BY <1>1, ListedFacts DEF Deeper
<1>4. PICK e, f : e = EntryIn(sstables, X, k) /\ f = EntryIn(sstables, Y, k)
  OBVIOUS
<1>5. e = EntryIn(sstables', X, k) /\ f = EntryIn(sstables', Y, k)
  BY <1>3, <1>4, EntrySame
<1>6. X \subseteq DOMAIN sstables /\ Y \subseteq DOMAIN sstables
  BY <1>3
<1>7. e \in 0..Len(writes) /\ f \in 0..Len(writes)
  BY <1>4, <1>6, FoundIsWrite
<1>8. AnswerIn(writes', e) = AnswerIn(writes, e) /\ AnswerIn(writes', f) = AnswerIn(writes, f)
  BY <1>7, AnswerStable
<1>9. QED
  BY <1>1, <1>2, <1>4, <1>5, <1>8 DEF ListedFrom, PublishedFrom

LEMMA SearchKept ==
  ASSUME Types, ListInv, OutputInv, DoomedInv, RemovedInv, SameTables, Extends(writes, writes'),
         \A l \in MergeLevels : merge'[l].at = "remove" => merge[l].at = "remove"
  PROVE  /\ DoomedInv' /\ RemovedInv'
         /\ \A k \in Keys : ListedFrom(0, k)' = ListedFrom(0, k)
<1>1. DoomedInv'
  <2>1. ASSUME NEW l \in 0..(MAX_LEVEL + 1), NEW k \in Keys
        PROVE  PublishedFrom(l, k)' = ListedFrom(l, k)'
    <3>1. PublishedFrom(l, k) = ListedFrom(l, k)
      BY DEF DoomedInv
    <3>2. l \in Nat
      BY Constants_
    <3>3. QED
      BY <3>1, <3>2, SearchSame
  <2>2. QED
    BY <2>1 DEF DoomedInv
<1>2. RemovedInv'
  <2>1. ASSUME NEW l \in MergeLevels, NEW k \in Keys,
               merge'[l].at = "remove", EntryIn(sstables, InputTables(l), k)' # 0
        PROVE  ListedFrom(l + 1, k)' = AnswerIn(writes, EntryIn(sstables, InputTables(l), k))'
    <3>1. merge[l].at = "remove"
      BY <2>1
    <3>2. Len(readers_at_level[l]) >= COMPACTION_TRIGGER
      BY <3>1 DEF OutputInv, FlushOutput, MergeOutput
    <3>3. PICK X : X = InputTables(l)
      OBVIOUS
    <3>4. X \subseteq Published /\ X \subseteq DOMAIN sstables
      BY <3>2, <3>3, InputsListed, ListedFacts
    <3>5. PICK e : e = EntryIn(sstables, X, k)
      OBVIOUS
    <3>6. e = EntryIn(sstables', X, k) /\ X = InputTables(l)'
      BY <3>3, <3>4, <3>5, EntrySame, SameLists
    <3>7. e # 0
      BY <2>1, <3>6
    <3>8. ListedFrom(l + 1, k) = AnswerIn(writes, e)
      BY <3>1, <3>3, <3>5, <3>7 DEF RemovedInv
    <3>9. l + 1 \in Nat
      BY MergeLevelsFacts
    <3>10. PICK m \in Nat : m = l + 1
      BY <3>9
    <3>11. ListedFrom(m, k)' = ListedFrom(m, k)
      BY SearchSame
    <3>12. AnswerIn(writes', e) = AnswerIn(writes, e)
      BY <3>4, <3>5, FoundIsWrite, AnswerStable
    <3>13. QED
      BY <3>6, <3>8, <3>10, <3>11, <3>12
  <2>2. QED
    BY <2>1 DEF RemovedInv
<1>3. ASSUME NEW k \in Keys
      PROVE  ListedFrom(0, k)' = ListedFrom(0, k)
  <2>1. PICK m \in Nat : m = 0
    OBVIOUS
  <2>2. ListedFrom(m, k)' = ListedFrom(m, k)
    BY SearchSame
  <2>3. QED
    BY <2>1, <2>2
<1>4. QED
  BY <1>1, <1>2, <1>3

-----------------------------------------------------------------------------
(* Steps that are not about tables.                                        *)
TablesKept ==
  /\ UNCHANGED <<sstables, readers_at_level, sstable_counter, curr_max_level>>
  /\ UNCHANGED <<merge, doomed, unlinked, flush_num>>
  /\ Extends(writes, writes')
  /\ Loaded' => Loaded
  /\ \/ flusher' = flusher
     \/ flusher = "idle" /\ flusher' = "pending"
     \/ flusher = "close" /\ flusher' = "remove"
     \/ flusher = "remove" /\ flusher' = "idle"
  /\ awake' = awake \/ (awake' = awake \union {0} /\ flusher = "remove")
  /\ flusher = "publish" => memtable'[1 - active'] = memtable[1 - active]

SameAnswers == \A k \in Keys : ListedFrom(0, k)' = ListedFrom(0, k)

LEMMA KeptTables ==
  ASSUME Types, TableInv, TablesKept
  PROVE  TableInv' /\ SameAnswers
<1> USE DEF TableInv
<1>1. SameTables
  BY ListedFacts DEF TablesKept, SameTables
<1>2. Listed' = Listed /\ Published' = Published /\ \A l \in MergeLevels : InputTables(l)' = InputTables(l)
  BY <1>1, SameLists
<1>3. FlushTable' = FlushTable /\ (Writing' <=> Writing) /\ (flusher' = "publish" <=> flusher = "publish")
      /\ (flusher' = "write" <=> flusher = "write")
  BY DEF TablesKept, FlushTable, Writing
<1>4. \A l \in MergeLevels : (Merging(l)' <=> Merging(l)) /\ MergeTable(l)' = MergeTable(l)
  BY DEF TablesKept, Merging, MergeTable
<1>5. CounterInv'
  <2>1. SUFFICES ASSUME Loaded'
                 PROVE  /\ \A l \in Levels : unlinked'[l] < sstable_counter'
                        /\ \/ \A t \in DOMAIN sstables' : t[2] < sstable_counter'
                           \/ /\ awake' = {} /\ doomed' = {} /\ merge' = [l \in MergeLevels |-> Idle]
                              /\ flusher' \in {"idle", "pending"}
                              /\ \A t \in DOMAIN sstables' : /\ t[2] <= sstable_counter'
                                                             /\ t[2] = sstable_counter' => t[1] # 0
    BY DEF CounterInv
  <2>2. Loaded
    BY <2>1 DEF TablesKept
  <2>3. CASE \A t \in DOMAIN sstables : t[2] < sstable_counter
    BY <2>2, <2>3 DEF CounterInv, TablesKept
  <2>4. CASE ~\A t \in DOMAIN sstables : t[2] < sstable_counter
    <3>1. flusher \in {"idle", "pending"} /\ awake = {}
      BY <2>2, <2>4 DEF CounterInv
    <3>2. flusher' \in {"idle", "pending"} /\ awake' = {}
      BY <3>1 DEF TablesKept
    <3>3. PICK F : F = [l \in MergeLevels |-> Idle]
      OBVIOUS
    <3>4. /\ \A l \in Levels : unlinked[l] < sstable_counter
          /\ doomed = {} /\ merge = F
          /\ \A t \in DOMAIN sstables : t[2] <= sstable_counter /\ (t[2] = sstable_counter => t[1] # 0)
      BY <2>2, <2>4, <3>3 DEF CounterInv
    <3>5. /\ \A l \in Levels : unlinked'[l] < sstable_counter'
          /\ doomed' = {} /\ merge' = F
          /\ \A t \in DOMAIN sstables' : t[2] <= sstable_counter' /\ (t[2] = sstable_counter' => t[1] # 0)
      BY <3>4 DEF TablesKept
    <3>6. QED
      BY <3>2, <3>3, <3>5
  <2>5. QED
    BY <2>3, <2>4
<1>6. ListInv'
  BY <1>2, <1>3, <1>4 DEF ListInv, TablesKept
<1>7. OutputInv'
  <2>1. /\ Writing' => /\ FlushTable' \in DOMAIN sstables' /\ unlinked'[0] < flush_num'
                       /\ \A t \in Listed' \union doomed' : t[1] = 0 => t[2] < flush_num'
        /\ flusher' = "publish" => /\ sstables'[FlushTable'].finished
                                   /\ sstables'[FlushTable'].data = memtable'[1 - active']
        /\ flusher' = "write" => ~sstables'[FlushTable'].finished
    BY <1>2, <1>3 DEF OutputInv, FlushOutput, MergeOutput, TablesKept
  <2>2. ASSUME NEW l \in MergeLevels
        PROVE  /\ merge'[l].at # "idle" => Len(readers_at_level'[l]) >= COMPACTION_TRIGGER
               /\ Merging(l)' => /\ MergeTable(l)' \in DOMAIN sstables' /\ unlinked'[l + 1] < merge'[l].num
                                 /\ \A t \in Listed' \union doomed' : t[1] = l + 1 => t[2] < merge'[l].num
               /\ merge'[l].at = "write" => ~sstables'[MergeTable(l)'].finished
    BY <1>2, <1>4 DEF OutputInv, FlushOutput, MergeOutput, TablesKept
  <2>3. ASSUME NEW l \in MergeLevels, merge'[l].at = "add", NEW k \in Keys
        PROVE  /\ sstables'[MergeTable(l)'].finished
               /\ sstables'[MergeTable(l)'].data[k] =
                    PurgedIn(writes', merge'[l].purge, EntryIn(sstables', InputTables(l)', k))
    <3>1. merge[l].at = "add" /\ merge' = merge /\ sstables' = sstables
      BY <2>3 DEF TablesKept
    <3>2. /\ sstables[MergeTable(l)].finished
          /\ sstables[MergeTable(l)].data[k] =
               PurgedIn(writes, merge[l].purge, EntryIn(sstables, InputTables(l), k))
          /\ Len(readers_at_level[l]) >= COMPACTION_TRIGGER
      BY <3>1 DEF OutputInv, FlushOutput, MergeOutput
    <3>3. PICK X, e, t, p : X = InputTables(l) /\ e = EntryIn(sstables, X, k) /\ t = MergeTable(l) /\ p = merge[l].purge
      OBVIOUS
    <3>4. X \subseteq DOMAIN sstables
      BY <3>2, <3>3, InputsListed, ListedFacts
    <3>5. e \in 0..Len(writes)
      BY <3>3, <3>4, FoundIsWrite
    <3>6. PurgedIn(writes', p, e) = PurgedIn(writes, p, e)
      BY <3>5, AnswerStable DEF TablesKept
    <3>7. t = MergeTable(l)' /\ X = InputTables(l)' /\ e = EntryIn(sstables', X, k)
      BY <1>2, <1>4, <3>1, <3>3
    <3>8. QED
      BY <3>1, <3>2, <3>3, <3>6, <3>7
  <2>4. ASSUME NEW l \in MergeLevels, merge'[l].at = "add"
        PROVE  sstables'[MergeTable(l)'].finished
    BY <1>4, <2>4 DEF OutputInv, FlushOutput, MergeOutput, TablesKept
  <2>5. QED
    BY <2>1, <2>2, <2>3, <2>4 DEF OutputInv, FlushOutput, MergeOutput
<1>8. PurgeInv'
  <2>1. \A l \in awake' : l <= curr_max_level'
    <3>1. 0 <= curr_max_level
      BY LevelsFacts DEF Types, TableTypes, FileTypes, ListTypes
    <3>2. QED
      BY <3>1 DEF TablesKept, PurgeInv
  <2>2. QED
    BY <1>4, <2>1 DEF PurgeInv, TablesKept
<1>9. \A l \in MergeLevels : merge'[l].at = "remove" => merge[l].at = "remove"
  BY DEF TablesKept
<1>10. Extends(writes, writes')
  BY DEF TablesKept
<1>11. DoomedInv' /\ RemovedInv' /\ \A k \in Keys : ListedFrom(0, k)' = ListedFrom(0, k)
  BY <1>1, <1>9, <1>10, SearchKept
<1>12. QED
  BY <1>5, <1>6, <1>7, <1>8, <1>11 DEF SameAnswers

-----------------------------------------------------------------------------
LEMMA UnfinishedFacts == ~Unfinished.finished /\ \A n \in Nat : Unfinished.data \in [Keys -> 0..n]
  BY DEF Unfinished, Empty

LEMMA SlotFacts ==
  ASSUME Types
  PROVE  active \in Slots /\ 1 - active \in Slots /\ active # 1 - active /\ \A i \in Slots : i = active \/ i = 1 - active
<1>1. active \in Slots
  BY DEF Types, ControlTypes
<1>2. QED
  BY <1>1, Constants_

LEMMA WorksIsLoaded == Works => Live /\ Loaded /\ ~Fresh
  BY DEF Works, Live, Loaded, Fresh

(* The number that is given out next is new in level 0, and in all levels  *)
(* once a compactor is awake.                                              *)
LEMMA NextNumberIsNew ==
  ASSUME Types, CounterInv, Loaded
  PROVE  /\ \A t \in DOMAIN sstables : t[1] = 0 => t[2] < sstable_counter
         /\ awake # {} \/ doomed # {} => \A t \in DOMAIN sstables : t[2] < sstable_counter
         /\ \A t \in DOMAIN sstables : t[2] <= sstable_counter
         /\ \A l \in Levels : unlinked[l] < sstable_counter
<1>1. \A t \in DOMAIN sstables : t[2] \in Nat
  BY AllTablesFacts DEF Types, TableTypes, FileTypes, ListTypes
<1>2. sstable_counter \in Nat
  BY DEF Types, TableTypes, FileTypes, ListTypes
<1>3. CASE \A t \in DOMAIN sstables : t[2] < sstable_counter
  BY <1>1, <1>2, <1>3 DEF CounterInv
<1>4. CASE ~\A t \in DOMAIN sstables : t[2] < sstable_counter
  <2>1. /\ \A t \in DOMAIN sstables : t[2] <= sstable_counter /\ (t[2] = sstable_counter => t[1] # 0)
        /\ awake = {} /\ doomed = {} /\ \A l \in Levels : unlinked[l] < sstable_counter
    BY <1>4 DEF CounterInv
  <2>2. QED
    BY <1>1, <1>2, <2>1
<1>5. QED
  BY <1>3, <1>4

(* A file is opened, or written, that no list has.                         *)
FileWritten(t) ==
  /\ UNCHANGED <<readers_at_level, doomed, unlinked, writes>>
  /\ t \notin Listed /\ t \notin doomed
  /\ DOMAIN sstables' = DOMAIN sstables \union {t}
  /\ \A u \in DOMAIN sstables : u # t => sstables'[u] = sstables[u]

LEMMA WrittenUnlisted ==
  ASSUME Types, ListInv, OutputInv, DoomedInv, RemovedInv, NEW t \in AllTables, FileWritten(t),
         sstables'[t].finished \in BOOLEAN, sstables'[t].data \in [Keys -> 0..Len(writes)],
         \A l \in MergeLevels : merge'[l].at = "remove" => merge[l].at = "remove"
  PROVE  /\ Listed' = Listed /\ Published' = Published
         /\ \A u \in DOMAIN sstables' : /\ u \in AllTables /\ sstables'[u].finished \in BOOLEAN
                                        /\ sstables'[u].data \in [Keys -> 0..Len(writes')]
         /\ \E N \in Nat : \A u \in DOMAIN sstables' : u[2] <= N
         /\ DoomedInv' /\ RemovedInv' /\ SameAnswers
         /\ \A l \in MergeLevels : Len(readers_at_level[l]) >= COMPACTION_TRIGGER =>
              /\ InputTables(l)' = InputTables(l)
              /\ \A k \in Keys : EntryIn(sstables, InputTables(l), k)' = EntryIn(sstables, InputTables(l), k)
<1>1. SameTables
  BY ListedFacts DEF SameTables, FileWritten, Published
<1>2. Listed' = Listed /\ Published' = Published /\ \A l \in MergeLevels : InputTables(l)' = InputTables(l)
  BY <1>1, SameLists
<1>3. Extends(writes, writes')
  BY ExtendsSame DEF FileWritten
<1>4. DoomedInv' /\ RemovedInv' /\ \A k \in Keys : ListedFrom(0, k)' = ListedFrom(0, k)
  BY <1>1, <1>3, SearchKept
<1>5. \A u \in DOMAIN sstables' : /\ u \in AllTables /\ sstables'[u].finished \in BOOLEAN
                                  /\ sstables'[u].data \in [Keys -> 0..Len(writes')]
  BY DEF FileWritten, Types, TableTypes, FileTypes, ListTypes
<1>6. \E N \in Nat : \A u \in DOMAIN sstables' : u[2] <= N
  <2>1. PICK N \in Nat : \A u \in DOMAIN sstables : u[2] <= N
    BY Bounded
  <2>2. PICK M \in Nat : M = IF N <= t[2] THEN t[2] ELSE N
    BY AllTablesFacts
  <2>3. \A u \in DOMAIN sstables' : u[2] <= M
    <3>1. \A u \in DOMAIN sstables : u[2] \in Nat
      BY AllTablesFacts DEF Types, TableTypes, FileTypes, ListTypes
    <3>2. t[2] \in Nat
      BY AllTablesFacts
    <3>3. QED
      BY <2>1, <2>2, <3>1, <3>2 DEF FileWritten
  <2>4. QED
    BY <2>3
<1>7. ASSUME NEW l \in MergeLevels, Len(readers_at_level[l]) >= COMPACTION_TRIGGER, NEW k \in Keys
      PROVE  EntryIn(sstables, InputTables(l), k)' = EntryIn(sstables, InputTables(l), k)
  <2>1. PICK X : X = InputTables(l)
    OBVIOUS
  <2>2. X \subseteq Published
    BY <1>7, <2>1, InputsListed, ListedFacts
  <2>3. EntryIn(sstables', X, k) = EntryIn(sstables, X, k)
    BY <1>1, <2>2, EntrySame
  <2>4. QED
    BY <1>2, <2>1, <2>3
<1>8. QED
  BY <1>2, <1>4, <1>5, <1>6, <1>7 DEF SameAnswers

LEMMA WrittenMerge ==
  ASSUME Types, ListInv, OutputInv, DoomedInv, RemovedInv, NEW t \in AllTables, FileWritten(t),
         NEW l \in MergeLevels, merge'[l] = merge[l], Merging(l) => MergeTable(l) # t
  PROVE  MergeOutput(l)'
<1>1. SameTables
  BY ListedFacts DEF SameTables, FileWritten, Published
<1>2. Listed' = Listed /\ InputTables(l)' = InputTables(l)
  BY <1>1, SameLists
<1>3. (Merging(l)' <=> Merging(l)) /\ MergeTable(l)' = MergeTable(l)
  BY DEF Merging, MergeTable
<1>4. Merging(l) => MergeTable(l) \in DOMAIN sstables
  BY DEF OutputInv, MergeOutput
<1>5. Merging(l) => MergeTable(l) \in DOMAIN sstables' /\ sstables'[MergeTable(l)] = sstables[MergeTable(l)]
  BY <1>4 DEF FileWritten
<1>6. /\ merge'[l].at # "idle" => Len(readers_at_level'[l]) >= COMPACTION_TRIGGER
      /\ Merging(l)' => /\ MergeTable(l)' \in DOMAIN sstables' /\ unlinked'[l + 1] < merge'[l].num
                        /\ \A u \in Listed' \union doomed' : u[1] = l + 1 => u[2] < merge'[l].num
  BY <1>2, <1>3, <1>5 DEF OutputInv, MergeOutput, FileWritten
<1>7. merge'[l].at = "write" => ~sstables'[MergeTable(l)'].finished
  BY <1>3, <1>5 DEF OutputInv, MergeOutput, Merging
<1>8. ASSUME merge'[l].at = "add"
      PROVE  /\ sstables'[MergeTable(l)'].finished
             /\ \A k \in Keys : sstables'[MergeTable(l)'].data[k] =
                  PurgedIn(writes', merge'[l].purge, EntryIn(sstables', InputTables(l)', k))
  <2>1. merge[l].at = "add" /\ Merging(l)
    BY <1>8 DEF Merging
  <2>2. /\ sstables[MergeTable(l)].finished
        /\ \A k \in Keys : sstables[MergeTable(l)].data[k] =
             PurgedIn(writes, merge[l].purge, EntryIn(sstables, InputTables(l), k))
        /\ Len(readers_at_level[l]) >= COMPACTION_TRIGGER
    BY <2>1 DEF OutputInv, MergeOutput
  <2>3. PICK X : X = InputTables(l)
    OBVIOUS
  <2>4. X \subseteq Published
    BY <2>2, <2>3, InputsListed, ListedFacts
  <2>5. \A k \in Keys : EntryIn(sstables', X, k) = EntryIn(sstables, X, k)
    BY <1>1, <2>4, EntrySame
  <2>6. writes' = writes
    BY DEF FileWritten
  <2>7. QED
    BY <1>2, <1>3, <1>5, <2>1, <2>2, <2>3, <2>5, <2>6
<1>9. QED
  BY <1>6, <1>7, <1>8 DEF MergeOutput

(* The file that is written is one that a flush or a merge writes.         *)
LEMMA WrittenList ==
  ASSUME Types, ListInv, NEW t \in AllTables, FileWritten(t), Loaded,
         Writing /\ FlushTable # t => Writing' /\ FlushTable' = FlushTable,
         \A l \in MergeLevels : Merging(l) /\ MergeTable(l) # t => Merging(l)' /\ MergeTable(l)' = MergeTable(l),
         \/ Writing' /\ t = FlushTable'
         \/ \E l \in MergeLevels : Merging(l)' /\ t = MergeTable(l)'
  PROVE  ListInv'
<1>1. SameTables
  BY ListedFacts DEF SameTables, FileWritten, Published
<1>2. Listed' = Listed
  BY <1>1, SameLists
<1>3. ASSUME NEW u \in DOMAIN sstables'
      PROVE  \/ u \in Listed' \/ u \in doomed' \/ (Writing' /\ u = FlushTable')
             \/ \E l \in MergeLevels : Merging(l)' /\ u = MergeTable(l)'
  <2>1. CASE u = t
    BY <2>1
  <2>2. CASE u # t
    <3>1. u \in DOMAIN sstables /\ doomed' = doomed
      BY <2>2 DEF FileWritten
    <3>2. \/ u \in Listed \/ u \in doomed \/ (Writing /\ u = FlushTable)
          \/ \E l \in MergeLevels : Merging(l) /\ u = MergeTable(l)
      BY <3>1 DEF ListInv
    <3>3. QED
      BY <1>2, <2>2, <3>1, <3>2
  <2>3. QED
    BY <2>1, <2>2
<1>4. \A u \in Listed' : u \in DOMAIN sstables' /\ sstables'[u].finished /\ u[2] > unlinked'[u[1]]
  BY <1>2 DEF ListInv, FileWritten
<1>5. \A u \in doomed' : sstables'[u].finished /\ u \notin Listed'
  BY <1>2 DEF ListInv, FileWritten, Types, TableTypes, ListTypes
<1>6. /\ \A u \in doomed', v \in Listed' : u[1] = v[1] => u[2] < v[2]
      /\ \A l \in Levels : \A i, j \in DOMAIN readers_at_level'[l] :
           i < j => readers_at_level'[l][i] < readers_at_level'[l][j]
  BY <1>2 DEF ListInv, FileWritten
<1>7. QED
  BY <1>3, <1>4, <1>5, <1>6 DEF ListInv

-----------------------------------------------------------------------------
(* The flusher and the tables.                                             *)

LEMMA CreateTableTables ==
  ASSUME Types, TableInv, CreateTable
  PROVE  TableTypes' /\ TableInv' /\ SameAnswers
<1> USE DEF TableInv
<1>1. Loaded /\ Loaded'
  BY WorksIsLoaded DEF CreateTable, Loaded
<1>2. PICK c \in Nat : c = sstable_counter
  BY DEF Types, TableTypes, FileTypes, ListTypes
<1>3. PICK t \in AllTables : t = <<0, c>>
  <2>1. 0 \in Levels
    BY Constants_
  <2>2. <<0, c>> \in AllTables
    BY <2>1, TableName
  <2>3. QED
    BY <2>2
<1>4. /\ \A u \in DOMAIN sstables : u[1] = 0 => u[2] < c
      /\ \A u \in DOMAIN sstables : u[2] <= c
      /\ \A l \in Levels : unlinked[l] < c
  BY <1>1, <1>2, NextNumberIsNew
<1>5. t \notin DOMAIN sstables /\ t[1] = 0 /\ t[2] = c
  BY <1>2, <1>3, <1>4
<1>6. /\ flusher = "pending" /\ flusher' = "write" /\ flush_num' = c /\ sstable_counter' = c + 1
      /\ DOMAIN sstables' = DOMAIN sstables \union {t} /\ sstables'[t] = Unfinished
      /\ \A u \in DOMAIN sstables : sstables'[u] = sstables[u]
      /\ UNCHANGED <<readers_at_level, curr_max_level, merge, awake, doomed, unlinked, writes, memtable, active>>
  <2>1. sstables' = Opened(sstables, t, Unfinished)
    BY <1>2, <1>3 DEF CreateTable
  <2>2. /\ DOMAIN sstables' = DOMAIN sstables \union {t} /\ sstables'[t] = Unfinished
        /\ \A u \in DOMAIN sstables : u # t => sstables'[u] = sstables[u]
    BY <2>1 DEF Opened
  <2>3. QED
    BY <1>2, <1>5, <2>2 DEF CreateTable, memVars, mergeVars
<1>7. FileWritten(t)
  BY <1>5, <1>6 DEF FileWritten, ListInv, Types, TableTypes, FileTypes, ListTypes
<1>8. sstables'[t].finished \in BOOLEAN /\ sstables'[t].data \in [Keys -> 0..Len(writes)]
  BY <1>6, UnfinishedFacts DEF Types, WriteTypes, Unfinished
<1>9. \A l \in MergeLevels : merge'[l].at = "remove" => merge[l].at = "remove"
  BY <1>6
<1>10. /\ Listed' = Listed /\ Published' = Published
       /\ \A u \in DOMAIN sstables' : /\ u \in AllTables /\ sstables'[u].finished \in BOOLEAN
                                      /\ sstables'[u].data \in [Keys -> 0..Len(writes')]
       /\ \E N \in Nat : \A u \in DOMAIN sstables' : u[2] <= N
       /\ DoomedInv' /\ RemovedInv' /\ SameAnswers
       /\ \A l \in MergeLevels : Len(readers_at_level[l]) >= COMPACTION_TRIGGER =>
            /\ InputTables(l)' = InputTables(l)
            /\ \A k \in Keys : EntryIn(sstables, InputTables(l), k)' = EntryIn(sstables, InputTables(l), k)
  BY <1>7, <1>8, <1>9, WrittenUnlisted
<1>11. TableTypes'
  <2>1. ListTypes'
    BY <1>2, <1>6 DEF Types, TableTypes, ListTypes
  <2>2. QED
    BY <1>10, <2>1 DEF TableTypes, FileTypes
<1>12. FlushTable' = t /\ Writing' /\ ~Writing
  BY <1>3, <1>6 DEF FlushTable, Writing
<1>13. \A l \in MergeLevels : /\ (Merging(l)' <=> Merging(l)) /\ MergeTable(l)' = MergeTable(l)
                              /\ MergeTable(l) # t
  BY <1>3, <1>6, MergeLevelsFacts DEF Merging, MergeTable
<1>14. CounterInv'
  <2>1. c + 1 \in Nat /\ \A u \in DOMAIN sstables' : u[2] \in Nat /\ u[2] < c + 1
    BY <1>4, <1>5, <1>6, <1>10, AllTablesFacts
  <2>2. \A l \in Levels : unlinked'[l] < sstable_counter'
    BY <1>4, <1>6 DEF Types, TableTypes, FileTypes, ListTypes
  <2>3. QED
    BY <1>6, <2>1, <2>2 DEF CounterInv
<1>15. ListInv'
  BY <1>1, <1>7, <1>12, <1>13, WrittenList
<1>16. OutputInv'
  <2>1. /\ FlushTable' \in DOMAIN sstables' /\ unlinked'[0] < flush_num'
        /\ \A u \in Listed' \union doomed' : u[1] = 0 => u[2] < flush_num'
        /\ ~sstables'[FlushTable'].finished
    BY <1>4, <1>6, <1>10, <1>12, UnfinishedFacts, Constants_ DEF ListInv, Types, TableTypes, FileTypes, ListTypes
  <2>2. FlushOutput'
    BY <1>6, <2>1 DEF FlushOutput
  <2>3. ASSUME NEW l \in MergeLevels
        PROVE  MergeOutput(l)'
    BY <1>6, <1>7, <1>13, WrittenMerge
  <2>4. QED
    BY <2>2, <2>3 DEF OutputInv
<1>17. PurgeInv'
  BY <1>1, <1>6, <1>13 DEF PurgeInv
<1>18. QED
  BY <1>10, <1>11, <1>14, <1>15, <1>16, <1>17

LEMMA FinishTableTables ==
  ASSUME Types, TableInv, FinishTable
  PROVE  TableTypes' /\ TableInv' /\ SameAnswers
<1> USE DEF TableInv
<1>1. Loaded /\ Loaded'
  BY WorksIsLoaded DEF FinishTable, Loaded
<1>2. PICK t \in AllTables : t = FlushTable
  BY DEF FinishTable, OutputInv, FlushOutput, Writing, Types, TableTypes, FileTypes
<1>3. t[1] = 0 /\ t[2] = flush_num
  BY <1>2 DEF FlushTable
<1>4. PICK m : m = memtable[1 - active]
  OBVIOUS
<1>5. m \in [Keys -> 0..Len(writes)]
  BY <1>4, SlotFacts DEF Types, LogTypes
<1>6. t \in DOMAIN sstables /\ unlinked[0] < flush_num /\ \A u \in Listed \union doomed : u[1] = 0 => u[2] < flush_num
  BY <1>2 DEF FinishTable, OutputInv, FlushOutput, Writing
<1>7. /\ flusher = "write" /\ flusher' = "publish" /\ sstables'[t].finished /\ sstables'[t].data = m
      /\ DOMAIN sstables' = DOMAIN sstables
      /\ \A u \in DOMAIN sstables : u # t => sstables'[u] = sstables[u]
      /\ UNCHANGED <<readers_at_level, curr_max_level, merge, awake, doomed, unlinked, writes, memtable, active>>
      /\ UNCHANGED <<flush_num, sstable_counter>>
  BY <1>2, <1>4, <1>6 DEF FinishTable, FlushTable, memVars, mergeVars, tableVars
<1>8. t \notin Listed /\ t \notin doomed
  <2>1. ~(t[2] < t[2])
    BY AllTablesFacts
  <2>2. QED
    BY <1>3, <1>6, <2>1
<1>9. FileWritten(t)
  BY <1>6, <1>7, <1>8 DEF FileWritten
<1>10. sstables'[t].finished \in BOOLEAN /\ sstables'[t].data \in [Keys -> 0..Len(writes)]
  <2>1. sstables'[t].finished = TRUE
    BY <1>2, <1>6 DEF FinishTable, FlushTable
  <2>2. QED
    BY <1>5, <1>7, <2>1
<1>11. \A l \in MergeLevels : merge'[l].at = "remove" => merge[l].at = "remove"
  BY <1>7
<1>12. /\ Listed' = Listed
       /\ \A u \in DOMAIN sstables' : /\ u \in AllTables /\ sstables'[u].finished \in BOOLEAN
                                      /\ sstables'[u].data \in [Keys -> 0..Len(writes')]
       /\ \E N \in Nat : \A u \in DOMAIN sstables' : u[2] <= N
       /\ DoomedInv' /\ RemovedInv' /\ SameAnswers
  BY <1>9, <1>10, <1>11, WrittenUnlisted
<1>13. TableTypes'
  <2>1. ListTypes'
    BY <1>7 DEF Types, TableTypes, ListTypes
  <2>2. QED
    BY <1>12, <2>1 DEF TableTypes, FileTypes
<1>14. FlushTable' = t /\ FlushTable = t /\ Writing' /\ Writing
  BY <1>2, <1>7 DEF FlushTable, Writing
<1>15. \A l \in MergeLevels : /\ (Merging(l)' <=> Merging(l)) /\ MergeTable(l)' = MergeTable(l)
                              /\ MergeTable(l) # t
  BY <1>3, <1>7, MergeLevelsFacts DEF Merging, MergeTable
<1>16. CounterInv'
  <2>1. \A u \in DOMAIN sstables : u[2] < sstable_counter
    BY <1>1, <1>7 DEF CounterInv
  <2>2. QED
    BY <1>1, <1>7, <2>1 DEF CounterInv
<1>17. ListInv'
  BY <1>1, <1>9, <1>14, <1>15, WrittenList
<1>18. OutputInv'
  <2>1. FlushOutput'
    BY <1>4, <1>6, <1>7, <1>12, <1>14 DEF FlushOutput
  <2>2. ASSUME NEW l \in MergeLevels
        PROVE  MergeOutput(l)'
    BY <1>7, <1>9, <1>15, WrittenMerge
  <2>3. QED
    BY <2>1, <2>2 DEF OutputInv
<1>19. PurgeInv'
  BY <1>1, <1>7, <1>15 DEF PurgeInv
<1>20. QED
  BY <1>12, <1>13, <1>16, <1>17, <1>18, <1>19

-----------------------------------------------------------------------------
(* The merges and their files.                                             *)

LEMMA StartMergeTables ==
  ASSUME Types, TableInv, NEW j \in MergeLevels, StartMerge(j)
  PROVE  TableTypes' /\ TableInv' /\ SameAnswers
<1> USE DEF TableInv
<1>1. Loaded /\ Loaded'
  BY WorksIsLoaded DEF StartMerge, Loaded
<1>2. PICK c \in Nat : c = sstable_counter
  BY DEF Types, TableTypes, ListTypes
<1>3. j + 1 \in Levels /\ j \in Levels /\ j \in Nat /\ j + 1 \in Nat
  BY MergeLevelsFacts
<1>4. PICK t \in AllTables : t = <<j + 1, c>>
  BY <1>3, TableName
<1>5. /\ \A u \in DOMAIN sstables : u[2] < c
      /\ \A l \in Levels : unlinked[l] < c
  BY <1>1, <1>2, NextNumberIsNew DEF StartMerge
<1>6. t \notin DOMAIN sstables /\ t[1] = j + 1 /\ t[2] = c
  BY <1>2, <1>4, <1>5
<1>7. PICK r \in Merges : r = [at |-> "write", num |-> c, purge |-> j = curr_max_level]
  <2>1. PICK p \in BOOLEAN : p = (j = curr_max_level)
    OBVIOUS
  <2>2. [at |-> "write", num |-> c, purge |-> p] \in Merges
    BY DEF Merges
  <2>3. QED
    BY <2>1, <2>2
<1>8. r.at = "write" /\ r.num = c /\ (r.purge <=> j = curr_max_level)
  BY <1>7
<1>9. /\ merge[j].at = "idle" /\ merge' = [merge EXCEPT ![j] = r] /\ sstable_counter' = c + 1
      /\ j \in awake /\ Len(readers_at_level[j]) >= COMPACTION_TRIGGER
      /\ UNCHANGED <<readers_at_level, curr_max_level, awake, doomed, unlinked, writes, memtable, active>>
      /\ UNCHANGED <<flusher, flush_num>>
  BY <1>2, <1>7 DEF StartMerge, memVars, flushVars
<1>10. merge \in [MergeLevels -> Merges]
  BY DEF Types, TableTypes, ListTypes
<1>11. merge'[j] = r /\ \A l \in MergeLevels : l # j => merge'[l] = merge[l]
  BY <1>9, <1>10
<1>12. /\ DOMAIN sstables' = DOMAIN sstables \union {t} /\ sstables'[t] = Unfinished
       /\ \A u \in DOMAIN sstables : sstables'[u] = sstables[u]
  <2>1. sstables' = Opened(sstables, t, Unfinished)
    BY <1>2, <1>4 DEF StartMerge
  <2>2. QED
    BY <1>6, <2>1 DEF Opened
<1>13. FileWritten(t)
  BY <1>6, <1>9, <1>12 DEF FileWritten, ListInv, Types, TableTypes, ListTypes
<1>14. sstables'[t].finished \in BOOLEAN /\ sstables'[t].data \in [Keys -> 0..Len(writes)]
  BY <1>12, UnfinishedFacts DEF Types, WriteTypes, Unfinished
<1>15. \A l \in MergeLevels : merge'[l].at = "remove" => merge[l].at = "remove"
  BY <1>8, <1>11
<1>16. /\ Listed' = Listed
       /\ \A u \in DOMAIN sstables' : /\ u \in AllTables /\ sstables'[u].finished \in BOOLEAN
                                      /\ sstables'[u].data \in [Keys -> 0..Len(writes')]
       /\ \E N \in Nat : \A u \in DOMAIN sstables' : u[2] <= N
       /\ DoomedInv' /\ RemovedInv' /\ SameAnswers
  BY <1>13, <1>14, <1>15, WrittenUnlisted
<1>17. TableTypes'
  <2>1. merge' \in [MergeLevels -> Merges]
    BY <1>9, <1>10
  <2>2. ListTypes'
    BY <1>2, <1>9, <1>12, <2>1 DEF Types, TableTypes, ListTypes
  <2>3. QED
    BY <1>16, <2>2 DEF TableTypes, FileTypes
<1>18. FlushTable' = FlushTable /\ (Writing' <=> Writing) /\ FlushTable # t
  BY <1>3, <1>6, <1>9 DEF FlushTable, Writing
<1>19. Merging(j)' /\ MergeTable(j)' = t /\ ~Merging(j)
  BY <1>4, <1>8, <1>9, <1>11 DEF Merging, MergeTable
<1>20. \A l \in MergeLevels : l # j =>
         (Merging(l)' <=> Merging(l)) /\ MergeTable(l)' = MergeTable(l) /\ MergeTable(l) # t
  BY <1>3, <1>6, <1>11, MergeLevelsFacts DEF Merging, MergeTable
<1>21. CounterInv'
  <2>1. c + 1 \in Nat /\ \A u \in DOMAIN sstables' : u[2] \in Nat /\ u[2] < c + 1
    BY <1>5, <1>6, <1>12, <1>16, AllTablesFacts
  <2>2. \A l \in Levels : unlinked'[l] < sstable_counter'
    BY <1>5, <1>9 DEF Types, TableTypes, ListTypes
  <2>3. QED
    BY <1>9, <2>1, <2>2 DEF CounterInv
<1>22. ListInv'
  <2>1. \A l \in MergeLevels : Merging(l) /\ MergeTable(l) # t => Merging(l)' /\ MergeTable(l)' = MergeTable(l)
    BY <1>19, <1>20
  <2>2. Writing /\ FlushTable # t => Writing' /\ FlushTable' = FlushTable
    BY <1>18
  <2>3. QED
    BY <1>1, <1>13, <1>19, <2>1, <2>2, WrittenList
<1>23. OutputInv'
  <2>1. FlushOutput'
    <3>1. Writing => FlushTable \in DOMAIN sstables
      BY DEF OutputInv, FlushOutput
    <3>2. flusher = "publish" \/ flusher = "write" => Writing
      BY DEF Writing
    <3>3. QED
      BY <1>9, <1>12, <1>16, <1>18, <3>1, <3>2 DEF OutputInv, FlushOutput
  <2>2. ASSUME NEW l \in MergeLevels
        PROVE  MergeOutput(l)'
    <3>1. CASE l # j
      BY <1>11, <1>13, <1>20, <3>1, WrittenMerge
    <3>2. CASE l = j
      <4>1. unlinked'[j + 1] < merge'[j].num /\ MergeTable(j)' \in DOMAIN sstables'
        BY <1>3, <1>5, <1>8, <1>9, <1>11, <1>12, <1>19
      <4>2. \A u \in Listed' \union doomed' : u[1] = j + 1 => u[2] < merge'[j].num
        BY <1>5, <1>8, <1>9, <1>11, <1>16 DEF ListInv, Types, TableTypes, ListTypes
      <4>3. ~sstables'[MergeTable(j)'].finished
        BY <1>12, <1>19, UnfinishedFacts
      <4>4. MergeOutput(j)'
        BY <1>8, <1>9, <1>11, <4>1, <4>2, <4>3 DEF MergeOutput
      <4>5. QED
        BY <3>2, <4>4
    <3>3. QED
      BY <3>1, <3>2
  <2>3. QED
    BY <2>1, <2>2 DEF OutputInv
<1>24. PurgeInv'
  <2>1. j <= curr_max_level
    BY <1>9 DEF PurgeInv
  <2>2. \A l \in MergeLevels : merge'[l].at # "idle" => l <= curr_max_level'
    BY <1>9, <1>11, <2>1 DEF PurgeInv
  <2>3. ASSUME NEW l \in MergeLevels, Merging(l)', merge'[l].purge, NEW m \in Levels, m > l
        PROVE  readers_at_level'[m] = <<>>
    <3>1. CASE l # j
      BY <1>9, <1>11, <1>20, <2>3, <3>1 DEF PurgeInv
    <3>2. CASE l = j
      <4>1. j = curr_max_level
        BY <1>8, <1>11, <2>3, <3>2
      <4>2. merge[curr_max_level].at # "remove"
        BY <1>9, <4>1
      <4>3. QED
        BY <1>1, <1>9, <2>3, <3>2, <4>1, <4>2 DEF PurgeInv
    <3>3. QED
      BY <3>1, <3>2
  <2>4. ASSUME NEW m \in Levels, m > curr_max_level', readers_at_level'[m] # <<>>
        PROVE  m = curr_max_level' + 1 /\ merge'[curr_max_level'].at = "remove"
    <3>1. m = curr_max_level + 1 /\ merge[curr_max_level].at = "remove"
      BY <1>1, <1>9, <2>4 DEF PurgeInv
    <3>2. curr_max_level \in MergeLevels
      BY <3>1, LevelsFacts, Constants_ DEF MergeLevels, Types, TableTypes, ListTypes
    <3>3. QED
      BY <1>9, <1>11, <3>1, <3>2
  <2>5. QED
    BY <1>9, <2>2, <2>3, <2>4 DEF PurgeInv
<1>25. QED
  BY <1>16, <1>17, <1>21, <1>22, <1>23, <1>24

(* The youngest entry of tables of one level is what a search finds first. *)
YoungestIn(D, l, ns, k) ==
  LET holding == {i \in DOMAIN ns : D[<<l, ns[i]>>].data[k] # 0}
  IN  IF holding = {} THEN 0 ELSE D[<<l, ns[Max(holding)]>>].data[k]

TablesOf(l, ns) == {t \in AllTables : t[1] = l /\ \E i \in DOMAIN ns : ns[i] = t[2]}

LEMMA YoungestIsFound ==
  ASSUME NEW D, NEW l \in Levels, NEW ns \in Seq(Nat), NEW k,
         \A i, j \in DOMAIN ns : i < j => ns[i] < ns[j]
  PROVE  YoungestIn(D, l, ns, k) = EntryIn(D, TablesOf(l, ns), k)
<1>0. PICK X : X = TablesOf(l, ns)
  OBVIOUS
<1>1. PICK H : H = {i \in DOMAIN ns : D[<<l, ns[i]>>].data[k] # 0}
  OBVIOUS
<1>2. PICK n \in Nat : n = Len(ns) /\ DOMAIN ns = 1..n
  OBVIOUS
<1>3. \A i \in 1..n : ns[i] \in Nat
  BY <1>2
<1>4. \A i \in 1..n : <<l, ns[i]>> \in X
  BY <1>0, <1>2, <1>3, TableName DEF TablesOf
<1>5. \A t \in X : \E i \in 1..n : t = <<l, ns[i]>>
  <2>1. ASSUME NEW t \in X
        PROVE  \E i \in 1..n : t = <<l, ns[i]>>
    <3>1. t \in AllTables /\ t[1] = l
      BY <1>0 DEF TablesOf
    <3>2. PICK i \in 1..n : ns[i] = t[2]
      BY <1>0, <1>2 DEF TablesOf
    <3>3. t = <<t[1], t[2]>>
      BY <3>1, AllTablesFacts
    <3>4. QED
      BY <3>1, <3>2, <3>3
  <2>2. QED
    BY <2>1
<1>6. CASE H = {}
  <2>1. \A t \in X : D[t].data[k] = 0
    BY <1>1, <1>2, <1>5, <1>6
  <2>2. EntryIn(D, X, k) = 0
    BY <2>1, NoHolder
  <2>3. YoungestIn(D, l, ns, k) = 0
    BY <1>1, <1>6 DEF YoungestIn
  <2>4. QED
    BY <1>0, <2>2, <2>3
<1>7. CASE H # {}
  <2>1. H \subseteq 0..n
    BY <1>1, <1>2
  <2>2. PICK i : i = Max(H)
    OBVIOUS
  <2>3. i \in H /\ \A h \in H : h <= i
    BY <1>7, <2>1, <2>2, MaxFacts
  <2>4. PICK t : t = <<l, ns[i]>>
    OBVIOUS
  <2>5. i \in 1..n /\ t \in X /\ D[t].data[k] # 0
    BY <1>1, <1>2, <1>4, <2>3, <2>4
  <2>6. ASSUME NEW u \in Holders(D, X, k), u # t
        PROVE  Before(t, u)
    <3>1. u \in X /\ D[u].data[k] # 0
      BY <2>6 DEF Holders
    <3>2. PICK h \in 1..n : u = <<l, ns[h]>>
      BY <1>5, <3>1
    <3>3. h \in H
      BY <1>1, <1>2, <3>1, <3>2
    <3>4. h <= i /\ h # i
      BY <2>3, <2>4, <2>6, <3>2, <3>3
    <3>5. ns[h] < ns[i]
      BY <1>2, <2>5, <3>4
    <3>6. QED
      BY <1>3, <2>4, <2>5, <3>2, <3>5 DEF Before
  <2>7. IsTop(D, X, k, t)
    BY <2>5, <2>6 DEF IsTop, Holders
  <2>8. X \subseteq AllTables
    BY <1>0 DEF TablesOf
  <2>9. EntryIn(D, X, k) = D[t].data[k]
    BY <2>7, <2>8, TopIsEntry
  <2>10. YoungestIn(D, l, ns, k) = D[t].data[k]
    BY <1>1, <1>7, <2>2, <2>4 DEF YoungestIn
  <2>11. QED
    BY <1>0, <2>9, <2>10
<1>8. QED
  BY <1>0, <1>6, <1>7

LEMMA MergedIs ==
  ASSUME Types, ListInv, NEW l \in MergeLevels, Len(readers_at_level[l]) >= COMPACTION_TRIGGER,
         NEW k \in Keys
  PROVE  Merged(l)[k] = PurgedIn(writes, merge[l].purge, EntryIn(sstables, InputTables(l), k))
<1>1. PICK s : s = readers_at_level[l]
  OBVIOUS
<1>2. s \in Seq(Nat) /\ Len(s) >= COMPACTION_TRIGGER /\ l \in Levels
  BY <1>1, MergeLevelsFacts DEF Types, TableTypes, ListTypes
<1>3. PICK ns : ns = Inputs(l)
  OBVIOUS
<1>4. ns = SubSeq(s, 1, COMPACTION_TRIGGER)
  BY <1>1, <1>3 DEF Inputs
<1>5. /\ ns \in Seq(Nat) /\ DOMAIN ns = 1..COMPACTION_TRIGGER
      /\ \A i \in 1..COMPACTION_TRIGGER : ns[i] = s[i]
  BY <1>2, <1>4, Constants_
<1>6. \A i, j \in DOMAIN s : i < j => s[i] < s[j]
  BY <1>1, <1>2 DEF ListInv
<1>7. \A i, j \in DOMAIN ns : i < j => ns[i] < ns[j]
  BY <1>2, <1>5, <1>6, Constants_, SMTT(30)
<1>8. PICK X : X = InputTables(l)
  OBVIOUS
<1>9. X = TablesOf(l, ns)
  BY <1>1, <1>5, <1>8 DEF InputTables, TablesOf
<1>10. YoungestIn(sstables, l, ns, k) = EntryIn(sstables, X, k)
  BY <1>2, <1>5, <1>7, <1>9, YoungestIsFound
<1>11. YoungestEntry(l, ns, k) = YoungestIn(sstables, l, ns, k)
  <2>1. InputTables(l) \subseteq DOMAIN sstables
    BY InputsListed, ListedFacts
  <2>2. \A i \in DOMAIN ns : <<l, ns[i]>> \in X
    <3>1. \A i \in DOMAIN ns : ns[i] \in Nat
      <4>1. PICK r \in Seq(Nat) : r = ns
        BY <1>5
      <4>2. \A i \in DOMAIN r : r[i] \in Nat
        BY ElementOfSeq
      <4>3. QED
        BY <4>1, <4>2
    <3>2. QED
      BY <1>2, <1>9, <3>1, TableName DEF TablesOf
  <2>3. \A i \in DOMAIN ns : Data(<<l, ns[i]>>) = sstables[<<l, ns[i]>>].data
    BY <1>8, <2>1, <2>2 DEF Data
  <2>4. PICK H : H = {i \in DOMAIN ns : sstables[<<l, ns[i]>>].data[k] # 0}
    OBVIOUS
  <2>5. {i \in DOMAIN ns : Data(<<l, ns[i]>>)[k] # 0} = H
    BY <2>3, <2>4
  <2>6. CASE H = {}
    BY <2>4, <2>5, <2>6 DEF YoungestEntry, YoungestIn
  <2>7. CASE H # {}
    <3>1. H \subseteq 1..COMPACTION_TRIGGER
      BY <1>5, <2>4
    <3>2. COMPACTION_TRIGGER \in Nat /\ H \subseteq 0..COMPACTION_TRIGGER
      BY <3>1, Constants_
    <3>3. PICK m : m = Max(H)
      OBVIOUS
    <3>4. m \in H
      BY <2>7, <3>2, <3>3, MaxFacts
    <3>5. m \in DOMAIN ns
      BY <2>4, <3>4
    <3>6. QED
      BY <2>3, <2>4, <2>5, <2>7, <3>3, <3>5 DEF YoungestEntry, YoungestIn
  <2>8. QED
    BY <2>6, <2>7
<1>12. PICK w : w = YoungestEntry(l, Inputs(l), k)
  OBVIOUS
<1>13. Merged(l)[k] = IF merge[l].purge /\ IsTombstone(w) THEN 0 ELSE w
  BY <1>12 DEF Merged
<1>14. w = EntryIn(sstables, X, k)
  BY <1>3, <1>10, <1>11, <1>12
<1>15. QED
  BY <1>8, <1>13, <1>14 DEF PurgedIn, TombstoneIn, IsTombstone

LEMMA FinishMergeTables ==
  ASSUME Types, TableInv, NEW j \in MergeLevels, FinishMerge(j)
  PROVE  TableTypes' /\ TableInv' /\ SameAnswers
<1> USE DEF TableInv
<1>1. Loaded /\ Loaded'
  BY WorksIsLoaded DEF FinishMerge, Loaded
<1>2. merge[j].at = "write" /\ Merging(j)
  BY DEF FinishMerge, Merging
<1>3. /\ MergeTable(j) \in DOMAIN sstables /\ unlinked[j + 1] < merge[j].num
      /\ \A u \in Listed \union doomed : u[1] = j + 1 => u[2] < merge[j].num
      /\ Len(readers_at_level[j]) >= COMPACTION_TRIGGER
  BY <1>2 DEF OutputInv, MergeOutput
<1>4. PICK t \in AllTables : t = MergeTable(j)
  BY <1>3 DEF Types, TableTypes, FileTypes
<1>5. t[1] = j + 1 /\ t[2] = merge[j].num /\ t = <<j + 1, merge[j].num>>
  BY <1>4 DEF MergeTable
<1>6. t \notin Listed /\ t \notin doomed
  <2>1. ~(t[2] < t[2])
    BY AllTablesFacts
  <2>2. QED
    BY <1>3, <1>5, <2>1
<1>7. j + 1 \in Levels /\ j \in Levels /\ j \in Nat /\ j + 1 \in Nat
  BY MergeLevelsFacts
<1>8. merge \in [MergeLevels -> Merges]
  BY DEF Types, TableTypes, ListTypes
<1>9. /\ merge'[j].at = "add" /\ merge'[j].num = merge[j].num /\ merge'[j].purge = merge[j].purge
      /\ merge'[j] \in Merges /\ \A l \in MergeLevels : l # j => merge'[l] = merge[l]
      /\ DOMAIN merge' = MergeLevels /\ merge' = [l \in MergeLevels |-> merge'[l]]
  <2>1. merge[j] \in Merges
    BY <1>8
  <2>2. merge' = [merge EXCEPT ![j].at = "add"]
    BY DEF FinishMerge
  <2>3. QED
    BY <1>8, <2>1, <2>2 DEF Merges
<1>10. PICK m : m = Merged(j)
  OBVIOUS
<1>11. \A k \in Keys : m[k] = PurgedIn(writes, merge[j].purge, EntryIn(sstables, InputTables(j), k))
  BY <1>3, <1>10, MergedIs
<1>12. m \in [Keys -> 0..Len(writes)]
  <2>1. ASSUME NEW k \in Keys
        PROVE  m[k] \in 0..Len(writes)
    <3>1. InputTables(j) \subseteq DOMAIN sstables
      BY <1>3, InputsListed, ListedFacts
    <3>2. PICK X : X = InputTables(j)
      OBVIOUS
    <3>3. EntryIn(sstables, X, k) \in 0..Len(writes)
      BY <3>1, <3>2, FoundIsWrite
    <3>4. 0 \in 0..Len(writes)
      BY DEF Types, WriteTypes
    <3>5. QED
      BY <1>11, <3>2, <3>3, <3>4 DEF PurgedIn
  <2>2. m = [k \in Keys |-> m[k]]
    BY <1>10 DEF Merged
  <2>3. QED
    BY <2>1, <2>2
<1>13. /\ DOMAIN sstables' = DOMAIN sstables /\ sstables'[t].finished = TRUE /\ sstables'[t].data = m
       /\ \A u \in DOMAIN sstables : u # t => sstables'[u] = sstables[u]
       /\ UNCHANGED <<readers_at_level, curr_max_level, awake, doomed, unlinked, writes, memtable, active>>
       /\ UNCHANGED <<flusher, flush_num, sstable_counter>>
  BY <1>3, <1>4, <1>5, <1>10 DEF FinishMerge, memVars, flushVars, tableVars
<1>14. FileWritten(t)
  BY <1>3, <1>4, <1>6, <1>13 DEF FileWritten
<1>15. sstables'[t].finished \in BOOLEAN /\ sstables'[t].data \in [Keys -> 0..Len(writes)]
  BY <1>12, <1>13
<1>16. \A l \in MergeLevels : merge'[l].at = "remove" => merge[l].at = "remove"
  BY <1>9
<1>17. /\ Listed' = Listed
       /\ \A u \in DOMAIN sstables' : /\ u \in AllTables /\ sstables'[u].finished \in BOOLEAN
                                      /\ sstables'[u].data \in [Keys -> 0..Len(writes')]
       /\ \E N \in Nat : \A u \in DOMAIN sstables' : u[2] <= N
       /\ DoomedInv' /\ RemovedInv' /\ SameAnswers
       /\ \A l \in MergeLevels : Len(readers_at_level[l]) >= COMPACTION_TRIGGER =>
            /\ InputTables(l)' = InputTables(l)
            /\ \A k \in Keys : EntryIn(sstables, InputTables(l), k)' = EntryIn(sstables, InputTables(l), k)
  BY <1>14, <1>15, <1>16, WrittenUnlisted
<1>18. TableTypes'
  <2>1. merge' \in [MergeLevels -> Merges]
    BY <1>8, <1>9
  <2>2. ListTypes'
    BY <1>13, <2>1 DEF Types, TableTypes, ListTypes
  <2>3. QED
    BY <1>17, <2>2 DEF TableTypes, FileTypes
<1>19. FlushTable' = FlushTable /\ (Writing' <=> Writing) /\ FlushTable # t
  BY <1>5, <1>7, <1>13 DEF FlushTable, Writing
<1>20. Merging(j)' /\ MergeTable(j)' = t
  BY <1>4, <1>9 DEF Merging, MergeTable
<1>21. \A l \in MergeLevels : l # j =>
         (Merging(l)' <=> Merging(l)) /\ MergeTable(l)' = MergeTable(l) /\ MergeTable(l) # t
  BY <1>5, <1>7, <1>9, MergeLevelsFacts DEF Merging, MergeTable
<1>22. CounterInv'
  <2>1. merge # [l \in MergeLevels |-> Idle]
    BY <1>2 DEF Idle
  <2>2. \A u \in DOMAIN sstables : u[2] < sstable_counter
    BY <1>1, <2>1 DEF CounterInv
  <2>3. QED
    BY <1>1, <1>13, <2>2 DEF CounterInv
<1>23. ListInv'
  <2>1. \A l \in MergeLevels : Merging(l) /\ MergeTable(l) # t => Merging(l)' /\ MergeTable(l)' = MergeTable(l)
    BY <1>4, <1>21
  <2>2. Writing /\ FlushTable # t => Writing' /\ FlushTable' = FlushTable
    BY <1>19
  <2>3. QED
    BY <1>1, <1>14, <1>20, <2>1, <2>2, WrittenList
<1>24. OutputInv'
  <2>1. FlushOutput'
    <3>1. Writing => FlushTable \in DOMAIN sstables
      BY DEF OutputInv, FlushOutput
    <3>2. flusher = "publish" \/ flusher = "write" => Writing
      BY DEF Writing
    <3>3. QED
      BY <1>13, <1>17, <1>19, <3>1, <3>2 DEF OutputInv, FlushOutput
  <2>2. ASSUME NEW l \in MergeLevels
        PROVE  MergeOutput(l)'
    <3>1. CASE l # j
      BY <1>9, <1>14, <1>21, <3>1, WrittenMerge
    <3>2. CASE l = j
      <4>1. /\ unlinked'[j + 1] < merge'[j].num /\ MergeTable(j)' \in DOMAIN sstables'
            /\ \A u \in Listed' \union doomed' : u[1] = j + 1 => u[2] < merge'[j].num
        BY <1>3, <1>4, <1>9, <1>13, <1>17, <1>20
      <4>2. \A k \in Keys : sstables'[MergeTable(j)'].data[k] =
              PurgedIn(writes', merge'[j].purge, EntryIn(sstables', InputTables(j)', k))
        BY <1>3, <1>9, <1>11, <1>13, <1>17, <1>20
      <4>3. sstables'[MergeTable(j)'].finished
        BY <1>13, <1>20
      <4>4. MergeOutput(j)'
        BY <1>3, <1>9, <1>13, <4>1, <4>2, <4>3 DEF MergeOutput
      <4>5. QED
        BY <3>2, <4>4
    <3>3. QED
      BY <3>1, <3>2
  <2>3. QED
    BY <2>1, <2>2 DEF OutputInv
<1>25. PurgeInv'
  <2>1. \A l \in MergeLevels : merge'[l].at # "idle" => l <= curr_max_level'
    BY <1>2, <1>9, <1>13 DEF PurgeInv
  <2>2. ASSUME NEW l \in MergeLevels, Merging(l)', merge'[l].purge, NEW n \in Levels, n > l
        PROVE  readers_at_level'[n] = <<>>
    <3>1. Merging(l) /\ merge[l].purge
      BY <1>2, <1>9, <1>21, <2>2
    <3>2. QED
      BY <1>13, <2>2, <3>1 DEF PurgeInv
  <2>3. ASSUME NEW n \in Levels, n > curr_max_level', readers_at_level'[n] # <<>>
        PROVE  n = curr_max_level' + 1 /\ merge'[curr_max_level'].at = "remove"
    <3>1. n = curr_max_level + 1 /\ merge[curr_max_level].at = "remove"
      BY <1>1, <1>13, <2>3 DEF PurgeInv
    <3>2. curr_max_level \in MergeLevels /\ curr_max_level # j
      BY <1>2, <3>1, LevelsFacts, Constants_ DEF MergeLevels, Types, TableTypes, ListTypes
    <3>3. QED
      BY <1>9, <1>13, <3>1, <3>2
  <2>4. QED
    BY <1>13, <2>1, <2>2, <2>3 DEF PurgeInv
<1>26. QED
  BY <1>17, <1>18, <1>22, <1>23, <1>24, <1>25

-----------------------------------------------------------------------------
(* A table that is added to the list of its level.                         *)
ListAdded(t) ==
  /\ readers_at_level' = [readers_at_level EXCEPT ![t[1]] = Append(@, t[2])]
  /\ UNCHANGED <<sstables, doomed, unlinked, writes>>
  /\ t \in DOMAIN sstables /\ sstables[t].finished /\ unlinked[t[1]] < t[2]
  /\ \A u \in Listed \union doomed : u[1] = t[1] => u[2] < t[2]

LEMMA AddedLists ==
  ASSUME Types, ListInv, NEW t \in AllTables, ListAdded(t)
  PROVE  /\ Listed' = Listed \union {t} /\ Published' = Published \union {t} /\ t \notin doomed
         /\ readers_at_level' \in [Levels -> Seq(Nat)]
         /\ \A l \in Levels : l # t[1] => readers_at_level'[l] = readers_at_level[l]
         /\ \A l \in Levels : Len(readers_at_level[l]) <= Len(readers_at_level'[l])
         /\ \A l \in MergeLevels : Len(readers_at_level[l]) >= COMPACTION_TRIGGER => InputTables(l)' = InputTables(l)
         /\ \A l \in Levels : \A i, j \in DOMAIN readers_at_level'[l] :
              i < j => readers_at_level'[l][i] < readers_at_level'[l][j]
<1>1. PICK a, n : a = t[1] /\ n = t[2]
  OBVIOUS
<1>2. a \in Levels /\ n \in Nat /\ t = <<a, n>>
  BY <1>1, AllTablesFacts, Constants_
<1>3. readers_at_level \in [Levels -> Seq(Nat)]
  BY DEF Types, TableTypes, ListTypes
<1>4. PICK s \in Seq(Nat) : s = readers_at_level[a]
  BY <1>2, <1>3
<1>5. PICK m \in Nat : m = Len(s) /\ DOMAIN s = 1..m
  OBVIOUS
<1>6. PICK r : r = Append(s, n)
  OBVIOUS
<1>7. /\ r \in Seq(Nat) /\ Len(r) = m + 1 /\ DOMAIN r = 1..(m + 1) /\ r[m + 1] = n
      /\ \A i \in 1..m : r[i] = s[i]
  BY <1>2, <1>4, <1>5, <1>6
<1>8. readers_at_level' = [readers_at_level EXCEPT ![a] = r]
  BY <1>1, <1>4, <1>6 DEF ListAdded
<1>9. readers_at_level'[a] = r /\ \A l \in Levels : l # a => readers_at_level'[l] = readers_at_level[l]
  BY <1>2, <1>3, <1>8
<1>10. readers_at_level' \in [Levels -> Seq(Nat)]
  BY <1>2, <1>3, <1>7, <1>8
<1>11. ASSUME NEW u \in AllTables
       PROVE  InList(u)' <=> InList(u) \/ u = t
  <2>1. u = <<u[1], u[2]>> /\ u[1] \in Levels
    BY AllTablesFacts, Constants_
  <2>2. CASE u[1] # a
    BY <1>1, <1>9, <2>1, <2>2 DEF InList
  <2>3. CASE u[1] = a
    <3>1. InList(u)' <=> \E i \in 1..(m + 1) : r[i] = u[2]
      BY <1>7, <1>9, <2>3 DEF InList
    <3>2. InList(u) <=> \E i \in 1..m : s[i] = u[2]
      BY <1>4, <1>5, <2>3 DEF InList
    <3>3. (\E i \in 1..(m + 1) : r[i] = u[2]) <=> (\E i \in 1..m : s[i] = u[2]) \/ u[2] = n
      <4>1. \A i : i \in 1..(m + 1) <=> i \in 1..m \/ i = m + 1
        OBVIOUS
      <4>2. QED
        BY <1>7, <4>1
    <3>4. QED
      BY <1>2, <2>1, <2>3, <3>1, <3>2, <3>3
  <2>4. QED
    BY <2>2, <2>3
<1>12. Listed' = Listed \union {t}
  BY <1>11 DEF Listed
<1>13. Published' = Published \union {t}
  BY <1>12 DEF Published, ListAdded
<1>14. t \notin doomed
  <2>1. ~(t[2] < t[2])
    BY <1>1, <1>2
  <2>2. QED
    BY <2>1 DEF ListAdded
<1>15. ASSUME NEW l \in Levels
       PROVE  Len(readers_at_level[l]) <= Len(readers_at_level'[l])
  <2>1. CASE l = a
    BY <1>4, <1>5, <1>7, <1>9, <2>1
  <2>2. CASE l # a
    <3>1. Len(readers_at_level[l]) \in Nat
      BY <1>3
    <3>2. QED
      BY <1>9, <2>2, <3>1
  <2>3. QED
    BY <2>1, <2>2
<1>16. ASSUME NEW l \in MergeLevels, Len(readers_at_level[l]) >= COMPACTION_TRIGGER
       PROVE  InputTables(l)' = InputTables(l)
  <2>1. l \in Levels
    BY MergeLevelsFacts
  <2>2. \A i \in 1..COMPACTION_TRIGGER : readers_at_level'[l][i] = readers_at_level[l][i]
    <3>1. CASE l = a
      <4>1. \A i \in 1..COMPACTION_TRIGGER : i \in 1..m
        BY <1>4, <1>5, <1>16, <3>1, Constants_
      <4>2. QED
        BY <1>4, <1>7, <1>9, <3>1, <4>1
    <3>2. CASE l # a
      BY <1>9, <2>1, <3>2
    <3>3. QED
      BY <3>1, <3>2
  <2>3. QED
    BY <2>2 DEF InputTables
<1>17. ASSUME NEW l \in Levels, NEW i \in DOMAIN readers_at_level'[l], NEW j \in DOMAIN readers_at_level'[l], i < j
       PROVE  readers_at_level'[l][i] < readers_at_level'[l][j]
  <2>1. CASE l # a
    BY <1>9, <1>17, <2>1 DEF ListInv
  <2>2. CASE l = a
    <3>1. i \in 1..(m + 1) /\ j \in 1..(m + 1) /\ i \in 1..m
      BY <1>5, <1>7, <1>9, <1>17, <2>2
    <3>2. CASE j \in 1..m
      BY <1>2, <1>4, <1>5, <1>7, <1>9, <1>17, <2>2, <3>1, <3>2 DEF ListInv
    <3>3. CASE j = m + 1
      <4>1. PICK u : u = <<a, s[i]>>
        OBVIOUS
      <4>2. s[i] \in Nat
        BY <1>5, <3>1
      <4>3. u \in AllTables /\ u[1] = a /\ u[2] = s[i]
        BY <1>2, <4>1, <4>2, TableName
      <4>4. u \in Listed
        BY <1>4, <1>5, <3>1, <4>3 DEF Listed, InList
      <4>5. s[i] < n
        BY <1>1, <4>3, <4>4 DEF ListAdded
      <4>6. QED
        BY <1>7, <1>9, <2>2, <3>1, <3>3, <4>5
    <3>4. QED
      BY <1>5, <3>1, <3>2, <3>3
  <2>3. QED
    BY <2>1, <2>2
<1>18. QED
  BY <1>1, <1>9, <1>10, <1>12, <1>13, <1>14, <1>15, <1>16, <1>17

LEMMA AddedListInv ==
  ASSUME Types, ListInv, NEW t \in AllTables, ListAdded(t), Loaded,
         \A u \in DOMAIN sstables : u # t /\ u \notin Listed /\ u \notin doomed =>
           \/ Writing' /\ u = FlushTable'
           \/ \E l \in MergeLevels : Merging(l)' /\ u = MergeTable(l)'
  PROVE  ListInv'
<1>1. /\ Listed' = Listed \union {t} /\ t \notin doomed
      /\ \A l \in Levels : \A i, j \in DOMAIN readers_at_level'[l] :
           i < j => readers_at_level'[l][i] < readers_at_level'[l][j]
  BY AddedLists
<1>2. \A u \in Listed' : u \in DOMAIN sstables' /\ sstables'[u].finished /\ u[2] > unlinked'[u[1]]
  BY <1>1 DEF ListInv, ListAdded
<1>3. \A u \in doomed' : sstables'[u].finished /\ u \notin Listed'
  BY <1>1 DEF ListInv, ListAdded
<1>4. \A u \in doomed', v \in Listed' : u[1] = v[1] => u[2] < v[2]
  BY <1>1 DEF ListInv, ListAdded
<1>5. \A u \in DOMAIN sstables' :
        \/ u \in Listed' \/ u \in doomed' \/ (Writing' /\ u = FlushTable')
        \/ \E l \in MergeLevels : Merging(l)' /\ u = MergeTable(l)'
  BY <1>1 DEF ListAdded
<1>6. QED
  BY <1>1, <1>2, <1>3, <1>4, <1>5 DEF ListInv

LEMMA AddedFound ==
  ASSUME Types, ListInv, NEW t \in AllTables, ListAdded(t), NEW k \in Keys, NEW l \in Nat
  PROVE  /\ \/ l > t[1] \/ sstables[t].data[k] = 0
            \/ l <= t[1] /\ \E u \in Listed : l <= u[1] /\ u[1] < t[1] /\ sstables[u].data[k] # 0
            => ListedFrom(l, k)' = ListedFrom(l, k) /\ PublishedFrom(l, k)' = PublishedFrom(l, k)
         /\ l = t[1] /\ sstables[t].data[k] # 0 =>
              /\ ListedFrom(l, k)' = AnswerIn(writes, sstables[t].data[k])
              /\ PublishedFrom(l, k)' = AnswerIn(writes, sstables[t].data[k])
<1>1. PICK D, W, A, B : D = sstables /\ W = writes /\ A = Listed /\ B = Published
  OBVIOUS
<1>2. D = sstables' /\ W = writes' /\ Listed' = A \union {t} /\ Published' = B \union {t}
  BY <1>1, AddedLists DEF ListAdded
<1>3. A \subseteq B /\ B \subseteq DOMAIN sstables /\ A \subseteq AllTables /\ B \subseteq AllTables
  BY <1>1, ListedFacts
<1>4. PICK N \in Nat : \A u \in DOMAIN sstables : u[2] <= N
  BY Bounded
<1>5. (\A u \in A : u[2] <= N) /\ (\A u \in B : u[2] <= N)
  BY <1>3, <1>4
<1>6. (\A u \in A : u[1] = t[1] => u[2] < t[2]) /\ (\A u \in B : u[1] = t[1] => u[2] < t[2])
  BY <1>1 DEF ListAdded, Published
<1>7. \A u \in A : u \in B
  BY <1>3
<1>8. PICK A1, B1 : A1 = A \union {t} /\ B1 = B \union {t}
  OBVIOUS
<1>9. FirstAdded(D, A, A1, t, k, l)
  BY <1>3, <1>5, <1>6, <1>8, AddFirst
<1>10. FirstAdded(D, B, B1, t, k, l)
  BY <1>3, <1>5, <1>6, <1>8, AddFirst
<1>11. /\ ListedFrom(l, k) = AnswerIn(W, EntryIn(D, Deeper(A, l), k))
       /\ PublishedFrom(l, k) = AnswerIn(W, EntryIn(D, Deeper(B, l), k))
       /\ ListedFrom(l, k)' = AnswerIn(W, EntryIn(D, Deeper(A1, l), k))
       /\ PublishedFrom(l, k)' = AnswerIn(W, EntryIn(D, Deeper(B1, l), k))
  BY <1>1, <1>2, <1>8 DEF ListedFrom, PublishedFrom
<1>12. ASSUME \/ l > t[1] \/ D[t].data[k] = 0
              \/ l <= t[1] /\ \E u \in A : l <= u[1] /\ u[1] < t[1] /\ D[u].data[k] # 0
       PROVE  /\ EntryIn(D, Deeper(A1, l), k) = EntryIn(D, Deeper(A, l), k)
              /\ EntryIn(D, Deeper(B1, l), k) = EntryIn(D, Deeper(B, l), k)
  BY <1>7, <1>9, <1>10, <1>12 DEF FirstAdded
<1>13. ASSUME l = t[1], D[t].data[k] # 0
       PROVE  EntryIn(D, Deeper(A1, l), k) = D[t].data[k] /\ EntryIn(D, Deeper(B1, l), k) = D[t].data[k]
  <2>1. (\A u \in A : ~(l <= u[1] /\ u[1] < t[1])) /\ (\A u \in B : ~(l <= u[1] /\ u[1] < t[1]))
    BY <1>3, <1>13, AllTablesFacts
  <2>2. QED
    BY <1>9, <1>10, <1>13, <2>1 DEF FirstAdded
<1>14. QED
  BY <1>1, <1>11, <1>12, <1>13

LEMMA AddTableTables ==
  ASSUME Types, TableInv, AddTable
  PROVE  /\ TableTypes' /\ TableInv'
         /\ \A k \in Keys : ListedFrom(0, k)' = IF memtable[1 - active][k] # 0
                                                THEN AnswerIn(writes, memtable[1 - active][k]) ELSE ListedFrom(0, k)
<1> USE DEF TableInv
<1>1. Loaded /\ Loaded'
  BY WorksIsLoaded DEF AddTable, Loaded
<1>2. flusher = "publish" /\ flusher' = "close" /\ Writing /\ ~Writing'
  BY DEF AddTable, Writing
<1>3. /\ FlushTable \in DOMAIN sstables /\ unlinked[0] < flush_num
      /\ \A u \in Listed \union doomed : u[1] = 0 => u[2] < flush_num
      /\ sstables[FlushTable].finished /\ sstables[FlushTable].data = memtable[1 - active]
  BY <1>2 DEF OutputInv, FlushOutput
<1>4. PICK t \in AllTables : t = FlushTable
  BY <1>3 DEF Types, TableTypes, FileTypes
<1>5. t[1] = 0 /\ t[2] = flush_num
  BY <1>4 DEF FlushTable
<1>6. ListAdded(t)
  BY <1>3, <1>4, <1>5 DEF ListAdded, AddTable, disk, mergeVars
<1>7. UNCHANGED <<sstables, curr_max_level, merge, awake, doomed, unlinked, writes, flush_num, sstable_counter>>
  BY DEF AddTable, disk, mergeVars
<1>8. /\ Listed' = Listed \union {t} /\ t \notin doomed
      /\ readers_at_level' \in [Levels -> Seq(Nat)]
      /\ \A l \in Levels : l # 0 => readers_at_level'[l] = readers_at_level[l]
      /\ \A l \in Levels : Len(readers_at_level[l]) <= Len(readers_at_level'[l])
      /\ \A l \in MergeLevels : Len(readers_at_level[l]) >= COMPACTION_TRIGGER => InputTables(l)' = InputTables(l)
  BY <1>5, <1>6, AddedLists
<1>9. TableTypes'
  <2>1. ListTypes'
    BY <1>7, <1>8 DEF Types, TableTypes, ListTypes
  <2>2. FileTypes'
    BY <1>7 DEF Types, TableTypes, FileTypes
  <2>3. QED
    BY <2>1, <2>2 DEF TableTypes
<1>10. \A l \in MergeLevels : (Merging(l)' <=> Merging(l)) /\ MergeTable(l)' = MergeTable(l)
  BY <1>7 DEF Merging, MergeTable
<1>11. CounterInv'
  <2>1. \A u \in DOMAIN sstables : u[2] < sstable_counter
    BY <1>1, <1>2 DEF CounterInv
  <2>2. QED
    BY <1>1, <1>7, <2>1 DEF CounterInv
<1>12. ListInv'
  <2>1. ASSUME NEW u \in DOMAIN sstables, u # t, u \notin Listed, u \notin doomed
        PROVE  \E l \in MergeLevels : Merging(l)' /\ u = MergeTable(l)'
    BY <1>1, <1>4, <1>10, <2>1 DEF ListInv
  <2>2. QED
    BY <1>1, <1>6, <2>1, AddedListInv
<1>13. OutputInv'
  <2>1. FlushOutput'
    BY <1>2 DEF FlushOutput
  <2>2. ASSUME NEW l \in MergeLevels
        PROVE  MergeOutput(l)'
    <3>1. l \in Levels /\ l + 1 # 0
      BY MergeLevelsFacts
    <3>2. merge'[l].at # "idle" => Len(readers_at_level'[l]) >= COMPACTION_TRIGGER
      <4>1. Len(readers_at_level[l]) \in Nat /\ Len(readers_at_level'[l]) \in Nat
        BY <1>8, <3>1 DEF Types, TableTypes, ListTypes
      <4>2. Len(readers_at_level[l]) <= Len(readers_at_level'[l])
        BY <1>8, <3>1
      <4>3. merge'[l].at # "idle" => Len(readers_at_level[l]) >= COMPACTION_TRIGGER
        BY <1>7 DEF OutputInv, MergeOutput
      <4>4. QED
        BY <4>1, <4>2, <4>3, Constants_
    <3>3. Merging(l)' => /\ MergeTable(l)' \in DOMAIN sstables' /\ unlinked'[l + 1] < merge'[l].num
                         /\ \A u \in Listed' \union doomed' : u[1] = l + 1 => u[2] < merge'[l].num
      BY <1>5, <1>7, <1>8, <1>10, <3>1 DEF OutputInv, MergeOutput
    <3>5. merge'[l].at = "write" => ~sstables'[MergeTable(l)'].finished
      BY <1>7, <1>10 DEF OutputInv, MergeOutput
    <3>6. merge'[l].at = "add" =>
            /\ sstables'[MergeTable(l)'].finished
            /\ \A k \in Keys : sstables'[MergeTable(l)'].data[k] =
                 PurgedIn(writes', merge'[l].purge, EntryIn(sstables', InputTables(l)', k))
      BY <1>7, <1>8, <1>10 DEF OutputInv, MergeOutput
    <3>7. QED
      BY <3>2, <3>3, <3>5, <3>6 DEF MergeOutput
  <2>3. QED
    BY <2>1, <2>2 DEF OutputInv
<1>14. PurgeInv'
  <2>1. \A l \in MergeLevels, n \in Levels : n > l => readers_at_level'[n] = readers_at_level[n]
    BY <1>8, MergeLevelsFacts
  <2>2. \A n \in Levels : n > curr_max_level => readers_at_level'[n] = readers_at_level[n]
    BY <1>8, LevelsFacts DEF Types, TableTypes, ListTypes
  <2>3. QED
    BY <1>1, <1>7, <1>10, <2>1, <2>2 DEF PurgeInv
<1>15. ASSUME NEW l \in Nat, l > 0, NEW k \in Keys
       PROVE  ListedFrom(l, k)' = ListedFrom(l, k) /\ PublishedFrom(l, k)' = PublishedFrom(l, k)
  BY <1>5, <1>6, <1>15, AddedFound
<1>16. ASSUME NEW k \in Keys, sstables[t].data[k] = 0, NEW l \in Nat
       PROVE  ListedFrom(l, k)' = ListedFrom(l, k) /\ PublishedFrom(l, k)' = PublishedFrom(l, k)
  BY <1>6, <1>16, AddedFound
<1>17. ASSUME NEW k \in Keys, sstables[t].data[k] # 0, NEW l \in Nat, l = 0
       PROVE  /\ ListedFrom(l, k)' = AnswerIn(writes, sstables[t].data[k])
              /\ PublishedFrom(l, k)' = AnswerIn(writes, sstables[t].data[k])
  BY <1>5, <1>6, <1>17, AddedFound
<1>18. DoomedInv'
  <2>1. ASSUME NEW l \in 0..(MAX_LEVEL + 1), NEW k \in Keys
        PROVE  PublishedFrom(l, k)' = ListedFrom(l, k)'
    <3>1. l \in Nat /\ PublishedFrom(l, k) = ListedFrom(l, k)
      BY Constants_ DEF DoomedInv
    <3>2. QED
      BY <1>15, <1>16, <1>17, <3>1
  <2>2. QED
    BY <2>1 DEF DoomedInv
<1>19. RemovedInv'
  <2>1. ASSUME NEW l \in MergeLevels, NEW k \in Keys,
               merge'[l].at = "remove", EntryIn(sstables, InputTables(l), k)' # 0
        PROVE  ListedFrom(l + 1, k)' = AnswerIn(writes, EntryIn(sstables, InputTables(l), k))'
    <3>1. merge[l].at = "remove" /\ Len(readers_at_level[l]) >= COMPACTION_TRIGGER
      BY <1>7, <2>1 DEF OutputInv, MergeOutput
    <3>2. InputTables(l)' = InputTables(l)
      BY <1>8, <3>1
    <3>3. PICK n \in Nat : n = l + 1 /\ n > 0
      BY MergeLevelsFacts
    <3>4. ListedFrom(n, k)' = ListedFrom(n, k)
      BY <1>15, <3>3
    <3>5. ListedFrom(n, k) = AnswerIn(writes, EntryIn(sstables, InputTables(l), k))
      BY <1>7, <2>1, <3>1, <3>2, <3>3 DEF RemovedInv
    <3>6. QED
      BY <1>7, <3>2, <3>3, <3>4, <3>5
  <2>2. QED
    BY <2>1 DEF RemovedInv
<1>20. ASSUME NEW k \in Keys
       PROVE  ListedFrom(0, k)' = IF memtable[1 - active][k] # 0
                                  THEN AnswerIn(writes, memtable[1 - active][k]) ELSE ListedFrom(0, k)
  <2>1. PICK l \in Nat : l = 0
    OBVIOUS
  <2>2. sstables[t].data = memtable[1 - active]
    BY <1>3, <1>4
  <2>3. CASE sstables[t].data[k] = 0
    BY <1>16, <2>1, <2>2, <2>3
  <2>4. CASE sstables[t].data[k] # 0
    BY <1>17, <2>1, <2>2, <2>4
  <2>5. QED
    BY <2>3, <2>4
<1>21. QED
  BY <1>9, <1>11, <1>12, <1>13, <1>14, <1>18, <1>19, <1>20

LEMMA AddMergedTables ==
  ASSUME Types, TableInv, NEW j \in MergeLevels, AddMerged(j)
  PROVE  TableTypes' /\ TableInv' /\ SameAnswers
<1> USE DEF TableInv
<1>1. Loaded /\ Loaded'
  BY WorksIsLoaded DEF AddMerged, Loaded
<1>2. merge[j].at = "add" /\ Merging(j)
  BY DEF AddMerged, Merging
<1>3. /\ MergeTable(j) \in DOMAIN sstables /\ unlinked[j + 1] < merge[j].num
      /\ \A u \in Listed \union doomed : u[1] = j + 1 => u[2] < merge[j].num
      /\ Len(readers_at_level[j]) >= COMPACTION_TRIGGER /\ sstables[MergeTable(j)].finished
      /\ \A k \in Keys : sstables[MergeTable(j)].data[k] =
           PurgedIn(writes, merge[j].purge, EntryIn(sstables, InputTables(j), k))
  BY <1>2 DEF OutputInv, MergeOutput
<1>4. PICK t \in AllTables : t = MergeTable(j)
  BY <1>3 DEF Types, TableTypes, FileTypes
<1>5. t[1] = j + 1 /\ t[2] = merge[j].num
  BY <1>4 DEF MergeTable
<1>6. j + 1 \in Levels /\ j \in Levels /\ j \in Nat /\ j + 1 \in Nat /\ j < j + 1
  BY MergeLevelsFacts
<1>7. ListAdded(t)
  BY <1>3, <1>4, <1>5 DEF ListAdded, AddMerged, disk
<1>8. /\ UNCHANGED <<sstables, curr_max_level, awake, doomed, unlinked, writes, flush_num, sstable_counter>>
      /\ UNCHANGED <<flusher, memtable, active>>
  BY DEF AddMerged, disk, flushVars, memVars
<1>9. merge \in [MergeLevels -> Merges]
  BY DEF Types, TableTypes, ListTypes
<1>10. /\ merge'[j].at = "remove" /\ merge'[j].num = merge[j].num
       /\ merge'[j] \in Merges /\ \A l \in MergeLevels : l # j => merge'[l] = merge[l]
       /\ merge' \in [MergeLevels -> Merges]
  <2>1. merge[j] \in Merges
    BY <1>9
  <2>2. merge' = [merge EXCEPT ![j].at = "remove"]
    BY DEF AddMerged
  <2>3. QED
    BY <1>9, <2>1, <2>2 DEF Merges
<1>11. /\ Listed' = Listed \union {t} /\ t \notin doomed
       /\ readers_at_level' \in [Levels -> Seq(Nat)]
       /\ \A l \in Levels : l # j + 1 => readers_at_level'[l] = readers_at_level[l]
       /\ \A l \in Levels : Len(readers_at_level[l]) <= Len(readers_at_level'[l])
       /\ \A l \in MergeLevels : Len(readers_at_level[l]) >= COMPACTION_TRIGGER => InputTables(l)' = InputTables(l)
  BY <1>5, <1>7, AddedLists
<1>12. TableTypes'
  <2>1. ListTypes'
    BY <1>8, <1>10, <1>11 DEF Types, TableTypes, ListTypes
  <2>2. FileTypes'
    BY <1>8 DEF Types, TableTypes, FileTypes
  <2>3. QED
    BY <2>1, <2>2 DEF TableTypes
<1>13. MergeTable(j)' = t /\ ~Merging(j)'
  BY <1>4, <1>10 DEF Merging, MergeTable
<1>14. \A l \in MergeLevels : l # j =>
         (Merging(l)' <=> Merging(l)) /\ MergeTable(l)' = MergeTable(l)
  BY <1>10 DEF Merging, MergeTable
<1>15. FlushTable' = FlushTable /\ (Writing' <=> Writing)
  BY <1>8 DEF FlushTable, Writing
<1>16. CounterInv'
  <2>1. merge # [l \in MergeLevels |-> Idle]
    BY <1>2 DEF Idle
  <2>2. \A u \in DOMAIN sstables : u[2] < sstable_counter
    BY <1>1, <2>1 DEF CounterInv
  <2>3. QED
    BY <1>1, <1>8, <2>2 DEF CounterInv
<1>17. ListInv'
  <2>1. ASSUME NEW u \in DOMAIN sstables, u # t, u \notin Listed, u \notin doomed
        PROVE  (Writing' /\ u = FlushTable') \/ \E l \in MergeLevels : Merging(l)' /\ u = MergeTable(l)'
    <3>1. (Writing /\ u = FlushTable) \/ \E l \in MergeLevels : Merging(l) /\ u = MergeTable(l)
      BY <1>1, <2>1 DEF ListInv
    <3>2. \A l \in MergeLevels : u = MergeTable(l) => l # j
      BY <1>4, <2>1
    <3>3. QED
      BY <1>14, <1>15, <3>1, <3>2
  <2>2. QED
    BY <1>1, <1>7, <2>1, AddedListInv
<1>18. OutputInv'
  <2>1. FlushOutput'
    <3>1. \A u \in Listed' \union doomed' : u[1] = 0 => u \in Listed \union doomed
      BY <1>5, <1>6, <1>8, <1>11
    <3>2. QED
      BY <1>8, <1>15, <3>1 DEF OutputInv, FlushOutput
  <2>2. ASSUME NEW l \in MergeLevels
        PROVE  MergeOutput(l)'
    <3>1. l \in Levels /\ l \in Nat
      BY MergeLevelsFacts
    <3>2. merge'[l].at # "idle" => Len(readers_at_level'[l]) >= COMPACTION_TRIGGER
      <4>1. Len(readers_at_level[l]) \in Nat /\ Len(readers_at_level'[l]) \in Nat
        BY <1>11, <3>1 DEF Types, TableTypes, ListTypes
      <4>2. Len(readers_at_level[l]) <= Len(readers_at_level'[l])
        BY <1>11, <3>1
      <4>3. merge'[l].at # "idle" => Len(readers_at_level[l]) >= COMPACTION_TRIGGER
        BY <1>2, <1>10 DEF OutputInv, MergeOutput
      <4>4. QED
        BY <4>1, <4>2, <4>3, Constants_
    <3>3. CASE l = j
      BY <1>10, <1>11, <1>13, <3>2, <3>3 DEF MergeOutput
    <3>4. CASE l # j
      <4>1. l + 1 # j + 1 /\ merge'[l] = merge[l] /\ MergeTable(l)' = MergeTable(l) /\ (Merging(l)' <=> Merging(l))
        BY <1>6, <1>10, <1>14, <3>1, <3>4
      <4>2. Merging(l)' => /\ MergeTable(l)' \in DOMAIN sstables' /\ unlinked'[l + 1] < merge'[l].num
                           /\ \A u \in Listed' \union doomed' : u[1] = l + 1 => u[2] < merge'[l].num
        BY <1>5, <1>8, <1>11, <4>1 DEF OutputInv, MergeOutput
      <4>4. merge'[l].at = "write" => ~sstables'[MergeTable(l)'].finished
        BY <1>8, <4>1 DEF OutputInv, MergeOutput
      <4>5. merge'[l].at = "add" =>
              /\ sstables'[MergeTable(l)'].finished
              /\ \A k \in Keys : sstables'[MergeTable(l)'].data[k] =
                   PurgedIn(writes', merge'[l].purge, EntryIn(sstables', InputTables(l)', k))
        BY <1>8, <1>11, <4>1 DEF OutputInv, MergeOutput
      <4>6. QED
        BY <3>2, <4>2, <4>4, <4>5 DEF MergeOutput
    <3>5. QED
      BY <3>3, <3>4
  <2>3. QED
    BY <2>1, <2>2 DEF OutputInv
<1>19. j <= curr_max_level
  BY <1>2 DEF PurgeInv
<1>20. PurgeInv'
  <2>1. \A l \in MergeLevels : merge'[l].at # "idle" => l <= curr_max_level'
    BY <1>8, <1>10, <1>19 DEF PurgeInv
  <2>2. ASSUME NEW l \in MergeLevels, Merging(l)', merge'[l].purge, NEW n \in Levels, n > l
        PROVE  readers_at_level'[n] = <<>>
    <3>1. l # j /\ Merging(l) /\ merge[l].purge /\ l \in Nat
      BY <1>10, <1>13, <1>14, <2>2, MergeLevelsFacts
    <3>2. readers_at_level[n] = <<>> /\ (j > l => readers_at_level[j] = <<>>)
      BY <1>6, <2>2, <3>1 DEF PurgeInv
    <3>3. ~(j > l)
      BY <1>3, <3>2, Constants_
    <3>4. n # j + 1 \/ n <= l
      BY <1>6, <2>2, <3>1, <3>3
    <3>5. QED
      BY <1>11, <2>2, <3>1, <3>2, <3>4, LevelsFacts
  <2>3. ASSUME NEW n \in Levels, n > curr_max_level', readers_at_level'[n] # <<>>
        PROVE  n = curr_max_level' + 1 /\ merge'[curr_max_level'].at = "remove"
    <3>1. curr_max_level \in Nat /\ n \in Nat /\ n > curr_max_level
      BY <1>8, <2>3, LevelsFacts DEF Types, TableTypes, ListTypes
    <3>2. CASE n = j + 1
      <4>1. curr_max_level = j
        BY <1>6, <1>19, <3>1, <3>2
      <4>2. QED
        BY <1>8, <1>10, <3>2, <4>1
    <3>3. CASE n # j + 1
      <4>1. n = curr_max_level + 1 /\ merge[curr_max_level].at = "remove"
        BY <1>1, <1>11, <2>3, <3>1, <3>3 DEF PurgeInv
      <4>2. curr_max_level \in MergeLevels /\ curr_max_level # j
        BY <1>2, <3>1, <4>1, LevelsFacts, Constants_ DEF MergeLevels
      <4>3. QED
        BY <1>8, <1>10, <4>1, <4>2
    <3>4. QED
      BY <3>2, <3>3
  <2>4. QED
    BY <1>8, <2>1, <2>2, <2>3 DEF PurgeInv
<1>21. InputTables(j) \subseteq Listed
  BY <1>3, InputsListed
<1>22. PICK X : X = InputTables(j)
  OBVIOUS
<1>23. ASSUME NEW k \in Keys, sstables[t].data[k] # 0
       PROVE  EntryIn(sstables, X, k) # 0 /\ \E u \in Listed : u[1] = j /\ sstables[u].data[k] # 0
  <2>1. EntryIn(sstables, X, k) # 0
    BY <1>3, <1>4, <1>22, <1>23 DEF PurgedIn
  <2>2. PICK u \in X : sstables[u].data[k] # 0
    BY <2>1, NoHolder
  <2>3. u \in Listed /\ u[1] = j
    BY <1>21, <1>22 DEF InputTables
  <2>4. QED
    BY <2>1, <2>2, <2>3
<1>24. ASSUME NEW l \in Nat, l # j + 1, NEW k \in Keys
       PROVE  ListedFrom(l, k)' = ListedFrom(l, k) /\ PublishedFrom(l, k)' = PublishedFrom(l, k)
  <2>1. CASE l > t[1] \/ sstables[t].data[k] = 0
    BY <1>7, <2>1, AddedFound
  <2>2. CASE ~(l > t[1]) /\ sstables[t].data[k] # 0
    <3>1. l <= t[1] /\ l <= j /\ j < t[1]
      BY <1>5, <1>6, <1>24, <2>2
    <3>2. \E u \in Listed : l <= u[1] /\ u[1] < t[1] /\ sstables[u].data[k] # 0
      BY <1>23, <2>2, <3>1
    <3>3. QED
      BY <1>7, <3>1, <3>2, AddedFound
  <2>3. QED
    BY <2>1, <2>2
<1>25. ASSUME NEW l \in Nat, l = j + 1, NEW k \in Keys, sstables[t].data[k] # 0
       PROVE  /\ ListedFrom(l, k)' = AnswerIn(writes, sstables[t].data[k])
              /\ PublishedFrom(l, k)' = AnswerIn(writes, sstables[t].data[k])
  BY <1>5, <1>7, <1>25, AddedFound
<1>26. ASSUME NEW l \in Nat, NEW k \in Keys, sstables[t].data[k] = 0
       PROVE  ListedFrom(l, k)' = ListedFrom(l, k) /\ PublishedFrom(l, k)' = PublishedFrom(l, k)
  BY <1>7, <1>26, AddedFound
<1>27. DoomedInv'
  <2>1. ASSUME NEW l \in 0..(MAX_LEVEL + 1), NEW k \in Keys
        PROVE  PublishedFrom(l, k)' = ListedFrom(l, k)'
    <3>1. l \in Nat /\ PublishedFrom(l, k) = ListedFrom(l, k)
      BY Constants_ DEF DoomedInv
    <3>2. QED
      BY <1>24, <1>25, <1>26, <3>1
  <2>2. QED
    BY <2>1 DEF DoomedInv
<1>28. RemovedInv'
  <2>1. ASSUME NEW l \in MergeLevels, NEW k \in Keys,
               merge'[l].at = "remove", EntryIn(sstables, InputTables(l), k)' # 0
        PROVE  ListedFrom(l + 1, k)' = AnswerIn(writes, EntryIn(sstables, InputTables(l), k))'
    <3>1. PICK n \in Nat : n = l + 1
      BY MergeLevelsFacts
    <3>2. CASE l # j
      <4>1. merge[l].at = "remove" /\ Len(readers_at_level[l]) >= COMPACTION_TRIGGER
        BY <1>10, <2>1, <3>2 DEF OutputInv, MergeOutput
      <4>2. InputTables(l)' = InputTables(l) /\ n # j + 1
        BY <1>6, <1>11, <3>1, <3>2, <4>1, MergeLevelsFacts
      <4>3. ListedFrom(n, k)' = ListedFrom(n, k)
        BY <1>24, <4>2
      <4>4. ListedFrom(n, k) = AnswerIn(writes, EntryIn(sstables, InputTables(l), k))
        BY <1>8, <2>1, <3>1, <4>1, <4>2 DEF RemovedInv
      <4>5. QED
        BY <1>8, <3>1, <4>2, <4>3, <4>4
    <3>3. CASE l = j
      <4>1. InputTables(j)' = X
        BY <1>3, <1>11, <1>22
      <4>2. PICK e : e = EntryIn(sstables, X, k)
        OBVIOUS
      <4>3. e # 0 /\ EntryIn(sstables, InputTables(l), k)' = e
        BY <1>8, <2>1, <3>3, <4>1, <4>2
      <4>4. sstables[t].data[k] = PurgedIn(writes, merge[j].purge, e)
        BY <1>3, <1>4, <1>22, <4>2
      <4>5. CASE sstables[t].data[k] # 0
        <5>1. sstables[t].data[k] = e
          BY <4>4, <4>5 DEF PurgedIn
        <5>2. QED
          BY <1>8, <1>25, <3>1, <3>3, <4>3, <4>5, <5>1
      <4>6. CASE sstables[t].data[k] = 0
        <5>1. merge[j].purge /\ AnswerIn(writes, e) = 0
          BY <4>3, <4>4, <4>6 DEF PurgedIn, AnswerIn
        <5>2. \A q \in Levels : q > j => readers_at_level[q] = <<>>
          BY <1>2, <5>1 DEF PurgeInv
        <5>3. Deeper(Listed, n) = {}
          <6>1. ASSUME NEW u \in Listed, u[1] >= n
                PROVE  FALSE
            <7>1. u \in AllTables /\ InList(u)
              BY DEF Listed
            <7>2. u[1] \in Levels /\ u[1] \in Nat
              BY <7>1, AllTablesFacts, Constants_
            <7>3. u[1] > j
              BY <1>6, <3>1, <3>3, <6>1, <7>2
            <7>4. readers_at_level[u[1]] = <<>>
              BY <5>2, <7>2, <7>3
            <7>5. QED
              BY <7>1, <7>4 DEF InList
          <6>2. QED
            BY <6>1 DEF Deeper
        <5>4. EntryIn(sstables, Deeper(Listed, n), k) = 0
          BY <5>3, NoHolder
        <5>5. ListedFrom(n, k) = 0
          BY <5>4 DEF ListedFrom, AnswerIn, TombstoneIn
        <5>6. ListedFrom(n, k)' = ListedFrom(n, k)
          BY <1>26, <4>6
        <5>7. QED
          BY <1>8, <3>1, <4>3, <5>1, <5>5, <5>6
      <4>7. QED
        BY <4>5, <4>6
    <3>4. QED
      BY <3>2, <3>3
  <2>2. QED
    BY <2>1 DEF RemovedInv
<1>29. SameAnswers
  <2>1. ASSUME NEW k \in Keys
        PROVE  ListedFrom(0, k)' = ListedFrom(0, k)
    <3>1. PICK l \in Nat : l = 0 /\ l # j + 1
      BY <1>6
    <3>2. QED
      BY <1>24, <3>1
  <2>2. QED
    BY <2>1 DEF SameAnswers
<1>30. QED
  BY <1>12, <1>16, <1>17, <1>18, <1>20, <1>27, <1>28, <1>29

-----------------------------------------------------------------------------
(* The inputs of a merge leave the list of their level.                    *)
LEMMA RemovedLists ==
  ASSUME Types, ListInv, NEW j \in MergeLevels, RemoveInputs(j), Len(readers_at_level[j]) >= COMPACTION_TRIGGER
  PROVE  /\ Listed' = Listed \ InputTables(j) /\ InputTables(j) \subseteq Listed
         /\ doomed' = doomed \union InputTables(j) /\ Published' = Published
         /\ readers_at_level' \in [Levels -> Seq(Nat)]
         /\ \A l \in Levels : l # j => readers_at_level'[l] = readers_at_level[l]
         /\ \A l \in Levels : \A a, b \in DOMAIN readers_at_level'[l] :
              a < b => readers_at_level'[l][a] < readers_at_level'[l][b]
         /\ \A r \in InputTables(j) : r[1] = j
         /\ \A r \in InputTables(j), y \in Listed' : y[1] = j => r[2] < y[2]
         /\ \A l \in MergeLevels : l # j => InputTables(l)' = InputTables(l)
<1>1. j \in Nat /\ j \in Levels
  BY MergeLevelsFacts
<1>2. readers_at_level \in [Levels -> Seq(Nat)]
  BY DEF Types, TableTypes, ListTypes
<1>3. PICK s \in Seq(Nat) : s = readers_at_level[j]
  BY <1>1, <1>2
<1>4. PICK m \in Nat : m = Len(s) /\ DOMAIN s = 1..m
  OBVIOUS
<1>5. PICK c \in Nat : c = COMPACTION_TRIGGER
  BY Constants_
<1>6. c >= 2 /\ c <= m
  BY <1>3, <1>4, <1>5, Constants_
<1>7. PICK r : r = SubSeq(s, c + 1, m)
  OBVIOUS
<1>8. r \in Seq(Nat) /\ Len(r) = m - c /\ \A i \in 1..(m - c) : r[i] = s[c + i]
  <2>1. \A i \in (c + 1)..m : s[i] \in Nat
    BY <1>4
  <2>2. /\ r \in Seq(Nat) /\ Len(r) = IF c + 1 <= m THEN m - (c + 1) + 1 ELSE 0
        /\ \A i \in 1..(m - (c + 1) + 1) : r[i] = s[(c + 1) + i - 1]
    BY <1>7, <2>1, SubSeqProperties
  <2>3. m - (c + 1) + 1 = m - c /\ \A i \in 1..(m - c) : (c + 1) + i - 1 = c + i
    OBVIOUS
  <2>4. QED
    BY <1>6, <2>2, <2>3
<1>9. PICK q : q = SubSeq(s, 1, c)
  OBVIOUS
<1>10. DOMAIN q = 1..c /\ \A i \in 1..c : q[i] = s[i]
  <2>1. \A i \in 1..c : s[i] \in Nat
    BY <1>4, <1>6
  <2>2. q \in Seq(Nat) /\ Len(q) = (IF 1 <= c THEN c - 1 + 1 ELSE 0) /\ \A i \in 1..(c - 1 + 1) : q[i] = s[1 + i - 1]
    BY <1>9, <2>1, SubSeqProperties
  <2>3. c - 1 + 1 = c /\ \A i \in 1..c : 1 + i - 1 = i
    OBVIOUS
  <2>4. QED
    BY <1>6, <2>2, <2>3
<1>11. readers_at_level' = [readers_at_level EXCEPT ![j] = r]
  BY <1>3, <1>4, <1>5, <1>7 DEF RemoveInputs, Kept
<1>12. readers_at_level'[j] = r /\ \A l \in Levels : l # j => readers_at_level'[l] = readers_at_level[l]
  BY <1>1, <1>2, <1>11
<1>13. readers_at_level' \in [Levels -> Seq(Nat)]
  BY <1>1, <1>2, <1>8, <1>11
<1>14. UNCHANGED <<sstables, unlinked>>
  BY DEF RemoveInputs, disk
<1>15. \A a, b \in 1..m : a < b => s[a] < s[b]
  BY <1>1, <1>3, <1>4 DEF ListInv
<1>16. DOMAIN r = 1..(m - c)
  BY <1>4, <1>6, <1>8
<1>17. \A t \in AllTables : t \in InputTables(j) <=> t[1] = j /\ \E i \in 1..c : s[i] = t[2]
  BY <1>3, <1>5 DEF InputTables
<1>18. InputTables(j) \subseteq Listed
  BY InputsListed
<1>19. ASSUME NEW t \in AllTables
       PROVE  InList(t)' <=> InList(t) /\ t \notin InputTables(j)
  <2>1. t[1] \in Levels /\ t[2] \in Nat
    BY AllTablesFacts, Constants_
  <2>2. CASE t[1] # j
    BY <1>12, <1>17, <2>1, <2>2 DEF InList
  <2>3. CASE t[1] = j
    <3>1. InList(t)' <=> \E i \in 1..(m - c) : r[i] = t[2]
      BY <1>12, <1>16, <2>3 DEF InList
    <3>2. InList(t) <=> \E i \in 1..m : s[i] = t[2]
      BY <1>3, <1>4, <2>3 DEF InList
    <3>3. ASSUME NEW i \in 1..(m - c), r[i] = t[2]
          PROVE  (\E a \in 1..m : s[a] = t[2]) /\ ~\E a \in 1..c : s[a] = t[2]
      <4>1. c + i \in 1..m /\ s[c + i] = t[2]
        BY <1>8, <3>3
      <4>2. \A a \in 1..c : a \in 1..m /\ a < c + i
        BY <1>6, <3>3
      <4>3. \A a \in 1..c : s[a] < s[c + i]
        BY <1>15, <4>1, <4>2
      <4>4. ~(t[2] < t[2])
        BY <2>1
      <4>5. QED
        BY <4>1, <4>3, <4>4
    <3>4. ASSUME NEW a \in 1..m, s[a] = t[2], ~\E i \in 1..c : s[i] = t[2]
          PROVE  \E i \in 1..(m - c) : r[i] = t[2]
      <4>1. a > c
        BY <3>4
      <4>2. a - c \in 1..(m - c) /\ c + (a - c) = a
        BY <4>1
      <4>3. r[a - c] = s[a]
        BY <1>8, <4>2
      <4>4. QED
        BY <3>4, <4>2, <4>3
    <3>5. QED
      BY <1>17, <2>3, <3>1, <3>2, <3>3, <3>4
  <2>4. QED
    BY <2>2, <2>3
<1>20. Listed' = Listed \ InputTables(j)
  BY <1>19 DEF Listed
<1>21. doomed' = doomed \union InputTables(j)
  <2>1. PICK S : S = {<<j, n>> : n \in ToSet(q)}
    OBVIOUS
  <2>2. doomed' = doomed \union S
    BY <1>3, <1>5, <1>9, <2>1 DEF RemoveInputs, Inputs
  <2>3. ASSUME NEW t \in S
        PROVE  t \in InputTables(j)
    <3>1. PICK n \in ToSet(q) : t = <<j, n>>
      BY <2>1, <2>3
    <3>2. PICK i \in 1..c : n = s[i]
      BY <1>10, <3>1 DEF ToSet
    <3>3. i \in 1..m
      BY <1>6
    <3>4. t \in AllTables
      BY <1>1, <1>4, <3>1, <3>2, <3>3, TableName
    <3>5. QED
      BY <1>17, <3>1, <3>2, <3>4
  <2>4. ASSUME NEW t \in InputTables(j)
        PROVE  t \in S
    <3>1. t \in AllTables
      BY DEF InputTables
    <3>2. PICK i \in 1..c : t[1] = j /\ s[i] = t[2]
      BY <1>17, <3>1
    <3>3. t = <<t[1], t[2]>>
      BY <3>1, AllTablesFacts
    <3>4. s[i] \in ToSet(q)
      BY <1>10 DEF ToSet
    <3>5. QED
      BY <2>1, <3>2, <3>3, <3>4
  <2>5. QED
    BY <2>2, <2>3, <2>4
<1>22. Published' = Published
  <2>1. \A t \in InputTables(j) : t[2] > unlinked[t[1]]
    BY <1>18 DEF ListInv
  <2>2. QED
    BY <1>14, <1>18, <1>20, <1>21, <2>1 DEF Published
<1>23. ASSUME NEW u \in InputTables(j), NEW y \in Listed', y[1] = j
       PROVE  u[2] < y[2]
  <2>1. u \in AllTables /\ y \in AllTables /\ InList(y)'
    BY <1>18 DEF Listed
  <2>2. PICK i \in 1..c : s[i] = u[2]
    BY <1>17, <2>1
  <2>3. PICK a \in 1..(m - c) : r[a] = y[2]
    BY <1>12, <1>16, <1>23, <2>1 DEF InList
  <2>4. c + a \in 1..m /\ i \in 1..m /\ i < c + a /\ s[c + a] = y[2]
    BY <1>6, <1>8, <2>3
  <2>5. QED
    BY <1>15, <2>2, <2>4
<1>24. ASSUME NEW l \in Levels, NEW a \in DOMAIN readers_at_level'[l], NEW b \in DOMAIN readers_at_level'[l], a < b
       PROVE  readers_at_level'[l][a] < readers_at_level'[l][b]
  <2>1. CASE l # j
    BY <1>12, <1>24, <2>1 DEF ListInv
  <2>2. CASE l = j
    <3>1. a \in 1..(m - c) /\ b \in 1..(m - c)
      BY <1>12, <1>16, <2>2
    <3>2. c + a \in 1..m /\ c + b \in 1..m /\ c + a < c + b /\ r[a] = s[c + a] /\ r[b] = s[c + b]
      BY <1>8, <1>24, <3>1
    <3>3. QED
      BY <1>12, <1>15, <2>2, <3>2
  <2>3. QED
    BY <2>1, <2>2
<1>25. \A l \in MergeLevels : l # j => InputTables(l)' = InputTables(l)
  BY <1>12, MergeLevelsFacts DEF InputTables
<1>26. \A u \in InputTables(j) : u[1] = j
  BY DEF InputTables
<1>27. QED
  BY <1>12, <1>13, <1>18, <1>20, <1>21, <1>22, <1>23, <1>24, <1>25, <1>26

LEMMA RemoveInputsTables ==
  ASSUME Types, TableInv, NEW j \in MergeLevels, RemoveInputs(j)
  PROVE  TableTypes' /\ TableInv' /\ SameAnswers
<1> USE DEF TableInv
<1>1. Loaded /\ Loaded'
  BY WorksIsLoaded DEF RemoveInputs, Loaded
<1>2. merge[j].at = "remove" /\ ~Merging(j) /\ Len(readers_at_level[j]) >= COMPACTION_TRIGGER
  BY DEF RemoveInputs, Merging, OutputInv, MergeOutput
<1>3. j + 1 \in Levels /\ j \in Levels /\ j \in Nat /\ j + 1 \in Nat /\ j < j + 1
  BY MergeLevelsFacts
<1>4. UNCHANGED <<sstables, unlinked, writes, flush_num, sstable_counter, flusher, memtable, active>>
  BY DEF RemoveInputs, disk, flushVars, memVars
<1>5. merge \in [MergeLevels -> Merges] /\ Idle \in Merges
  BY DEF Types, TableTypes, ListTypes, Merges, Idle
<1>6. merge'[j] = Idle /\ (\A l \in MergeLevels : l # j => merge'[l] = merge[l]) /\ merge' \in [MergeLevels -> Merges]
  BY <1>5 DEF RemoveInputs
<1>7. PICK I, X, Y, B : I = InputTables(j) /\ X = Listed /\ Y = Listed' /\ B = Published
  OBVIOUS
<1>8. /\ Y = X \ I /\ I \subseteq X /\ doomed' = doomed \union I /\ B = Published'
      /\ readers_at_level' \in [Levels -> Seq(Nat)]
      /\ \A l \in Levels : l # j => readers_at_level'[l] = readers_at_level[l]
      /\ \A l \in Levels : \A a, b \in DOMAIN readers_at_level'[l] :
           a < b => readers_at_level'[l][a] < readers_at_level'[l][b]
      /\ \A r \in I : r[1] = j
      /\ \A r \in I, y \in Y : y[1] = j => r[2] < y[2]
      /\ \A l \in MergeLevels : l # j => InputTables(l)' = InputTables(l)
  BY <1>2, <1>7, RemovedLists
<1>9. X \subseteq AllTables /\ X \subseteq DOMAIN sstables
  BY <1>7, ListedFacts
<1>10. curr_max_level \in Levels /\ curr_max_level \in Nat
       /\ curr_max_level' = (IF curr_max_level <= j + 1 THEN j + 1 ELSE curr_max_level)
  <2>1. curr_max_level \in Levels /\ curr_max_level \in Nat
    BY LevelsFacts DEF Types, TableTypes, ListTypes
  <2>2. PICK x \in Int, y \in Int : x = curr_max_level /\ y = j + 1
    BY <1>3, <2>1
  <2>3. curr_max_level' = Max({x, y})
    BY <2>2 DEF RemoveInputs
  <2>4. QED
    BY <2>1, <2>2, <2>3, MaxOfTwo
<1>11. awake' = awake \union {j + 1}
  BY DEF RemoveInputs
<1>12. TableTypes'
  <2>1. doomed' \subseteq DOMAIN sstables
    BY <1>8, <1>9 DEF Types, TableTypes, ListTypes
  <2>2. ListTypes'
    BY <1>3, <1>4, <1>6, <1>8, <1>10, <1>11, <2>1 DEF Types, TableTypes, ListTypes
  <2>3. FileTypes'
    BY <1>4 DEF Types, TableTypes, FileTypes
  <2>4. QED
    BY <2>2, <2>3 DEF TableTypes
<1>13. \A l \in MergeLevels : l # j =>
         (Merging(l)' <=> Merging(l)) /\ MergeTable(l)' = MergeTable(l)
  BY <1>6 DEF Merging, MergeTable
<1>14. ~Merging(j)'
  BY <1>6 DEF Merging, Idle
<1>15. FlushTable' = FlushTable /\ (Writing' <=> Writing)
  BY <1>4 DEF FlushTable, Writing
<1>16. CounterInv'
  <2>1. merge # [l \in MergeLevels |-> Idle]
    BY <1>2 DEF Idle
  <2>2. \A u \in DOMAIN sstables : u[2] < sstable_counter
    BY <1>1, <2>1 DEF CounterInv
  <2>3. QED
    BY <1>1, <1>4, <2>2 DEF CounterInv
<1>17. ListInv'
  <2>1. \A u \in Listed' : u \in DOMAIN sstables' /\ sstables'[u].finished /\ u[2] > unlinked'[u[1]]
    BY <1>4, <1>7, <1>8 DEF ListInv
  <2>2. \A u \in doomed' : sstables'[u].finished /\ u \notin Listed'
    BY <1>4, <1>7, <1>8 DEF ListInv
  <2>3. \A u \in doomed', v \in Listed' : u[1] = v[1] => u[2] < v[2]
    BY <1>7, <1>8 DEF ListInv
  <2>4. \A u \in DOMAIN sstables' :
          \/ u \in Listed' \/ u \in doomed' \/ (Writing' /\ u = FlushTable')
          \/ \E l \in MergeLevels : Merging(l)' /\ u = MergeTable(l)'
    <3>1. ASSUME NEW u \in DOMAIN sstables', u \notin Listed', u \notin doomed'
          PROVE  (Writing' /\ u = FlushTable') \/ \E l \in MergeLevels : Merging(l)' /\ u = MergeTable(l)'
      <4>1. u \in DOMAIN sstables /\ u \notin Listed /\ u \notin doomed
        BY <1>4, <1>7, <1>8, <3>1
      <4>2. (Writing /\ u = FlushTable) \/ \E l \in MergeLevels : Merging(l) /\ u = MergeTable(l)
        BY <1>1, <4>1 DEF ListInv
      <4>3. QED
        BY <1>2, <1>13, <1>15, <4>2
    <3>2. QED
      BY <3>1
  <2>5. QED
    BY <1>8, <2>1, <2>2, <2>3, <2>4 DEF ListInv
<1>18. \A u \in Listed' \union doomed' : u \in Listed \union doomed
  BY <1>7, <1>8
<1>19. OutputInv'
  <2>1. FlushOutput'
    BY <1>4, <1>15, <1>18 DEF OutputInv, FlushOutput
  <2>2. ASSUME NEW l \in MergeLevels
        PROVE  MergeOutput(l)'
    <3>1. CASE l = j
      BY <1>6, <1>14, <3>1 DEF MergeOutput, Idle
    <3>2. CASE l # j
      <4>1. l \in Levels /\ merge'[l] = merge[l] /\ readers_at_level'[l] = readers_at_level[l]
            /\ MergeTable(l)' = MergeTable(l) /\ (Merging(l)' <=> Merging(l)) /\ InputTables(l)' = InputTables(l)
        BY <1>6, <1>8, <1>13, <3>2, MergeLevelsFacts
      <4>2. MergeOutput(l)
        BY DEF OutputInv
      <4>3. Merging(l)' => /\ MergeTable(l)' \in DOMAIN sstables' /\ unlinked'[l + 1] < merge'[l].num
                           /\ \A u \in Listed' \union doomed' : u[1] = l + 1 => u[2] < merge'[l].num
        BY <1>4, <1>18, <4>1, <4>2 DEF MergeOutput
      <4>4. merge'[l].at = "add" =>
              /\ sstables'[MergeTable(l)'].finished
              /\ \A k \in Keys : sstables'[MergeTable(l)'].data[k] =
                   PurgedIn(writes', merge'[l].purge, EntryIn(sstables', InputTables(l)', k))
        BY <1>4, <4>1, <4>2 DEF MergeOutput
      <4>5. /\ merge'[l].at # "idle" => Len(readers_at_level'[l]) >= COMPACTION_TRIGGER
            /\ merge'[l].at = "write" => ~sstables'[MergeTable(l)'].finished
        BY <1>4, <4>1, <4>2 DEF MergeOutput
      <4>6. QED
        BY <4>3, <4>4, <4>5 DEF MergeOutput
    <3>3. QED
      BY <3>1, <3>2
  <2>3. QED
    BY <2>1, <2>2 DEF OutputInv
<1>20. PurgeInv'
  <2>1. curr_max_level <= curr_max_level' /\ j + 1 <= curr_max_level' /\ curr_max_level' \in Nat
    BY <1>3, <1>10
  <2>2. ASSUME NEW l \in awake'
        PROVE  l <= curr_max_level'
    <3>1. CASE l \in awake
      <4>1. l <= curr_max_level /\ l \in Nat
        BY <3>1, LevelsFacts DEF PurgeInv, Types, TableTypes, ListTypes
      <4>2. QED
        BY <1>10, <2>1, <4>1
    <3>2. CASE l = j + 1
      BY <2>1, <3>2
    <3>3. QED
      BY <1>11, <2>2, <3>1, <3>2
  <2>3. ASSUME NEW l \in MergeLevels, merge'[l].at # "idle"
        PROVE  l <= curr_max_level'
    <3>1. l # j
      BY <1>6, <2>3 DEF Idle
    <3>2. l <= curr_max_level /\ l \in Nat
      BY <1>6, <2>3, <3>1, MergeLevelsFacts DEF PurgeInv
    <3>3. QED
      BY <1>10, <2>1, <3>2
  <2>4. ASSUME NEW l \in MergeLevels, Merging(l)', merge'[l].purge, NEW n \in Levels, n > l
        PROVE  readers_at_level'[n] = <<>>
    <3>1. l # j /\ Merging(l) /\ merge[l].purge
      BY <1>6, <1>13, <1>14, <2>4
    <3>2. readers_at_level[n] = <<>>
      BY <2>4, <3>1 DEF PurgeInv
    <3>3. n # j
      BY <1>2, <3>2, Constants_
    <3>4. QED
      BY <1>8, <3>2, <3>3
  <2>5. ASSUME NEW n \in Levels, n > curr_max_level', readers_at_level'[n] # <<>>
        PROVE  n = curr_max_level' + 1 /\ merge'[curr_max_level'].at = "remove"
    <3>1. n \in Nat /\ n > curr_max_level /\ n # j /\ n > j + 1
      <4>1. PICK c \in Nat, d \in Nat : c = curr_max_level /\ d = curr_max_level'
        BY <1>10, <2>1
      <4>2. c <= d /\ j + 1 <= d /\ n > d /\ j \in Nat
        BY <1>3, <2>1, <2>5, <4>1
      <4>3. n \in Nat
        BY <2>5, LevelsFacts
      <4>4. n > c /\ n # j /\ n > j + 1
        BY <4>1, <4>2, <4>3
      <4>5. QED
        BY <4>1, <4>3, <4>4
    <3>2. readers_at_level[n] # <<>>
      BY <1>8, <2>5, <3>1
    <3>3. n = curr_max_level + 1 /\ merge[curr_max_level].at = "remove"
      BY <1>1, <3>1, <3>2 DEF PurgeInv
    <3>4. j <= curr_max_level
      BY <1>2 DEF PurgeInv
    <3>5. curr_max_level' = curr_max_level /\ curr_max_level # j /\ curr_max_level \in MergeLevels
      BY <1>3, <1>10, <2>5, <3>1, <3>3, <3>4, LevelsFacts, Constants_ DEF MergeLevels
    <3>6. QED
      BY <1>6, <3>3, <3>5
  <2>6. QED
    BY <2>2, <2>3, <2>4, <2>5 DEF PurgeInv
<1>21. PICK N \in Nat : \A u \in DOMAIN sstables : u[2] <= N
  BY Bounded
<1>22. /\ X \ Y = I /\ Y \subseteq X /\ \A u \in X : u[2] <= N
       /\ \A r \in X \ Y : r[1] = j /\ \A y \in Y : y[1] = j => r[2] < y[2]
  BY <1>8, <1>9, <1>21
<1>23. ASSUME NEW k \in Keys, NEW l \in Nat
       PROVE  ListedFrom(l, k)' = ListedFrom(l, k)
  <2>1. PICK D, W : D = sstables /\ W = writes
    OBVIOUS
  <2>2. LastDropped(D, X, Y, j, k, l)
    BY <1>3, <1>9, <1>22, DropLast
  <2>3. /\ ListedFrom(l, k) = AnswerIn(W, EntryIn(D, Deeper(X, l), k))
        /\ ListedFrom(l, k)' = AnswerIn(W, EntryIn(D, Deeper(Y, l), k))
        /\ ListedFrom(j + 1, k) = AnswerIn(W, EntryIn(D, Deeper(X, j + 1), k))
    BY <1>4, <1>7, <2>1 DEF ListedFrom
  <2>4. EntryIn(D, I, k) # 0 => AnswerIn(W, EntryIn(D, Deeper(X, j + 1), k)) = AnswerIn(W, EntryIn(D, I, k))
    BY <1>2, <1>7, <2>1, <2>3 DEF RemovedInv
  <2>5. Holders(D, I, k) # {} => EntryIn(D, I, k) # 0
    <3>1. ASSUME Holders(D, I, k) # {}
          PROVE  EntryIn(D, I, k) # 0
      <4>1. I \subseteq AllTables /\ \A u \in I : u[2] <= N
        BY <1>8, <1>9, <1>22
      <4>2. PICK t \in I : IsTop(D, I, k, t)
        BY <3>1, <4>1, TopExists
      <4>3. EntryIn(D, I, k) # 0
        BY <4>1, <4>2, TopIsEntry
      <4>4. QED
        BY <4>3
    <3>2. QED
      BY <3>1
  <2>6. CASE l > j
    BY <2>2, <2>3, <2>6 DEF LastDropped
  <2>7. CASE l <= j /\ \E y \in Y : l <= y[1] /\ y[1] <= j /\ D[y].data[k] # 0
    BY <2>2, <2>3, <2>7 DEF LastDropped
  <2>8. CASE l <= j /\ \A y \in Y : l <= y[1] /\ y[1] <= j => D[y].data[k] = 0
    BY <1>22, <2>2, <2>3, <2>4, <2>5, <2>8 DEF LastDropped
  <2>9. QED
    BY <1>3, <2>6, <2>7, <2>8
<1>24. \A l \in Nat, k \in Keys : PublishedFrom(l, k)' = PublishedFrom(l, k)
  BY <1>4, <1>7, <1>8 DEF PublishedFrom
<1>25. DoomedInv'
  <2>1. ASSUME NEW l \in 0..(MAX_LEVEL + 1), NEW k \in Keys
        PROVE  PublishedFrom(l, k)' = ListedFrom(l, k)'
    <3>1. l \in Nat /\ PublishedFrom(l, k) = ListedFrom(l, k)
      BY Constants_ DEF DoomedInv
    <3>2. QED
      BY <1>23, <1>24, <3>1
  <2>2. QED
    BY <2>1 DEF DoomedInv
<1>26. RemovedInv'
  <2>1. ASSUME NEW l \in MergeLevels, NEW k \in Keys,
               merge'[l].at = "remove", EntryIn(sstables, InputTables(l), k)' # 0
        PROVE  ListedFrom(l + 1, k)' = AnswerIn(writes, EntryIn(sstables, InputTables(l), k))'
    <3>1. PICK n \in Nat : n = l + 1
      BY MergeLevelsFacts
    <3>2. l # j
      BY <1>6, <2>1 DEF Idle
    <3>3. merge[l].at = "remove" /\ InputTables(l)' = InputTables(l)
      BY <1>6, <1>8, <2>1, <3>2
    <3>4. ListedFrom(n, k) = AnswerIn(writes, EntryIn(sstables, InputTables(l), k))
      BY <1>4, <2>1, <3>1, <3>3 DEF RemovedInv
    <3>5. ListedFrom(n, k)' = ListedFrom(n, k)
      BY <1>23
    <3>6. QED
      BY <1>4, <3>1, <3>3, <3>4, <3>5
  <2>2. QED
    BY <2>1 DEF RemovedInv
<1>27. SameAnswers
  <2>1. ASSUME NEW k \in Keys
        PROVE  ListedFrom(0, k)' = ListedFrom(0, k)
    <3>1. PICK l \in Nat : l = 0
      OBVIOUS
    <3>2. QED
      BY <1>23, <3>1
  <2>2. QED
    BY <2>1 DEF SameAnswers
<1>28. QED
  BY <1>12, <1>16, <1>17, <1>19, <1>20, <1>25, <1>26, <1>27

LEMMA UnlinkTables ==
  ASSUME Types, TableInv, NEW t, Unlink(t)
  PROVE  TableTypes' /\ TableInv' /\ SameAnswers
<1> USE DEF TableInv
<1>1. Loaded /\ Loaded'
  BY WorksIsLoaded DEF Unlink, Loaded
<1>2. /\ UNCHANGED <<readers_at_level, merge, awake, writes, flush_num, sstable_counter, curr_max_level>>
      /\ UNCHANGED <<flusher, memtable, active>>
  BY DEF Unlink, flushVars, memVars, tableVars
<1>3. t \in doomed /\ t \in DOMAIN sstables /\ t \in AllTables /\ t[2] \in Nat
  BY AllTablesFacts DEF Unlink, Types, TableTypes, ListTypes, FileTypes
<1>4. PICK m \in Nat : m = t[1] /\ m \in Levels /\ m <= MAX_LEVEL
  BY <1>3, AllTablesFacts, LevelsFacts, Constants_
<1>5. PICK D, E : D = sstables /\ E = sstables'
  OBVIOUS
<1>6. DOMAIN E = DOMAIN D \ {t} /\ \A u \in DOMAIN E : E[u] = D[u]
  BY <1>5 DEF Unlink, Restrict
<1>7. doomed' = doomed \ {t}
  BY DEF Unlink
<1>8. unlinked \in [Levels -> Int]
  BY DEF Types, TableTypes, ListTypes
<1>9. PICK a \in Int : a = unlinked[m]
  BY <1>4, <1>8
<1>10. PICK b \in Int : b = Max({a, t[2]}) /\ b >= a /\ b >= t[2] /\ (b = a \/ b = t[2])
  BY <1>3, MaxOfTwo
<1>11. unlinked' = [unlinked EXCEPT ![m] = b]
  BY <1>4, <1>9, <1>10 DEF Unlink
<1>12. /\ unlinked' \in [Levels -> Int] /\ unlinked'[m] = b
       /\ \A l \in Levels : l # m => unlinked'[l] = unlinked[l]
  BY <1>4, <1>8, <1>11
<1>13. PICK L, X, Y : L = Listed /\ X = Published /\ Y = Published'
  OBVIOUS
<1>14. L = Listed' /\ \A l \in MergeLevels : InputTables(l)' = InputTables(l)
  BY <1>2, <1>13 DEF Listed, InList, InputTables
<1>15. L \subseteq X /\ X \subseteq DOMAIN D /\ X \subseteq AllTables /\ L \subseteq AllTables
  BY <1>5, <1>13, ListedFacts
<1>16. \A u \in X : u[1] \in Levels /\ u[2] \in Nat
  BY <1>15, AllTablesFacts, Constants_
<1>17. \A u \in L : u[1] = m => u[2] > t[2] /\ u[2] > a /\ u[2] > b
  BY <1>3, <1>4, <1>9, <1>10, <1>13 DEF ListInv
<1>18. t \notin L
  BY <1>3, <1>13 DEF ListInv
<1>19. \A u \in doomed : u \in DOMAIN D /\ u[1] \in Levels /\ u[2] \in Nat
  <2>1. \A u \in doomed : u \in AllTables /\ u \in DOMAIN D
    BY <1>5 DEF Types, TableTypes, ListTypes, FileTypes
  <2>2. QED
    BY <2>1, AllTablesFacts, Constants_
<1>20. ASSUME NEW u
       PROVE  u \in Y <=> u \in L \/ (u \in doomed /\ u # t /\ u[2] > unlinked'[u[1]])
  BY <1>7, <1>13, <1>14 DEF Published
<1>21. ASSUME NEW u
       PROVE  u \in X <=> u \in L \/ (u \in doomed /\ u[2] > unlinked[u[1]])
  BY <1>13 DEF Published
<1>22. Y \subseteq X /\ t \notin Y
  <2>1. ASSUME NEW u \in doomed, u[2] > unlinked'[u[1]]
        PROVE  u[2] > unlinked[u[1]]
    <3>1. CASE u[1] = m
      BY <1>9, <1>10, <1>12, <1>19, <2>1, <3>1
    <3>2. CASE u[1] # m
      BY <1>12, <1>19, <2>1, <3>2
    <3>3. QED
      BY <3>1, <3>2
  <2>2. QED
    BY <1>18, <1>20, <1>21, <2>1
<1>23. Y \subseteq DOMAIN E /\ \A u \in Y : E[u] = D[u]
  BY <1>6, <1>15, <1>22
<1>24. \A r \in X \ Y : r[1] = m /\ \A y \in Y : y[1] = m => r[2] < y[2]
  <2>1. ASSUME NEW r \in X \ Y
        PROVE  r[1] = m /\ r[2] <= b /\ r \in doomed /\ r[2] \in Nat
    <3>1. r \in doomed /\ r[2] > unlinked[r[1]] /\ r[1] \in Levels /\ r[2] \in Nat
      BY <1>16, <1>20, <1>21
    <3>2. r = t \/ ~(r[2] > unlinked'[r[1]])
      BY <1>20, <3>1
    <3>3. CASE r = t
      BY <1>4, <1>10, <3>1, <3>3
    <3>4. CASE ~(r[2] > unlinked'[r[1]])
      <4>1. r[1] = m
        BY <1>12, <3>1, <3>4
      <4>2. QED
        BY <1>12, <3>1, <3>4, <4>1
    <3>5. QED
      BY <3>2, <3>3, <3>4
  <2>2. ASSUME NEW y \in Y, y[1] = m
        PROVE  y[2] > b /\ y[2] \in Nat
    <3>1. y[2] \in Nat
      BY <1>16, <1>22
    <3>2. CASE y \in L
      BY <1>17, <2>2, <3>1, <3>2
    <3>3. CASE y \notin L
      BY <1>12, <1>20, <2>2, <3>1, <3>3
    <3>4. QED
      BY <3>2, <3>3
  <2>3. QED
    BY <2>1, <2>2
<1>25. PICK N \in Nat : \A u \in DOMAIN D : u[2] <= N
  BY <1>5, Bounded
<1>26. (\A u \in X : u[2] <= N) /\ (\A u \in L : u[2] <= N) /\ L \subseteq Y
  BY <1>15, <1>20, <1>25
<1>27. ASSUME NEW P, P \subseteq Y, NEW k \in Keys
       PROVE  EntryIn(E, P, k) = EntryIn(D, P, k)
  <2>1. P \subseteq AllTables /\ (\A u \in P : u[2] <= N) /\ \A u \in P : E[u].data[k] = D[u].data[k]
    BY <1>15, <1>22, <1>23, <1>26, <1>27
  <2>2. QED
    BY <2>1, SameFiles
<1>28. ASSUME NEW k \in Keys, NEW l \in Nat
       PROVE  /\ ListedFrom(l, k)' = AnswerIn(writes, EntryIn(D, Deeper(L, l), k))
              /\ ListedFrom(l, k) = AnswerIn(writes, EntryIn(D, Deeper(L, l), k))
              /\ PublishedFrom(l, k) = AnswerIn(writes, EntryIn(D, Deeper(X, l), k))
              /\ PublishedFrom(l, k)' = AnswerIn(writes, EntryIn(D, Deeper(Y, l), k))
  <2>1. PICK P, Q : P = Deeper(L, l) /\ Q = Deeper(Y, l)
    OBVIOUS
  <2>2. P \subseteq Y /\ Q \subseteq Y
    BY <1>26, <2>1 DEF Deeper
  <2>3. EntryIn(E, P, k) = EntryIn(D, P, k) /\ EntryIn(E, Q, k) = EntryIn(D, Q, k)
    BY <1>27, <2>2
  <2>4. ListedFrom(l, k)' = AnswerIn(writes, EntryIn(E, P, k))
    BY <1>2, <1>5, <1>14, <2>1 DEF ListedFrom
  <2>5. PublishedFrom(l, k)' = AnswerIn(writes, EntryIn(E, Q, k))
    BY <1>2, <1>5, <1>13, <2>1 DEF PublishedFrom
  <2>6. /\ ListedFrom(l, k) = AnswerIn(writes, EntryIn(D, Deeper(L, l), k))
        /\ PublishedFrom(l, k) = AnswerIn(writes, EntryIn(D, Deeper(X, l), k))
    BY <1>5, <1>13 DEF ListedFrom, PublishedFrom
  <2>7. QED
    BY <2>1, <2>3, <2>4, <2>5, <2>6
<1>29. DoomedInv'
  <2>1. ASSUME NEW l \in 0..(MAX_LEVEL + 1), NEW k \in Keys
        PROVE  PublishedFrom(l, k)' = ListedFrom(l, k)'
    <3>1. l \in Nat /\ PublishedFrom(l, k) = ListedFrom(l, k)
      BY Constants_ DEF DoomedInv
    <3>2. PICK n \in Nat : n = m + 1 /\ n \in 0..(MAX_LEVEL + 1)
      BY <1>4, Constants_
    <3>3. PublishedFrom(n, k) = ListedFrom(n, k)
      BY <3>2 DEF DoomedInv
    <3>4. LastDropped(D, X, Y, m, k, l)
      BY <1>15, <1>22, <1>24, <1>26, <3>1, DropLast
    <3>5. CASE EntryIn(D, Deeper(Y, l), k) = EntryIn(D, Deeper(X, l), k)
      BY <1>28, <3>1, <3>5
    <3>6. CASE EntryIn(D, Deeper(Y, l), k) # EntryIn(D, Deeper(X, l), k)
      <4>1. /\ l <= m /\ \A y \in Y : l <= y[1] /\ y[1] <= m => D[y].data[k] = 0
            /\ EntryIn(D, Deeper(Y, l), k) = EntryIn(D, Deeper(X, n), k)
        BY <3>1, <3>2, <3>4, <3>6 DEF LastDropped
      <4>2. \A u \in L : l <= u[1] /\ u[1] < n => D[u].data[k] = 0
        <5>1. \A u \in L : u \in Y /\ u[1] \in Nat
          BY <1>15, <1>26, AllTablesFacts
        <5>2. QED
          BY <3>2, <4>1, <5>1
      <4>3. l <= n
        BY <3>1, <3>2, <4>1
      <4>4. EntryIn(D, Deeper(L, l), k) = EntryIn(D, Deeper(L, n), k)
        BY <1>15, <1>26, <3>1, <4>2, <4>3, SkipLevels
      <4>5. /\ ListedFrom(l, k)' = AnswerIn(writes, EntryIn(D, Deeper(L, l), k))
            /\ PublishedFrom(l, k)' = AnswerIn(writes, EntryIn(D, Deeper(Y, l), k))
            /\ ListedFrom(n, k) = AnswerIn(writes, EntryIn(D, Deeper(L, n), k))
            /\ PublishedFrom(n, k) = AnswerIn(writes, EntryIn(D, Deeper(X, n), k))
        BY <1>28, <3>1
      <4>6. QED
        BY <3>3, <4>1, <4>4, <4>5
    <3>7. QED
      BY <3>5, <3>6
  <2>2. QED
    BY <2>1 DEF DoomedInv
<1>30. ASSUME NEW l \in Nat, NEW k \in Keys
       PROVE  ListedFrom(l, k)' = ListedFrom(l, k)
  BY <1>28
<1>31. ASSUME NEW l \in MergeLevels, Len(readers_at_level[l]) >= COMPACTION_TRIGGER, NEW k \in Keys
       PROVE  EntryIn(sstables', InputTables(l)', k) = EntryIn(sstables, InputTables(l), k)
  <2>1. PICK P : P = InputTables(l) /\ P = InputTables(l)'
    BY <1>14
  <2>2. P \subseteq Y
    BY <1>13, <1>26, <1>31, <2>1, InputsListed
  <2>3. EntryIn(E, P, k) = EntryIn(D, P, k)
    BY <1>27, <2>2
  <2>4. QED
    BY <1>5, <2>1, <2>3
<1>32. RemovedInv'
  <2>1. ASSUME NEW l \in MergeLevels, NEW k \in Keys,
               merge'[l].at = "remove", EntryIn(sstables, InputTables(l), k)' # 0
        PROVE  ListedFrom(l + 1, k)' = AnswerIn(writes, EntryIn(sstables, InputTables(l), k))'
    <3>1. PICK n \in Nat : n = l + 1
      BY MergeLevelsFacts
    <3>2. merge[l].at = "remove" /\ Len(readers_at_level[l]) >= COMPACTION_TRIGGER
      BY <1>2, <2>1 DEF OutputInv, MergeOutput
    <3>3. EntryIn(sstables', InputTables(l)', k) = EntryIn(sstables, InputTables(l), k)
      BY <1>31, <3>2
    <3>4. ListedFrom(n, k) = AnswerIn(writes, EntryIn(sstables, InputTables(l), k))
      BY <2>1, <3>1, <3>2, <3>3 DEF RemovedInv
    <3>5. ListedFrom(n, k)' = ListedFrom(n, k)
      BY <1>30
    <3>6. QED
      BY <1>2, <3>1, <3>3, <3>4, <3>5
  <2>2. QED
    BY <2>1 DEF RemovedInv
<1>33. FlushTable' = FlushTable /\ (Writing' <=> Writing) /\ \A l \in MergeLevels : (Merging(l)' <=> Merging(l)) /\ MergeTable(l)' = MergeTable(l)
  BY <1>2 DEF FlushTable, Writing, Merging, MergeTable
<1>34. \A u \in DOMAIN sstables : u[2] < sstable_counter
  BY <1>1, <1>3, NextNumberIsNew
<1>35. sstable_counter \in Nat
  BY DEF Types, TableTypes, ListTypes
<1>36. CounterInv'
  <2>1. \A l \in Levels : unlinked'[l] < sstable_counter
    <3>1. a < sstable_counter /\ t[2] < sstable_counter
      BY <1>1, <1>3, <1>4, <1>9, <1>34, NextNumberIsNew
    <3>2. b < sstable_counter
      BY <1>3, <1>10, <3>1
    <3>3. \A l \in Levels : unlinked[l] < sstable_counter
      BY <1>1, NextNumberIsNew
    <3>4. QED
      BY <1>12, <3>2, <3>3
  <2>2. QED
    BY <1>2, <1>5, <1>6, <1>34, <2>1 DEF CounterInv
<1>37. ListInv'
  <2>1. ASSUME NEW u \in Listed'
        PROVE  u \in DOMAIN sstables' /\ sstables'[u].finished /\ u[2] > unlinked'[u[1]]
    <3>1. u \in Listed /\ u \in L /\ u \in Y /\ u[1] \in Levels
      BY <1>13, <1>14, <1>16, <1>26, <1>22
    <3>2. u \in DOMAIN sstables' /\ sstables'[u].finished
      BY <1>5, <1>23, <3>1 DEF ListInv
    <3>3. u[2] > unlinked'[u[1]]
      <4>1. CASE u[1] = m
        BY <1>12, <1>17, <3>1, <4>1
      <4>2. CASE u[1] # m
        BY <1>12, <3>1, <4>2 DEF ListInv
      <4>3. QED
        BY <4>1, <4>2
    <3>4. QED
      BY <3>2, <3>3
  <2>2. \A u \in doomed' : sstables'[u].finished /\ u \notin Listed'
    BY <1>5, <1>6, <1>7, <1>13, <1>14, <1>19 DEF ListInv
  <2>3. \A u \in doomed', v \in Listed' : u[1] = v[1] => u[2] < v[2]
    BY <1>7, <1>13, <1>14 DEF ListInv
  <2>4. \A u \in DOMAIN sstables' :
          \/ u \in Listed' \/ u \in doomed' \/ (Writing' /\ u = FlushTable')
          \/ \E l \in MergeLevels : Merging(l)' /\ u = MergeTable(l)'
    <3>1. ASSUME NEW u \in DOMAIN sstables'
          PROVE  \/ u \in Listed' \/ u \in doomed' \/ (Writing' /\ u = FlushTable')
                 \/ \E l \in MergeLevels : Merging(l)' /\ u = MergeTable(l)'
      <4>1. u \in DOMAIN sstables /\ u # t
        BY <1>5, <1>6
      <4>2. \/ u \in Listed \/ u \in doomed \/ (Writing /\ u = FlushTable)
            \/ \E l \in MergeLevels : Merging(l) /\ u = MergeTable(l)
        BY <1>1, <4>1 DEF ListInv
      <4>3. QED
        BY <1>7, <1>13, <1>14, <1>33, <4>1, <4>2
    <3>2. QED
      BY <3>1
  <2>5. \A l \in Levels : \A i, j \in DOMAIN readers_at_level'[l] :
          i < j => readers_at_level'[l][i] < readers_at_level'[l][j]
    BY <1>2 DEF ListInv
  <2>6. QED
    BY <2>1, <2>2, <2>3, <2>4, <2>5 DEF ListInv
<1>38. \A u \in Listed' \union doomed' : u \in Listed \union doomed
  BY <1>7, <1>13, <1>14
<1>39. OutputInv'
  <2>1. FlushOutput'
    <3>1. FlushOutput /\ t[2] \in Nat /\ flush_num \in Nat
      BY <1>3 DEF OutputInv, Types, TableTypes, ListTypes
    <3>2. Writing => FlushTable # t
      <4>1. Writing /\ t[1] = 0 => t[2] < flush_num
        BY <1>3, <3>1 DEF FlushOutput
      <4>2. QED
        BY <3>1, <4>1 DEF FlushTable
    <3>3. Writing => unlinked'[0] < flush_num
      <4>1. CASE m = 0
        BY <1>3, <1>4, <1>9, <1>10, <1>12, <3>1, <4>1 DEF FlushOutput
      <4>2. CASE m # 0
        BY <1>12, <3>1, <4>2, Constants_ DEF FlushOutput
      <4>3. QED
        BY <4>1, <4>2
    <3>4. Writing => FlushTable \in DOMAIN sstables' /\ sstables'[FlushTable] = sstables[FlushTable]
      BY <1>5, <1>6, <3>1, <3>2 DEF FlushOutput
    <3>5. flusher \in {"write", "publish"} <=> Writing
      BY DEF Writing
    <3>6. Writing' => /\ FlushTable' \in DOMAIN sstables' /\ unlinked'[0] < flush_num'
                      /\ \A u \in Listed' \union doomed' : u[1] = 0 => u[2] < flush_num'
      BY <1>2, <1>33, <1>38, <3>1, <3>3, <3>4 DEF FlushOutput
    <3>7. /\ flusher' = "publish" => /\ sstables'[FlushTable'].finished
                                     /\ sstables'[FlushTable'].data = memtable'[1 - active']
          /\ flusher' = "write" => ~sstables'[FlushTable'].finished
      BY <1>2, <1>33, <3>1, <3>4, <3>5 DEF FlushOutput
    <3>8. QED
      BY <3>6, <3>7 DEF FlushOutput
  <2>2. ASSUME NEW l \in MergeLevels
        PROVE  MergeOutput(l)'
    <3>1. MergeOutput(l) /\ l + 1 \in Levels /\ merge[l].num \in Nat
      BY MergeLevelsFacts DEF OutputInv, Types, TableTypes, ListTypes, Merges
    <3>2. Merging(l) => MergeTable(l) # t
      <4>1. Merging(l) /\ t[1] = l + 1 => t[2] < merge[l].num
        BY <1>3, <3>1 DEF MergeOutput
      <4>2. QED
        BY <1>3, <3>1, <4>1 DEF MergeTable
    <3>3. Merging(l) => unlinked'[l + 1] < merge[l].num
      <4>1. CASE m = l + 1
        <5>1. Merging(l) => a < merge[l].num /\ t[2] < merge[l].num
          BY <1>3, <1>4, <1>9, <3>1, <4>1 DEF MergeOutput
        <5>2. Merging(l) => b < merge[l].num
          BY <1>10, <5>1
        <5>3. QED
          BY <1>12, <4>1, <5>2
      <4>2. CASE m # l + 1
        BY <1>12, <3>1, <4>2 DEF MergeOutput
      <4>3. QED
        BY <4>1, <4>2
    <3>4. Merging(l) => MergeTable(l) \in DOMAIN sstables' /\ sstables'[MergeTable(l)] = sstables[MergeTable(l)]
      BY <1>5, <1>6, <3>1, <3>2 DEF MergeOutput
    <3>5. Merging(l)' => /\ MergeTable(l)' \in DOMAIN sstables' /\ unlinked'[l + 1] < merge'[l].num
                         /\ \A u \in Listed' \union doomed' : u[1] = l + 1 => u[2] < merge'[l].num
      BY <1>2, <1>33, <1>38, <3>1, <3>3, <3>4 DEF MergeOutput
    <3>6. /\ merge'[l].at # "idle" => Len(readers_at_level'[l]) >= COMPACTION_TRIGGER
          /\ merge'[l].at = "write" => ~sstables'[MergeTable(l)'].finished
      BY <1>2, <1>33, <3>1, <3>4 DEF MergeOutput, Merging
    <3>7. merge'[l].at = "add" =>
            /\ sstables'[MergeTable(l)'].finished
            /\ \A k \in Keys : sstables'[MergeTable(l)'].data[k] =
                 PurgedIn(writes', merge'[l].purge, EntryIn(sstables', InputTables(l)', k))
      <4>1. SUFFICES ASSUME merge[l].at = "add"
                     PROVE  /\ sstables'[MergeTable(l)'].finished
                            /\ \A k \in Keys : sstables'[MergeTable(l)'].data[k] =
                                 PurgedIn(writes', merge'[l].purge, EntryIn(sstables', InputTables(l)', k))
        BY <1>2
      <4>2. Merging(l) /\ Len(readers_at_level[l]) >= COMPACTION_TRIGGER
        BY <3>1, <4>1 DEF MergeOutput, Merging
      <4>3. \A k \in Keys : EntryIn(sstables', InputTables(l)', k) = EntryIn(sstables, InputTables(l), k)
        BY <1>31, <4>2
      <4>4. QED
        BY <1>2, <1>33, <3>1, <3>4, <4>1, <4>2, <4>3 DEF MergeOutput
    <3>8. QED
      BY <3>5, <3>6, <3>7 DEF MergeOutput
  <2>3. QED
    BY <2>1, <2>2 DEF OutputInv
<1>40. PurgeInv'
  BY <1>1, <1>2, <1>33 DEF PurgeInv
<1>41. TableTypes'
  <2>1. ListTypes'
    <3>1. doomed' \subseteq DOMAIN sstables'
      BY <1>5, <1>6, <1>7, <1>19
    <3>2. QED
      BY <1>2, <1>12, <3>1 DEF Types, TableTypes, ListTypes
  <2>2. FileTypes'
    <3>1. \A u \in DOMAIN sstables' : /\ u \in AllTables /\ sstables'[u].finished \in BOOLEAN
                                      /\ sstables'[u].data \in [Keys -> 0..Len(writes')]
      BY <1>2, <1>5, <1>6 DEF Types, TableTypes, FileTypes
    <3>2. \A u \in DOMAIN sstables' : u[2] <= N
      BY <1>5, <1>6, <1>25
    <3>3. QED
      BY <3>1, <3>2 DEF FileTypes
  <2>3. QED
    BY <2>1, <2>2 DEF TableTypes
<1>42. SameAnswers
  <2>1. ASSUME NEW k \in Keys
        PROVE  ListedFrom(0, k)' = ListedFrom(0, k)
    <3>1. PICK l \in Nat : l = 0
      OBVIOUS
    <3>2. QED
      BY <1>30, <3>1
  <2>2. QED
    BY <2>1 DEF SameAnswers
<1>43. QED
  BY <1>29, <1>32, <1>36, <1>37, <1>39, <1>40, <1>41, <1>42

-----------------------------------------------------------------------------
(* Sorted: there is such a list, and it has each of the numbers.           *)
ListsInOrder(list, S) ==
  list \in [1..Cardinality(S) -> S] /\ \A i, j \in DOMAIN list : i < j => list[i] < list[j]

LEMMA SortedExists ==
  ASSUME NEW N \in Nat, NEW S, S \subseteq 0..N
  PROVE  \E list : ListsInOrder(list, S)
<1> DEFINE Below(b) == {x \in S : x < b}
           Good == {b \in 0..(N + 1) : \E list : ListsInOrder(list, Below(b))}
<1>0. \A x \in S : x \in Nat /\ x <= N
  OBVIOUS
<1>1. 0 \in Good
  <2>1. PICK T : T = Below(0)
    OBVIOUS
  <2>2. T = {}
    <3>1. \A x \in S : ~(x < 0)
      BY <1>0
    <3>2. QED
      BY <2>1, <3>1
  <2>3. Cardinality(T) = 0
    BY <2>2, FS_EmptySet
  <2>4. PICK list : list = [i \in 1..0 |-> 0]
    OBVIOUS
  <2>5. list \in [1..0 -> T] /\ \A i \in DOMAIN list : FALSE
    BY <2>4
  <2>6. ListsInOrder(list, T)
    BY <2>3, <2>5 DEF ListsInOrder
  <2>7. QED
    BY <2>1, <2>6
<1>2. ASSUME NEW b \in 0..((N + 1) - 1), b \in Good
      PROVE  b + 1 \in Good
  <2>1. PICK T, U : T = Below(b) /\ U = Below(b + 1)
    OBVIOUS
  <2>2. PICK list : ListsInOrder(list, T)
    BY <1>2, <2>1
  <2>3. T \subseteq 0..N /\ IsFiniteSet(T) /\ Cardinality(T) \in Nat
    <3>1. T \subseteq 0..N
      BY <1>0, <2>1
    <3>2. IsFiniteSet(0..N)
      BY FS_Interval
    <3>3. QED
      BY <3>1, <3>2, FS_Subset, FS_CardinalityType
  <2>4. CASE b \notin S
    <3>1. U = T
      <4>1. \A x \in S : x # b => (x < b + 1 <=> x < b)
        BY <1>0
      <4>2. QED
        BY <2>1, <2>4, <4>1
    <3>2. QED
      BY <1>2, <2>1, <2>2, <3>1
  <2>5. CASE b \in S
    <3>1. U = T \union {b} /\ b \notin T
      <4>1. /\ \A x \in S : x < b + 1 <=> x < b \/ x = b
            /\ ~(b < b)
        BY <1>0
      <4>2. \A x : x \in U <=> x \in T \/ x = b
        BY <2>1, <2>5, <4>1
      <4>3. QED
        BY <2>1, <4>1, <4>2
    <3>2. PICK c \in Nat : c = Cardinality(T) /\ Cardinality(U) = c + 1
      BY <2>3, <3>1, FS_AddElement
    <3>3. list \in [1..c -> T] /\ \A i, j \in 1..c : i < j => list[i] < list[j]
      BY <2>2, <3>2 DEF ListsInOrder
    <3>4. PICK next : next = [i \in 1..(c + 1) |-> IF i = c + 1 THEN b ELSE list[i]]
      OBVIOUS
    <3>5. \A i \in 1..(c + 1) : i = c + 1 \/ i \in 1..c
      OBVIOUS
    <3>6. DOMAIN next = 1..(c + 1) /\ next[c + 1] = b /\ \A i \in 1..c : next[i] = list[i]
      BY <3>4
    <3>7. \A i \in 1..(c + 1) : next[i] \in U
      BY <3>1, <3>3, <3>5, <3>6
    <3>8. next \in [1..(c + 1) -> U]
      BY <3>4, <3>6, <3>7
    <3>9. \A i, j \in 1..(c + 1) : i < j => next[i] < next[j]
      <4>1. ASSUME NEW i \in 1..(c + 1), NEW j \in 1..(c + 1), i < j
            PROVE  next[i] < next[j]
        <5>1. i \in 1..c /\ next[i] = list[i] /\ list[i] < b
          BY <2>1, <3>3, <3>5, <3>6, <4>1
        <5>2. CASE j = c + 1
          BY <3>6, <5>1, <5>2
        <5>3. CASE j \in 1..c
          BY <3>3, <3>6, <4>1, <5>1, <5>3
        <5>4. QED
          BY <3>5, <5>2, <5>3
      <4>2. QED
        BY <4>1
    <3>10. ListsInOrder(next, U)
      BY <3>2, <3>6, <3>8, <3>9 DEF ListsInOrder
    <3>11. QED
      BY <2>1, <3>10
  <2>6. QED
    BY <2>4, <2>5
<1>3. PICK G : G = Good
  OBVIOUS
<1>4. PICK n \in Nat : n = N + 1
  OBVIOUS
<1>5. 0..n \subseteq G
  <2>1. 0 \in G /\ \A b \in 0..(n - 1) : b \in G => b + 1 \in G
    BY <1>1, <1>2, <1>3, <1>4
  <2>2. QED
    BY <2>1, InductionTo
<1>6. \E list : ListsInOrder(list, Below(n))
  BY <1>3, <1>5
<1>7. Below(n) = S
  <2>1. \A x \in S : x < n
    BY <1>0, <1>4
  <2>2. QED
    BY <2>1
<1>8. QED
  BY <1>6, <1>7

LEMMA SortedFacts ==
  ASSUME NEW N \in Nat, NEW S, S \subseteq 0..N
  PROVE  /\ Sorted(S) \in Seq(Nat)
         /\ \A i, j \in DOMAIN Sorted(S) : i < j => Sorted(S)[i] < Sorted(S)[j]
         /\ \A x : x \in S <=> \E i \in DOMAIN Sorted(S) : Sorted(S)[i] = x
<1>0. \A x \in S : x \in Nat /\ x <= N
  OBVIOUS
<1>1. IsFiniteSet(S) /\ Cardinality(S) \in Nat
  <2>1. IsFiniteSet(0..N)
    BY FS_Interval
  <2>2. QED
    BY <2>1, FS_Subset, FS_CardinalityType
<1>2. PICK c \in Nat : c = Cardinality(S)
  BY <1>1
<1>3. PICK list : list = Sorted(S)
  OBVIOUS
<1>4. list = CHOOSE f \in [1..c -> S] : \A i, j \in DOMAIN f : i < j => f[i] < f[j]
  BY <1>2, <1>3 DEF Sorted
<1>5. \E f \in [1..c -> S] : \A i, j \in DOMAIN f : i < j => f[i] < f[j]
  BY <1>2, SortedExists DEF ListsInOrder
<1>6. list \in [1..c -> S] /\ \A i, j \in DOMAIN list : i < j => list[i] < list[j]
  BY <1>4, <1>5
<1>7. list \in Injection(1..c, S)
  <2>1. ASSUME NEW i \in 1..c, NEW j \in 1..c, list[i] = list[j]
        PROVE  i = j
    <3>1. list[i] \in Nat /\ list[j] \in Nat
      BY <1>0, <1>6
    <3>2. ~(i < j) /\ ~(j < i)
      BY <1>6, <2>1, <3>1
    <3>3. QED
      BY <3>2
  <2>2. QED
    BY <1>6, <2>1 DEF Injection, IsInjective
<1>8. Cardinality(1..c) = c
  BY FS_Interval
<1>9. list \in Surjection(1..c, S)
  BY <1>1, <1>2, <1>7, <1>8, FS_Injection
<1>10. \A x \in S : \E i \in 1..c : list[i] = x
  BY <1>9 DEF Surjection
<1>11. list \in Seq(Nat)
  <2>1. list \in [1..c -> Nat]
    BY <1>0, <1>6
  <2>2. QED
    BY <2>1
<1>12. QED
  BY <1>3, <1>6, <1>10, <1>11

-----------------------------------------------------------------------------
(* DB::recover lists every table there is.                                 *)
LEMMA RecoverTablesTables ==
  ASSUME Types, TableInv, FreshInv, DownInv, RecoverTables
  PROVE  /\ TableTypes' /\ TableInv'
         /\ phase' = "logs" => \A k \in Keys :
              ListedFrom(0, k)' = AnswerIn(writes, EntryIn(sstables, DOMAIN sstables, k))
<1> USE DEF TableInv
<1>1. UNCHANGED <<sstables, merge, awake, doomed, unlinked, writes, flush_num, flusher, memtable, active>>
  BY DEF RecoverTables, disk, flushVars, memVars, mergeVars
<1>2. phase = "tables" /\ Fresh /\ trusted
  BY DEF RecoverTables, Fresh, Types, ControlTypes
<1>3. PICK F, U : F = [l \in MergeLevels |-> Idle] /\ U = [l \in Levels |-> -1]
  OBVIOUS
<1>4. flusher = "idle" /\ merge = F /\ awake = {} /\ doomed = {} /\ unlinked = U
  BY <1>2, <1>3 DEF FreshInv
<1>5. CASE \E t \in DOMAIN sstables : ~sstables[t].finished
  <2>1. phase' = "failed" /\ UNCHANGED <<readers_at_level, sstable_counter, curr_max_level>>
    BY <1>5 DEF RecoverTables, tableVars
  <2>2. Extends(writes, writes')
    BY <1>1, ExtendsSame
  <2>3. TablesKept
    BY <1>1, <1>4, <2>1, <2>2 DEF TablesKept, Loaded
  <2>4. TableInv'
    BY <2>3, KeptTables
  <2>5. TableTypes'
    BY <1>1, <2>1 DEF Types, TableTypes, FileTypes, ListTypes
  <2>6. QED
    BY <2>1, <2>4, <2>5
<1>6. CASE ~\E t \in DOMAIN sstables : ~sstables[t].finished
  <2>1. /\ phase' = "logs"
        /\ readers_at_level' = [l \in Levels |-> Sorted(Numbered(l))]
        /\ sstable_counter' = Max(TableNumbers \union {0})
        /\ curr_max_level' = Max({t[1] : t \in DOMAIN sstables} \union {0})
    BY <1>6 DEF RecoverTables
  <2>2. PICK N \in Nat : \A t \in DOMAIN sstables : t[2] <= N
    BY Bounded
  <2>3. PICK T : T = DOMAIN sstables
    OBVIOUS
  <2>4. T \subseteq AllTables /\ \A t \in T : t = <<t[1], t[2]>> /\ t[1] \in Levels /\ t[1] \in Nat /\ t[2] \in 0..N
    <3>1. T \subseteq AllTables
      BY <2>3 DEF Types, TableTypes, FileTypes
    <3>2. QED
      BY <2>2, <2>3, <3>1, AllTablesFacts, Constants_
  <2>5. PICK R : R = readers_at_level'
    OBVIOUS
  <2>6. ASSUME NEW l \in Levels
        PROVE  /\ R[l] \in Seq(Nat)
               /\ \A i, j \in DOMAIN R[l] : i < j => R[l][i] < R[l][j]
               /\ \A x : (\E t \in T : t[1] = l /\ t[2] = x) <=> \E i \in DOMAIN R[l] : R[l][i] = x
    <3>1. PICK S : S = Numbered(l)
      OBVIOUS
    <3>2. \A x : x \in S <=> \E t \in T : t[1] = l /\ t[2] = x
      BY <2>3, <3>1 DEF Numbered
    <3>3. S \subseteq 0..N
      BY <2>4, <3>2
    <3>4. R[l] = Sorted(S)
      BY <2>1, <2>5, <3>1
    <3>5. /\ Sorted(S) \in Seq(Nat)
          /\ \A i, j \in DOMAIN Sorted(S) : i < j => Sorted(S)[i] < Sorted(S)[j]
          /\ \A x : x \in S <=> \E i \in DOMAIN Sorted(S) : Sorted(S)[i] = x
      BY <3>3, SortedFacts
    <3>6. QED
      BY <3>2, <3>4, <3>5
  <2>7. R \in [Levels -> Seq(Nat)]
    <3>1. DOMAIN R = Levels /\ R = [l \in Levels |-> R[l]]
      BY <2>1, <2>5
    <3>2. QED
      BY <2>6, <3>1
  <2>8. ASSUME NEW t \in AllTables
        PROVE  InList(t)' <=> t \in T
    <3>1. t = <<t[1], t[2]>> /\ t[1] \in Levels
      BY AllTablesFacts, Constants_
    <3>2. InList(t)' <=> \E i \in DOMAIN R[t[1]] : R[t[1]][i] = t[2]
      BY <2>5 DEF InList
    <3>3. InList(t)' <=> \E u \in T : u[1] = t[1] /\ u[2] = t[2]
      <4>1. PICK l \in Levels : l = t[1]
        BY <3>1
      <4>2. \A x : (\E u \in T : u[1] = l /\ u[2] = x) <=> \E i \in DOMAIN R[l] : R[l][i] = x
        BY <2>6
      <4>3. (\E u \in T : u[1] = l /\ u[2] = t[2]) <=> \E i \in DOMAIN R[l] : R[l][i] = t[2]
        BY <4>2
      <4>4. QED
        BY <3>2, <4>1, <4>3
    <3>4. QED
      BY <2>4, <3>1, <3>3
  <2>9. Listed' = T
    BY <2>4, <2>8 DEF Listed
  <2>10. PICK c : c = sstable_counter'
    OBVIOUS
  <2>11. c \in Nat /\ \A t \in T : t[2] <= c
    <3>1. PICK S : S = TableNumbers \union {0}
      OBVIOUS
    <3>2. \A x : x \in S <=> x = 0 \/ \E t \in T : t[2] = x
      BY <2>3, <3>1 DEF TableNumbers
    <3>3. S \subseteq 0..N /\ S # {}
      <4>1. \A x \in S : x \in 0..N
        BY <2>4, <3>2
      <4>2. 0 \in S
        BY <3>2
      <4>3. QED
        BY <4>1, <4>2
    <3>4. c \in S /\ \A x \in S : x <= c
      BY <2>1, <2>10, <3>1, <3>3, MaxFacts
    <3>5. \A t \in T : t[2] \in S
      BY <3>2
    <3>6. c \in 0..N
      BY <3>3, <3>4
    <3>7. \A t \in T : t[2] <= c
      BY ONLY <3>4, <3>5
    <3>8. c \in Nat
      BY <3>6
    <3>9. QED
      BY <3>7, <3>8
  <2>12. PICK d : d = curr_max_level'
    OBVIOUS
  <2>13. d \in Levels /\ \A t \in T : t[1] <= d
    <3>1. PICK S : S = {t[1] : t \in DOMAIN sstables} \union {0}
      OBVIOUS
    <3>2. \A x : x \in S <=> x = 0 \/ \E t \in T : t[1] = x
      BY <2>3, <3>1
    <3>3. S \subseteq 0..MAX_LEVEL /\ S # {}
      <4>1. \A x \in S : x \in 0..MAX_LEVEL
        BY <2>4, <3>2, Constants_
      <4>2. 0 \in S
        BY <3>2
      <4>3. QED
        BY <4>1, <4>2
    <3>4. d \in S /\ \A x \in S : x <= d
      BY <2>1, <2>12, <3>1, <3>3, MaxFacts, Constants_
    <3>5. QED
      BY <3>2, <3>3, <3>4, Constants_
  <2>14. TableTypes'
    <3>1. ListTypes'
      BY <1>1, <2>5, <2>7, <2>10, <2>11, <2>12, <2>13 DEF Types, TableTypes, ListTypes
    <3>2. FileTypes'
      BY <1>1 DEF Types, TableTypes, FileTypes
    <3>3. QED
      BY <3>1, <3>2 DEF TableTypes
  <2>15. CounterInv'
    <3>1. \A t \in T : t[1] = 0 => \E u \in T : u[2] > t[2]
      BY <1>2, <2>3 DEF DownInv
    <3>2. \A t \in T : t[2] = c => t[1] # 0
      BY <2>4, <2>11, <3>1
    <3>3. \A l \in Levels : U[l] < c
      BY <1>3, <2>11
    <3>4. QED
      BY <1>1, <1>3, <1>4, <2>3, <2>10, <2>11, <3>2, <3>3 DEF CounterInv
  <2>16. ListInv'
    <3>1. \A t \in T : sstables[t].finished /\ t[2] > U[t[1]]
      BY <1>3, <1>6, <2>3, <2>4
    <3>2. QED
      BY <1>1, <1>4, <2>3, <2>5, <2>6, <2>9, <3>1 DEF ListInv
  <2>17. \A l \in MergeLevels : merge'[l].at = "idle"
    BY <1>1, <1>3, <1>4 DEF Idle
  <2>18. OutputInv'
    <3>1. FlushOutput'
      BY <1>1, <1>4 DEF FlushOutput, Writing
    <3>2. \A l \in MergeLevels : MergeOutput(l)'
      BY <2>17 DEF MergeOutput, Merging
    <3>3. QED
      BY <3>1, <3>2 DEF OutputInv
  <2>19. PurgeInv'
    <3>1. ASSUME NEW m \in Levels, m > d
          PROVE  R[m] = <<>>
      <4>1. \A t \in T : t[1] # m
        BY <2>13, <2>4, <3>1, LevelsFacts
      <4>2. R[m] \in Seq(Nat) /\ \A i \in DOMAIN R[m] : FALSE
        <5>1. R[m] \in Seq(Nat)
          BY <2>6
        <5>2. \A x : ~\E i \in DOMAIN R[m] : R[m][i] = x
          BY <2>6, <4>1
        <5>3. QED
          BY <5>1, <5>2
      <4>3. QED
        BY <4>2
    <3>2. QED
      BY <1>1, <1>4, <2>5, <2>12, <2>17, <3>1 DEF PurgeInv, Merging
  <2>20. Published' = T
    BY <1>1, <1>4, <2>9 DEF Published
  <2>21. DoomedInv'
    BY <2>9, <2>20 DEF DoomedInv, ListedFrom, PublishedFrom
  <2>22. RemovedInv'
    BY <2>17 DEF RemovedInv
  <2>23. ASSUME NEW k \in Keys
         PROVE  ListedFrom(0, k)' = AnswerIn(writes, EntryIn(sstables, DOMAIN sstables, k))
    <3>1. Deeper(T, 0) = T
      BY <2>4 DEF Deeper
    <3>2. QED
      BY <1>1, <2>3, <2>9, <3>1 DEF ListedFrom
  <2>24. QED
    BY <2>14, <2>15, <2>16, <2>18, <2>19, <2>21, <2>22, <2>23
<1>7. QED
  BY <1>5, <1>6

-----------------------------------------------------------------------------
(* The order of the names of logs: Digits is a sequence of digits, and no  *)
(* two numbers sort before one another.                                    *)
LEMMA QuotientIsLess ==
  ASSUME NEW n \in Nat, n >= Radix
  PROVE  n \div Radix \in Nat /\ n \div Radix < n /\ n % Radix \in Nat
<1>1. PICK r \in Nat : r = Radix /\ r >= 2
  BY Constants_
<1>2. PICK q \in Int, c \in 0..(r - 1) : q = n \div r /\ c = n % r /\ n = r * q + c
  BY <1>1
<1>3. q >= 0
  <2>1. ASSUME q < 0
        PROVE  FALSE
    <3>1. r * q <= r * (0 - 1)
      <4>1. PICK d \in Nat : q = (0 - 1) - d
        BY <2>1
      <4>2. r * q = r * (0 - 1) - r * d /\ r * d >= 0
        BY <1>1, <4>1
      <4>3. QED
        BY <4>2
    <3>2. r * (0 - 1) = 0 - r
      OBVIOUS
    <3>3. PICK x \in Int : x = r * q
      OBVIOUS
    <3>4. QED
      BY <1>2, <3>1, <3>2, <3>3
  <2>2. QED
    BY <2>1
<1>4. q < n
  <2>1. PICK d \in Nat : r = 2 + d
    BY <1>1
  <2>2. r * q = q + q + d * q /\ d * q >= 0
    BY <1>3, <2>1
  <2>3. PICK x \in Int : x = r * q
    OBVIOUS
  <2>4. x >= q + q
    BY <2>2, <2>3
  <2>5. QED
    BY <1>1, <1>2, <1>3, <2>3, <2>4
<1>5. QED
  BY <1>1, <1>2, <1>3, <1>4

DigitsOf(g, n) == IF n < Radix THEN <<n>> ELSE Append(g[n \div Radix], n % Radix)
DigitsUpTo(g, m) == DOMAIN g = 0..m /\ \A n \in 0..m : g[n] = DigitsOf(g, n)

LEMMA DigitsUnique ==
  ASSUME NEW l \in Nat, NEW m \in Nat, NEW g, NEW h, DigitsUpTo(g, l), DigitsUpTo(h, m), NEW n \in Nat, n <= l, n <= m
  PROVE  g[n] = h[n]
<1> DEFINE Bad == {i \in 0..n : g[i] # h[i]}
<1>1. SUFFICES ASSUME Bad # {}
               PROVE  FALSE
  OBVIOUS
<1>2. PICK i \in Bad : \A j \in Bad : i <= j
  <2>1. Bad \subseteq Nat
    OBVIOUS
  <2>2. QED
    BY <1>1, <2>1, LeastExists
<1>3. i \in 0..l /\ i \in 0..m /\ i \in Nat /\ i <= n
  OBVIOUS
<1>4. g[i] = DigitsOf(g, i) /\ h[i] = DigitsOf(h, i)
  BY <1>3 DEF DigitsUpTo
<1>5. i >= Radix
  BY <1>3, <1>4, Constants_ DEF DigitsOf
<1>6. PICK q \in Nat : q = i \div Radix /\ q < i
  BY <1>3, <1>5, QuotientIsLess
<1>7. q \notin Bad /\ q \in 0..n
  BY <1>2, <1>3, <1>6
<1>8. g[q] = h[q]
  BY <1>7
<1>9. g[i] = h[i]
  BY <1>4, <1>6, <1>8 DEF DigitsOf
<1>10. QED
  BY <1>9

LEMMA DigitsUpToExists ==
  ASSUME NEW m \in Nat
  PROVE  \E g : DigitsUpTo(g, m)
<1> DEFINE T == {n \in 0..m : \E g : DigitsUpTo(g, n)}
<1>1. 0 \in T
  <2>1. PICK g : g = [n \in 0..0 |-> <<n>>]
    OBVIOUS
  <2>2. \A n \in 0..0 : n < Radix
    BY Constants_
  <2>3. DigitsUpTo(g, 0)
    BY <2>1, <2>2 DEF DigitsUpTo, DigitsOf
  <2>4. QED
    BY <2>3
<1>2. ASSUME NEW n \in 0..(m - 1), n \in T
      PROVE  n + 1 \in T
  <2>1. PICK g : DigitsUpTo(g, n)
    BY <1>2
  <2>2. PICK h : h = [i \in 0..(n + 1) |-> IF i = n + 1 THEN DigitsOf(g, n + 1) ELSE g[i]]
    OBVIOUS
  <2>3. \A i \in 0..n : i # n + 1 /\ i \in 0..(n + 1)
    OBVIOUS
  <2>4. h[n + 1] = DigitsOf(g, n + 1) /\ \A i \in 0..n : h[i] = g[i]
    BY <2>2, <2>3
  <2>5. ASSUME NEW i \in 0..(n + 1)
        PROVE  h[i] = DigitsOf(h, i)
    <3>1. h[i] = DigitsOf(g, i)
      <4>1. CASE i = n + 1
        BY <2>4, <4>1
      <4>2. CASE i # n + 1
        <5>1. i \in 0..n
          BY <4>2
        <5>2. QED
          BY <2>1, <2>4, <5>1 DEF DigitsUpTo
      <4>3. QED
        BY <4>1, <4>2
    <3>2. CASE i < Radix
      BY <3>1, <3>2 DEF DigitsOf
    <3>3. CASE ~(i < Radix)
      <4>1. i \div Radix \in Nat /\ i \div Radix < i
        BY <3>3, QuotientIsLess, Constants_
      <4>2. i \div Radix \in 0..n
        BY <4>1
      <4>3. h[i \div Radix] = g[i \div Radix]
        BY <2>4, <4>2
      <4>4. QED
        BY <3>1, <3>3, <4>3 DEF DigitsOf
    <3>4. QED
      BY <3>2, <3>3
  <2>6. DigitsUpTo(h, n + 1)
    BY <2>2, <2>5 DEF DigitsUpTo
  <2>7. QED
    BY <2>6
<1>3. 0..m \subseteq T
  <2> HIDE DEF T
  <2>1. QED
    BY <1>1, <1>2, InductionTo
<1>4. QED
  BY <1>3

LEMMA DigitsAre ==
  /\ DOMAIN Digits = Nat
  /\ \A n \in Nat : Digits[n] = DigitsOf(Digits, n)
<1>1. PICK f : f = [n \in Nat |-> (CHOOSE g : DigitsUpTo(g, n))[n]]
  OBVIOUS
<1>2. \A n \in Nat : \A g : DigitsUpTo(g, n) => f[n] = g[n]
  <2>1. ASSUME NEW n \in Nat, NEW g, DigitsUpTo(g, n)
        PROVE  f[n] = g[n]
    <3>1. PICK h : h = CHOOSE x : DigitsUpTo(x, n)
      OBVIOUS
    <3>2. DigitsUpTo(h, n)
      BY <2>1, <3>1
    <3>3. f[n] = h[n]
      BY <1>1, <3>1
    <3>4. h[n] = g[n]
      BY <2>1, <3>2, DigitsUnique
    <3>5. QED
      BY <3>3, <3>4
  <2>2. QED
    BY <2>1
<1>3. ASSUME NEW n \in Nat
      PROVE  f[n] = DigitsOf(f, n)
  <2>1. PICK g : DigitsUpTo(g, n)
    BY DigitsUpToExists
  <2>2. f[n] = DigitsOf(g, n)
    BY <1>2, <2>1 DEF DigitsUpTo
  <2>3. CASE n < Radix
    BY <2>2, <2>3 DEF DigitsOf
  <2>4. CASE ~(n < Radix)
    <3>0. n >= Radix
      BY <2>4, Constants_
    <3>1. PICK q \in Nat : q = n \div Radix /\ q < n
      BY <3>0, QuotientIsLess
    <3>2. PICK h : DigitsUpTo(h, q)
      BY DigitsUpToExists
    <3>3. f[q] = h[q] /\ h[q] = g[q]
      BY <1>2, <2>1, <3>1, <3>2, DigitsUnique
    <3>4. QED
      BY <2>2, <2>4, <3>1, <3>3 DEF DigitsOf
  <2>5. QED
    BY <2>3, <2>4
<1>4. f = [n \in Nat |-> IF n < Radix THEN <<n>> ELSE Append(f[n \div Radix], n % Radix)]
  BY <1>1, <1>3 DEF DigitsOf
<1>5. Digits = [n \in Nat |-> IF n < Radix THEN <<n>> ELSE Append(Digits[n \div Radix], n % Radix)]
  BY <1>4 DEF Digits
<1>6. QED
  BY <1>5 DEF DigitsOf

LEMMA DigitsType ==
  ASSUME NEW n \in Nat
  PROVE  Digits[n] \in Seq(Nat)
<1> DEFINE Bad == {i \in Nat : Digits[i] \notin Seq(Nat)}
<1>1. SUFFICES ASSUME Bad # {}
               PROVE  FALSE
  OBVIOUS
<1>2. PICK i \in Bad : \A j \in Bad : i <= j
  <2>1. Bad \subseteq Nat
    OBVIOUS
  <2>2. QED
    BY <1>1, <2>1, LeastExists
<1>3. i \in Nat /\ Digits[i] = DigitsOf(Digits, i)
  BY DigitsAre
<1>4. CASE i < Radix
  BY <1>3, <1>4, SMTT(30) DEF DigitsOf
<1>5. CASE ~(i < Radix)
  <2>0. i >= Radix
    BY <1>3, <1>5, Constants_
  <2>1. PICK q \in Nat : q = i \div Radix /\ q < i /\ i % Radix \in Nat
    BY <1>3, <2>0, QuotientIsLess
  <2>2. Digits[q] \in Seq(Nat)
    BY <1>2, <2>1
  <2>3. Digits[i] \in Seq(Nat)
    BY <1>3, <1>5, <2>1, <2>2 DEF DigitsOf
  <2>4. QED
    BY <2>3
<1>6. QED
  BY <1>4, <1>5

LEMMA SortsBeforeIsStrict ==
  ASSUME NEW m \in Nat, NEW n \in Nat, SortsBefore(m, n)
  PROVE  ~SortsBefore(n, m)
<1>1. PICK S \in Seq(Nat), T \in Seq(Nat) : S = Digits[m] /\ T = Digits[n]
  BY DigitsType
<1>2. PICK a \in Nat, b \in Nat : a = Len(S) /\ b = Len(T) /\ DOMAIN S = 1..a /\ DOMAIN T = 1..b
  OBVIOUS
<1>3. ASSUME NEW U \in Seq(Nat), NEW V \in Seq(Nat), IsStrictPrefix(U, V)
      PROVE  Len(U) < Len(V) /\ \A i \in 1..Len(U) : U[i] = V[i]
  <2>1. PICK c \in Nat, d \in Nat : c = Len(U) /\ d = Len(V)
    OBVIOUS
  <2>2. c <= d /\ SubSeq(U, 1, c) = SubSeq(V, 1, c) /\ U # V
    BY <1>3, <2>1 DEF IsStrictPrefix, IsPrefix
  <2>3. (\A i \in 1..c : U[i] \in Nat) /\ \A i \in 1..c : V[i] \in Nat
    <3>1. \A i \in 1..Len(U) : U[i] \in Nat
      OBVIOUS
    <3>2. \A i \in 1..Len(V) : V[i] \in Nat
      OBVIOUS
    <3>3. \A i \in 1..c : i \in 1..d
      BY <2>2
    <3>4. QED
      BY <2>1, <3>1, <3>2, <3>3
  <2>4. \A i \in 1..(c - 1 + 1) : SubSeq(U, 1, c)[i] = U[1 + i - 1]
    BY <2>3, SubSeqProperties
  <2>5. \A i \in 1..(c - 1 + 1) : SubSeq(V, 1, c)[i] = V[1 + i - 1]
    BY <2>3, SubSeqProperties
  <2>6. \A i \in 1..c : i \in 1..(c - 1 + 1) /\ 1 + i - 1 = i
    OBVIOUS
  <2>7. \A i \in 1..c : U[i] = V[i]
    BY <2>2, <2>4, <2>5, <2>6
  <2>8. c # d
    <3>1. ASSUME c = d
          PROVE  U = V
      BY <2>1, <2>7, <3>1, SeqEqual
    <3>2. QED
      BY <2>2, <3>1
  <2>9. QED
    BY <2>1, <2>2, <2>7, <2>8
<1>4. ASSUME NEW i \in DOMAIN S \intersect DOMAIN T, \A j \in 1..(i - 1) : S[j] = T[j], S[i] < T[i],
             NEW l \in DOMAIN S \intersect DOMAIN T, \A j \in 1..(l - 1) : T[j] = S[j], T[l] < S[l]
      PROVE  FALSE
  <2>1. i \in Nat /\ i >= 1 /\ l \in Nat /\ l >= 1 /\ S[i] \in Nat /\ T[i] \in Nat /\ S[l] \in Nat /\ T[l] \in Nat
    BY <1>2, SMTT(30)
  <2>2. CASE i < l
    <3>1. i \in 1..(l - 1)
      BY <2>1, <2>2
    <3>2. QED
      BY <1>4, <2>1, <3>1
  <2>3. CASE l < i
    <3>1. l \in 1..(i - 1)
      BY <2>1, <2>3
    <3>2. QED
      BY <1>4, <2>1, <3>1
  <2>4. CASE l = i
    BY <1>4, <2>1, <2>4
  <2>5. QED
    BY <2>1, <2>2, <2>3, <2>4
<1>5. ASSUME NEW U \in Seq(Nat), NEW V \in Seq(Nat), IsStrictPrefix(U, V),
             NEW i \in DOMAIN U \intersect DOMAIN V, V[i] < U[i]
      PROVE  FALSE
  <2>1. i \in 1..Len(U)
    OBVIOUS
  <2>2. U[i] \in Nat
    BY <2>1
  <2>3. U[i] = V[i]
    BY <1>3, <1>5, <2>1
  <2>4. QED
    BY <1>5, <2>2, <2>3
<1>6. IsStrictPrefix(S, T) => ~IsStrictPrefix(T, S)
  BY <1>2, <1>3
<1>7. QED
  BY <1>1, <1>4, <1>5, <1>6 DEF SortsBefore

-----------------------------------------------------------------------------
(* Sequences of records.                                                   *)

LEMMA SetOfSeq ==
  ASSUME NEW S, NEW s \in Seq(S)
  PROVE  (\A r \in ToSet(s) : r \in S) /\ ToSet(<<>>) = {} /\ (s # <<>> <=> ToSet(s) # {})
<1>1. \A i \in DOMAIN s : s[i] \in S
  BY ElementOfSeq
<1>2. DOMAIN s = 1..Len(s) /\ Len(s) \in Nat
  OBVIOUS
<1>3. s # <<>> => Len(s) # 0
  BY EmptySeq
<1>4. s # <<>> => 1 \in DOMAIN s
  BY <1>2, <1>3
<1>5. DOMAIN <<>> = {}
  OBVIOUS
<1>6. QED
  BY <1>1, <1>4, <1>5 DEF ToSet

LEMMA NoRecords == ToSet(<<>>) = {}
<1>1. <<>> \in Seq({})
  OBVIOUS
<1>2. QED
  BY <1>1, SetOfSeq

LEMMA SetOfAppend ==
  ASSUME NEW S, NEW s \in Seq(S), NEW e \in S
  PROVE  ToSet(Append(s, e)) = ToSet(s) \union {e}
<1>0. Append(s, e) \in Seq(S) /\ Len(s) \in Nat
  BY AppendProperties
<1>1. PICK t \in Seq(S), c \in Nat : t = Append(s, e) /\ c = Len(s)
  BY <1>0
<1>2. DOMAIN s = 1..c /\ DOMAIN t = 1..(c + 1) /\ t[c + 1] = e /\ \A i \in 1..c : t[i] = s[i]
  BY <1>1, AppendProperties
<1>3. \A i \in 1..(c + 1) : i \in 1..c \/ i = c + 1
  BY <1>1
<1>4. c + 1 \in 1..(c + 1) /\ \A i \in 1..c : i \in 1..(c + 1)
  BY <1>1
<1>5. ToSet(t) = ToSet(s) \union {e}
  BY <1>2, <1>3, <1>4 DEF ToSet
<1>6. QED
  BY <1>1, <1>5

LEMMA SetOfConcat ==
  ASSUME NEW S, NEW s \in Seq(S), NEW t \in Seq(S)
  PROVE  ToSet(s \o t) = ToSet(s) \union ToSet(t)
<1>0. s \o t \in Seq(S) /\ Len(s) \in Nat /\ Len(t) \in Nat
  BY ConcatProperties
<1>1. PICK u \in Seq(S), c \in Nat, d \in Nat : u = s \o t /\ c = Len(s) /\ d = Len(t)
  BY <1>0
<1>2. /\ DOMAIN s = 1..c /\ DOMAIN t = 1..d /\ DOMAIN u = 1..(c + d)
      /\ \A i \in 1..(c + d) : u[i] = IF i <= c THEN s[i] ELSE t[i - c]
  BY <1>1, ConcatProperties
<1>3. \A i \in 1..(c + d) : (i <= c => i \in 1..c) /\ (~(i <= c) => i - c \in 1..d)
  BY <1>1
<1>4. \A i \in 1..c : i \in 1..(c + d) /\ i <= c
  BY <1>1
<1>5. \A i \in 1..d : i + c \in 1..(c + d) /\ ~(i + c <= c) /\ (i + c) - c = i
  BY <1>1
<1>6. ASSUME NEW r \in ToSet(u)
      PROVE  r \in ToSet(s) \union ToSet(t)
  BY <1>2, <1>3, <1>6 DEF ToSet
<1>7. ASSUME NEW r \in ToSet(s)
      PROVE  r \in ToSet(u)
  BY <1>2, <1>4, <1>7 DEF ToSet
<1>8. ASSUME NEW r \in ToSet(t)
      PROVE  r \in ToSet(u)
  <2>1. PICK i \in 1..d : r = t[i]
    BY <1>2, <1>8 DEF ToSet
  <2>2. i + c \in DOMAIN u /\ u[i + c] = r
    BY <1>2, <1>5, <2>1
  <2>3. QED
    BY <2>2 DEF ToSet
<1>9. QED
  BY <1>1, <1>6, <1>7, <1>8

(* No record is twice in a buffer.                                         *)
Distinct(s) == \A i, j \in DOMAIN s : i # j => s[i] # s[j]

LEMMA HeadAndTail ==
  ASSUME NEW S, NEW s \in Seq(S), s # <<>>
  PROVE  /\ Head(s) \in S /\ Tail(s) \in Seq(S)
         /\ ToSet(s) = {Head(s)} \union ToSet(Tail(s))
         /\ Distinct(s) => Distinct(Tail(s)) /\ Head(s) \notin ToSet(Tail(s))
<1>0. Tail(s) \in Seq(S) /\ Head(s) \in S
  BY HeadTailProperties
<1>1. PICK t \in Seq(S), h \in S, c \in Nat : t = Tail(s) /\ h = Head(s) /\ c = Len(t)
  <2>1. PICK t \in Seq(S), h \in S : t = Tail(s) /\ h = Head(s)
    BY <1>0
  <2>2. Len(t) \in Nat
    OBVIOUS
  <2>3. QED
    BY <2>1, <2>2
<1>2. /\ DOMAIN s = 1..(c + 1) /\ DOMAIN t = 1..c /\ s[1] = h
      /\ \A i \in 1..c : t[i] = s[i + 1]
  <2>1. Len(t) = Len(s) - 1 /\ \A i \in 1..Len(t) : t[i] = s[i + 1]
    BY <1>1, HeadTailProperties
  <2>2. Len(s) \in Nat /\ Head(s) = s[1]
    BY DEF Head
  <2>3. Len(s) = c + 1
    BY <1>1, <2>1, <2>2
  <2>4. QED
    BY <1>1, <2>1, <2>2, <2>3
<1>3. \A i \in 1..(c + 1) : i = 1 \/ (i - 1 \in 1..c /\ (i - 1) + 1 = i)
  BY <1>1
<1>4. 1 \in 1..(c + 1) /\ \A i \in 1..c : i + 1 \in 1..(c + 1) /\ i + 1 # 1
  BY <1>1
<1>5. ToSet(s) = {h} \union ToSet(t)
  <2>1. ASSUME NEW r \in ToSet(s)
        PROVE  r \in {h} \union ToSet(t)
    <3>1. PICK i \in 1..(c + 1) : r = s[i]
      BY <1>2, <2>1 DEF ToSet
    <3>2. CASE i = 1
      BY <1>2, <3>1, <3>2
    <3>3. CASE i # 1
      <4>1. i - 1 \in DOMAIN t /\ t[i - 1] = r
        BY <1>2, <1>3, <3>1, <3>3
      <4>2. QED
        BY <4>1 DEF ToSet
    <3>4. QED
      BY <3>2, <3>3
  <2>2. ASSUME NEW r \in {h} \union ToSet(t)
        PROVE  r \in ToSet(s)
    BY <1>2, <1>4, <2>2 DEF ToSet
  <2>3. QED
    BY <2>1, <2>2
<1>6. ASSUME Distinct(s)
      PROVE  Distinct(t) /\ h \notin ToSet(t)
  <2>1. ASSUME NEW i \in 1..c, NEW j \in 1..c, i # j
        PROVE  t[i] # t[j]
    <3>1. i + 1 # j + 1 /\ i + 1 \in DOMAIN s /\ j + 1 \in DOMAIN s
      BY <1>2, <1>4, <2>1
    <3>2. QED
      BY <1>2, <1>6, <3>1 DEF Distinct
  <2>2. ASSUME NEW i \in 1..c
        PROVE  t[i] # h
    BY <1>2, <1>4, <1>6 DEF Distinct
  <2>3. QED
    BY <1>2, <2>1, <2>2 DEF Distinct, ToSet
<1>7. QED
  BY <1>1, <1>5, <1>6

(* The whole records of log n among the logs ls.                           *)
Positive(ls, n) == {r \in ToSet(ls[n]) : r > 0}

LEMMA WholeAndNew ==
  ASSUME NEW N \in Nat, NEW L \in Seq(-1..N), NEW rs \in Seq(0..N)
  PROVE  /\ WholePart(L) \o rs \in Seq(-1..N)
         /\ {r \in ToSet(WholePart(L) \o rs) : r > 0} = {r \in ToSet(L) : r > 0} \union {r \in ToSet(rs) : r > 0}
<1>1. rs \in Seq(-1..N)
  <2>1. (0..N) \subseteq (-1..N)
    OBVIOUS
  <2>2. QED
    BY <2>1, SeqMonotonic
<1>2. WholePart(L) \in Seq(-1..N) /\ \A r : r > 0 => (r \in ToSet(WholePart(L)) <=> r \in ToSet(L))
  <2>1. CASE ~(L # <<>> /\ Last(L) = Torn)
    BY <2>1 DEF WholePart
  <2>2. CASE L # <<>> /\ Last(L) = Torn
    <3>1. PICK c \in Nat : Len(L) = c + 1
      <4>1. Len(L) \in Nat \ {0}
        BY <2>2, EmptySeq
      <4>2. Len(L) - 1 \in Nat /\ Len(L) = (Len(L) - 1) + 1
        BY <4>1
      <4>3. QED
        BY <4>2
    <3>2. L[c + 1] = 0 /\ DOMAIN L = 1..(c + 1)
      BY <2>2, <3>1 DEF Last, Torn
    <3>3. \A i \in 1..c : L[i] \in -1..N
      BY <3>1, ElementOfSeq
    <3>4. PICK F : F = SubSeq(L, 1, c)
      OBVIOUS
    <3>5. F \in Seq(-1..N) /\ Len(F) = c /\ \A i \in 1..c : F[i] = L[i]
      <4>1. F \in Seq(-1..N) /\ Len(F) = IF 1 <= c THEN c - 1 + 1 ELSE 0
        BY <3>3, <3>4, SubSeqProperties
      <4>2. \A i \in 1..(c - 1 + 1) : F[i] = L[1 + i - 1]
        BY <3>3, <3>4, SubSeqProperties
      <4>3. \A i \in 1..c : i \in 1..(c - 1 + 1) /\ 1 + i - 1 = i
        OBVIOUS
      <4>4. Len(F) = c
        BY <3>1, <4>1
      <4>5. QED
        BY <4>1, <4>2, <4>3, <4>4
    <3>6. WholePart(L) = F
      <4>1. Len(L) - 1 = c
        BY <3>1
      <4>2. QED
        BY <2>2, <3>4, <4>1 DEF WholePart, Front
    <3>7. \A i \in 1..(c + 1) : i \in 1..c \/ i = c + 1
      OBVIOUS
    <3>8. \A r : r > 0 => (r \in ToSet(F) <=> r \in ToSet(L))
      <4>1. DOMAIN F = 1..c /\ \A i \in 1..c : i \in 1..(c + 1)
        BY <3>5
      <4>2. ~(0 > 0)
        OBVIOUS
      <4>3. QED
        BY <3>2, <3>5, <3>7, <4>1, <4>2 DEF ToSet
    <3>9. QED
      BY <3>5, <3>6, <3>8
  <2>3. QED
    BY <2>1, <2>2
<1>3. ToSet(WholePart(L) \o rs) = ToSet(WholePart(L)) \union ToSet(rs)
  BY <1>1, <1>2, SetOfConcat
<1>4. WholePart(L) \o rs \in Seq(-1..N)
  BY <1>1, <1>2, ConcatProperties
<1>5. QED
  BY <1>2, <1>3, <1>4

-----------------------------------------------------------------------------
(* The records of the logs.                                                *)

LEMMA RecIs ==
  /\ \A n, r : r \in Rec(n) <=> \/ r \in Records(n)
                                \/ file[0] = n /\ r \in ToSet(buffer[0])
                                \/ file[1] = n /\ r \in ToSet(buffer[1])
  /\ \A n, r : r \in Rec(n)' <=> \/ r \in Records(n)'
                                 \/ file'[0] = n /\ r \in ToSet(buffer'[0])
                                 \/ file'[1] = n /\ r \in ToSet(buffer'[1])
  BY Constants_ DEF Rec

LEMMA RecordsIs ==
  /\ \A n, r : r \in Records(n) <=> r \in ToSet(logs[n]) /\ r > 0
  /\ \A n, r : r \in Records(n)' <=> r \in ToSet(logs'[n]) /\ r > 0
  /\ \A n : Records(n) = Positive(logs, n) /\ Records(n)' = Positive(logs', n)
  BY DEF Records, Positive

LEMMA UnpublishedIs ==
  /\ \A r : r \in Unpublished <=> \/ r \in ToSet(buffer[0]) /\ ~(0 = 1 - active /\ flusher = "close")
                                  \/ r \in ToSet(buffer[1]) /\ ~(1 = 1 - active /\ flusher = "close")
  /\ \A r : r \in Unpublished' <=> \/ r \in ToSet(buffer'[0]) /\ ~(0 = 1 - active' /\ flusher' = "close")
                                   \/ r \in ToSet(buffer'[1]) /\ ~(1 = 1 - active' /\ flusher' = "close")
  BY Constants_ DEF Unpublished

LEMMA OnlyBufferedIs ==
  \A r : r \in OnlyBuffered <=>
    \/ r \in ToSet(buffer[0]) /\ ~(0 = 1 - active /\ flusher \in {"publish", "close"})
    \/ r \in ToSet(buffer[1]) /\ ~(1 = 1 - active /\ flusher \in {"publish", "close"})
  BY Constants_ DEF OnlyBuffered

LEMMA KnownFacts ==
  ASSUME Types
  PROVE  /\ Len(writes) \in Nat /\ \A x \in Known : x \in 1..Len(writes)
         /\ \A x : x \in Known <=> x \in 1..Len(writes) /\ x \notin lost
  BY DEF Types, WriteTypes, Known

LEMMA RecFacts ==
  ASSUME Types, LogInv
  PROVE  /\ \A n \in DOMAIN logs : \A r \in Rec(n) : r \in Known /\ r \in 1..Len(writes)
         /\ \A n \in DOMAIN logs : \A r \in Records(n) : r \in Known /\ r \in Rec(n) /\ r \in 1..Len(writes)
         /\ \A i \in Slots : \A r \in ToSet(buffer[i]) : r \in Known
         /\ \A n \in DOMAIN logs : n \in Nat
  BY KnownFacts, RecIs DEF LogInv, Types, LogTypes

(* Records that arrive.                                                    *)
LEMMA ArrivedFacts ==
  ASSUME Types, NEW n, NEW rs \in Seq(0..Len(writes))
  PROVE  /\ DOMAIN Arrived(n, rs) = DOMAIN logs
         /\ \A m \in DOMAIN logs : Arrived(n, rs)[m] \in Seq(-1..Len(writes))
         /\ \A m \in DOMAIN logs : m # n \/ rs = <<>> => Arrived(n, rs)[m] = logs[m]
         /\ \A m \in DOMAIN logs : \A r :
              r \in Positive(Arrived(n, rs), m) <=> r \in Records(m) \/ (m = n /\ r \in ToSet(rs) /\ r > 0)
<1>0. PICK N \in Nat : N = Len(writes)
  BY DEF Types, WriteTypes
<1>1. PICK ls : ls = Arrived(n, rs)
  OBVIOUS
<1>2. \A m \in DOMAIN logs : logs[m] \in Seq(-1..N)
  BY <1>0 DEF Types, LogTypes
<1>3. CASE n \notin DOMAIN logs \/ rs = <<>>
  <2>1. ls = logs
    BY <1>1, <1>3 DEF Arrived
  <2>2. ToSet(<<>>) = {}
    BY SetOfSeq
  <2>3. \A m \in DOMAIN logs : \A r : m = n => r \notin ToSet(rs)
    BY <1>3, <2>2
  <2>4. QED
    BY <1>0, <1>1, <1>2, <2>1, <2>3, RecordsIs
<1>4. CASE ~(n \notin DOMAIN logs \/ rs = <<>>)
  <2>1. ls = [logs EXCEPT ![n] = WholePart(logs[n]) \o rs]
    BY <1>1, <1>4 DEF Arrived
  <2>2. /\ WholePart(logs[n]) \o rs \in Seq(-1..N)
        /\ {r \in ToSet(WholePart(logs[n]) \o rs) : r > 0} =
             {r \in ToSet(logs[n]) : r > 0} \union {r \in ToSet(rs) : r > 0}
    BY <1>0, <1>2, <1>4, WholeAndNew
  <2>3. DOMAIN ls = DOMAIN logs /\ ls[n] = WholePart(logs[n]) \o rs /\ \A m \in DOMAIN logs : m # n => ls[m] = logs[m]
    BY <1>4, <2>1
  <2>4. \A m \in DOMAIN logs : \A r :
          r \in Positive(ls, m) <=> r \in Records(m) \/ (m = n /\ r \in ToSet(rs) /\ r > 0)
    <3>1. ASSUME NEW m \in DOMAIN logs, NEW r, m # n
          PROVE  r \in Positive(ls, m) <=> r \in Records(m)
      BY <2>3, <3>1 DEF Records, Positive
    <3>2. ASSUME NEW r
          PROVE  r \in Positive(ls, n) <=> r \in Records(n) \/ (r \in ToSet(rs) /\ r > 0)
      BY <2>2, <2>3 DEF Records, Positive
    <3>3. QED
      BY <3>1, <3>2
  <2>5. \A m \in DOMAIN logs : ls[m] \in Seq(-1..N)
    BY <1>2, <2>2, <2>3
  <2>6. QED
    BY <1>0, <1>1, <1>4, <2>3, <2>4, <2>5
<1>5. QED
  BY <1>3, <1>4

(* Records S move from the buffer of slot i to its log, and the rest stays *)
(* where it is.                                                            *)
Moved(i, S) ==
  /\ UNCHANGED <<writes, lost>>
  /\ DOMAIN logs' = DOMAIN logs
  /\ \A n \in DOMAIN logs : logs'[n] \in Seq(-1..Len(writes))
  /\ \A n \in DOMAIN logs : \A r : r \in Records(n)' <=> r \in Records(n) \/ (n = file[i] /\ r \in S)
  /\ \A r : r \in S \/ r \in ToSet(buffer'[i]) <=> r \in ToSet(buffer[i])
  /\ \A r : ~(r \in S /\ r \in ToSet(buffer'[i]))
  /\ buffer'[1 - i] = buffer[1 - i] /\ buffer' \in [Slots -> Seq(1..Len(writes))] /\ Distinct(buffer'[i])
  /\ \A j \in Slots : file'[j] = file[j] \/ (j = i /\ file'[i] = Closed /\ ToSet(buffer'[i]) = {})
  /\ S # {} => file[i] \in DOMAIN logs
  /\ file' \in [Slots -> Nat \union {NULL, Closed}]

LEMMA MovedRecords ==
  ASSUME Types, LogInv, NEW i \in Slots, NEW S, Moved(i, S)
  PROVE  LogInv' /\ \A n \in DOMAIN logs : \A r : r \in Rec(n)' <=> r \in Rec(n)
<1>0. 1 - i \in Slots /\ i # 1 - i /\ (\A j \in Slots : j = i \/ j = 1 - i) /\ (i = 0 \/ i = 1)
  BY Constants_
<1>1. ASSUME NEW n \in DOMAIN logs, NEW r
      PROVE  r \in Rec(n)' <=> r \in Rec(n)
  <2>1. r \in Rec(n) <=> r \in Records(n) \/ (file[i] = n /\ r \in ToSet(buffer[i])) \/ (file[1 - i] = n /\ r \in ToSet(buffer[1 - i]))
    BY <1>0, RecIs
  <2>2. r \in Rec(n)' <=> r \in Records(n)' \/ (file'[i] = n /\ r \in ToSet(buffer'[i])) \/ (file'[1 - i] = n /\ r \in ToSet(buffer'[1 - i]))
    BY <1>0, RecIs
  <2>3. file'[1 - i] = file[1 - i] /\ buffer'[1 - i] = buffer[1 - i]
    BY <1>0 DEF Moved
  <2>4. file'[i] = file[i] \/ ~(r \in ToSet(buffer'[i]))
    BY DEF Moved
  <2>5. r \in Records(n)' <=> r \in Records(n) \/ (n = file[i] /\ r \in S)
    BY DEF Moved
  <2>6. r \in S \/ r \in ToSet(buffer'[i]) <=> r \in ToSet(buffer[i])
    BY DEF Moved
  <2>7. QED
    BY <2>1, <2>2, <2>3, <2>4, <2>5, <2>6
<1>2. DOMAIN logs' = DOMAIN logs /\ Known' = Known
  BY DEF Moved, Known
<1>3. \A m, n \in DOMAIN logs' : m < n => \A r \in Rec(m)', s \in Rec(n)' : r < s
  BY <1>1, <1>2 DEF LogInv
<1>4. \A n \in DOMAIN logs' : \A r \in Rec(n)' : r \in Known'
  BY <1>1, <1>2 DEF LogInv
<1>5. \A j \in Slots : \A r : r \in ToSet(buffer'[j]) => r \in ToSet(buffer[j])
  BY <1>0 DEF Moved
<1>6. \A r \in ToSet(buffer[0]) : r \notin ToSet(buffer[1])
  BY DEF LogInv
<1>7. ASSUME NEW n \in DOMAIN logs, NEW j \in Slots, NEW r \in Records(n)'
      PROVE  r \notin ToSet(buffer'[j])
  <2>1. CASE r \in Records(n)
    BY <1>5, <2>1 DEF LogInv
  <2>2. CASE r \in S
    <3>1. r \in ToSet(buffer[i])
      BY <2>2 DEF Moved
    <3>2. j # i => r \notin ToSet(buffer[j])
      BY <1>0, <1>6, <3>1
    <3>3. r \notin ToSet(buffer'[i])
      BY <2>2 DEF Moved
    <3>4. QED
      BY <1>5, <3>2, <3>3
  <2>3. QED
    BY <1>7, <2>1, <2>2 DEF Moved
<1>8. \A j \in Slots : Distinct(buffer'[j])
  <2>1. Distinct(buffer'[i]) /\ Distinct(buffer[1 - i]) /\ buffer'[1 - i] = buffer[1 - i]
    BY <1>0 DEF Moved, LogInv, Distinct
  <2>2. QED
    BY <1>0, <2>1
<1>9. 0 \in Slots /\ 1 \in Slots
  BY Constants_
<1>10. QED
  BY <1>1, <1>2, <1>3, <1>4, <1>5, <1>6, <1>7, <1>8, <1>9 DEF LogInv, Distinct

(* What a slot holds, when its log stays the same.                         *)
LEMMA HeldSame ==
  ASSUME NEW j \in Slots, file'[j] = file[j],
         file[j] >= 0 => \A r : r \in Rec(file[j])' <=> r \in Rec(file[j])
  PROVE  Held(j)' = Held(j)
<1>1. PICK n : n = file[j]
  OBVIOUS
<1>2. file'[j] = n
  BY <1>1
<1>3. n >= 0 => Rec(n)' = Rec(n)
  BY <1>1
<1>4. Held(j) = IF n >= 0 THEN Rec(n) ELSE {}
  BY <1>1 DEF Held
<1>5. Held(j)' = IF n >= 0 THEN Rec(n)' ELSE {}
  BY <1>2 DEF Held
<1>6. QED
  BY <1>3, <1>4, <1>5

LEMMA MovedMemory ==
  ASSUME Types, LogInv, FileInv, Log2Inv, MemInv, ServeInv, NextInv, Works, SameAnswers,
         UNCHANGED <<active, memtable, wal_files, phase>>, Filling' <=> Filling,
         NEW i \in Slots, NEW S, Moved(i, S),
         file'[i] = file[i] \/ (i = 1 - active /\ ~Filling)
  PROVE  MemInv' /\ ServeInv' /\ NextInv'
<1>1. PICK a \in Slots, b \in Slots : a = active /\ b = 1 - a /\ a # b /\ \A j \in Slots : j = a \/ j = b
  BY SlotFacts
<1>2. active' = a /\ memtable' = memtable /\ Works' /\ writes' = writes
  BY <1>1 DEF Works, Moved
<1>3. \A n \in DOMAIN logs : \A r : r \in Rec(n)' <=> r \in Rec(n)
  BY MovedRecords
<1>4. \A j \in Slots : file[j] >= 0 => file[j] \in DOMAIN logs
  BY WorksIsLoaded DEF FileInv
<1>5. file'[a] = file[a] /\ (Filling => file'[b] = file[b])
  <2>1. \A j \in Slots : j # i => file'[j] = file[j]
    BY DEF Moved
  <2>2. QED
    BY <1>1, <2>1
<1>6. Held(a)' = Held(a)
  BY <1>1, <1>3, <1>4, <1>5, HeldSame
<1>7. Filling => Held(b)' = Held(b)
  BY <1>1, <1>3, <1>4, <1>5, HeldSame
<1>8. Known' = Known
  BY DEF Moved, Known
<1>9. Pending' = Pending
  <2>1. CASE phase # "log2"
    BY <2>1 DEF Pending
  <2>2. CASE phase = "log2"
    <3>1. Second \in DOMAIN logs /\ buffer[i] = <<>>
      BY <2>2 DEF Log2Inv
    <3>2. PICK n \in DOMAIN logs : n = Second
      BY <3>1
    <3>3. \A r : r \notin S
      <4>1. ToSet(buffer[i]) = {}
        BY <3>1, NoRecords
      <4>2. QED
        BY <4>1 DEF Moved
    <3>4. \A r : r \in Records(n)' <=> r \in Records(n)
      BY <3>3 DEF Moved
    <3>5. Records(n)' = Records(n)
      BY <3>4
    <3>6. Second' = n
      BY <3>2 DEF Second
    <3>7. QED
      BY <2>2, <3>2, <3>5, <3>6 DEF Pending
  <2>3. QED
    BY <2>1, <2>2
<1>10. MemInv'
  <2>1. \A k \in Keys : /\ memtable[a][k] = NewestIn(writes, k, Held(a))
                        /\ Filling => memtable[b][k] = NewestIn(writes, k, Held(b))
                        /\ ~Filling => memtable[b][k] = 0
    BY <1>1 DEF MemInv
  <2>2. \A k \in Keys : /\ memtable'[a][k] = NewestIn(writes', k, Held(a)')
                        /\ Filling' => memtable'[b][k] = NewestIn(writes', k, Held(b)')
                        /\ ~Filling' => memtable'[b][k] = 0
    BY <1>2, <1>6, <1>7, <2>1
  <2>3. QED
    BY <1>1, <1>2, <2>2 DEF MemInv
<1>11. ServeInv'
  BY <1>1, <1>2, <1>8, <1>9 DEF ServeInv, SameAnswers
<1>12. NextInv'
  <2>1. \A k \in Keys, x \in Known : writes[x].key = k =>
          /\ memtable[b][k] # 0 /\ x > memtable[b][k] => x \in Held(a) \union Pending
          /\ phase = "log2" /\ memtable[a][k] # 0 /\ x > memtable[a][k] => x \in Pending
    BY <1>1 DEF NextInv
  <2>2. \A k \in Keys, x \in Known' : writes'[x].key = k =>
          /\ memtable'[b][k] # 0 /\ x > memtable'[b][k] => x \in Held(a)' \union Pending'
          /\ phase' = "log2" /\ memtable'[a][k] # 0 /\ x > memtable'[a][k] => x \in Pending'
    BY <1>2, <1>6, <1>8, <1>9, <2>1
  <2>3. QED
    BY <1>1, <1>2, <2>2 DEF NextInv
<1>13. QED
  BY <1>10, <1>11, <1>12

LEMMA MovedDurable ==
  ASSUME Types, LogInv, FileInv, DurableInv, Live, SameAnswers, Clearing' = Clearing,
         NEW i \in Slots, NEW S, Moved(i, S),
         \A x : x \in Unpublished' => x \in Unpublished,
         \A x \in Unpublished : x \in Unpublished' \/ (x \in S /\ file[i] \notin Clearing)
  PROVE  DurableInv'
<1>0. writes' = writes /\ DOMAIN logs' = DOMAIN logs /\ Known' = Known
  BY DEF Moved, Known
<1>1. PICK C : C = DOMAIN logs \ Clearing
  OBVIOUS
<1>2. C = DOMAIN logs' \ Clearing'
  BY <1>0, <1>1
<1>3. ASSUME NEW k \in Keys, ~Logged(k, C)'
      PROVE  ListedFrom(0, k)' = AnswerIn(writes', NewestIn(writes', k, Known' \ Unpublished'))
  <2>1. \A n \in C : \A r \in Records(n)' : writes[r].key # k
    BY <1>0, <1>3 DEF Logged
  <2>2. ~Logged(k, C)
    BY <1>1, <2>1 DEF Logged, Moved
  <2>3. PICK X, Y : X = Known \ Unpublished /\ Y = Known \ Unpublished'
    OBVIOUS
  <2>4. ListedFrom(0, k) = AnswerIn(writes, NewestIn(writes, k, X))
    BY <1>1, <2>2, <2>3 DEF DurableInv
  <2>5. ASSUME NEW x \in Unpublished, x \notin Unpublished'
        PROVE  writes[x].key # k
    <3>1. PICK n : x \in S /\ n = file[i] /\ n \in C
      BY <1>1, <2>5 DEF Moved
    <3>2. x \in Records(n)'
      BY <1>1, <3>1 DEF Moved
    <3>3. QED
      BY <2>1, <3>1, <3>2
  <2>6. PICK n \in Nat : n = Len(writes)
    BY KnownFacts
  <2>7. (\A x \in X : x \in 1..n) /\ (\A x \in Y : x \in 1..n)
    BY <2>3, <2>6, KnownFacts
  <2>8. \A w \in 1..n : (w \in X /\ writes[w].key = k) <=> (w \in Y /\ writes[w].key = k)
    BY <2>3, <2>5
  <2>9. NewestIn(writes, k, X) = NewestIn(writes, k, Y)
    BY <2>7, <2>8, NewestSame
  <2>10. ListedFrom(0, k)' = ListedFrom(0, k)
    BY DEF SameAnswers
  <2>11. QED
    BY <1>0, <2>3, <2>4, <2>9, <2>10
<1>4. QED
  BY <1>2, <1>3 DEF DurableInv

LEMMA MovedFirst ==
  ASSUME Types, LogInv, FirstInv, Live, UNCHANGED <<starts, filepath>>, Clearing' = Clearing,
         NEW i \in Slots, NEW S, Moved(i, S),
         phase' # "closing" => phase # "closing" /\ (file[i] = file'[i] \/ file[i] \in Clearing \/ starts # 1)
  PROVE  FirstInv'
<1>1. SUFFICES ASSUME starts = 1, Live'
               PROVE  /\ \A j \in Slots : file'[j] >= 0 => filepath'[j] = file'[j]
                      /\ phase' # "closing" => \A n \in DOMAIN logs' : n \in {file'[0], file'[1]} \union Clearing'
                      /\ \A n \in DOMAIN logs' \ Clearing' : \A r \in Rec(n)', x \in Known' :
                           x > r => \E m \in DOMAIN logs' \ Clearing' : x \in Rec(m)'
  BY DEF FirstInv
<1>2. /\ \A j \in Slots : file[j] >= 0 => filepath[j] = file[j]
      /\ phase # "closing" => \A n \in DOMAIN logs : n \in {file[0], file[1]} \union Clearing
      /\ \A n \in DOMAIN logs \ Clearing : \A r \in Rec(n), x \in Known :
           x > r => \E m \in DOMAIN logs \ Clearing : x \in Rec(m)
  BY <1>1 DEF FirstInv
<1>3. \A j \in Slots : file'[j] >= 0 => file'[j] = file[j]
  BY DEF Moved, Closed
<1>4. \A j \in Slots : j # i => file'[j] = file[j]
  BY DEF Moved
<1>5. DOMAIN logs' = DOMAIN logs /\ Known' = Known
  BY DEF Moved, Known
<1>6. \A n \in DOMAIN logs : \A r : r \in Rec(n)' <=> r \in Rec(n)
  BY MovedRecords
<1>7. \A j \in Slots : file'[j] >= 0 => filepath'[j] = file'[j]
  BY <1>2, <1>3
<1>8. phase' # "closing" => \A n \in DOMAIN logs' : n \in {file'[0], file'[1]} \union Clearing'
  <2>1. \A n \in DOMAIN logs : phase # "closing" => n = file[0] \/ n = file[1] \/ n \in Clearing
    BY <1>2
  <2>2. \A j \in Slots : phase' # "closing" => file[j] = file'[j] \/ file[j] \in Clearing
    BY <1>1, <1>4
  <2>3. 0 \in Slots /\ 1 \in Slots
    BY Constants_
  <2>4. QED
    BY <1>5, <2>1, <2>2, <2>3
<1>9. QED
  BY <1>2, <1>5, <1>6, <1>7, <1>8

-----------------------------------------------------------------------------
(* The steps, one by one.                                                  *)

LEMMA LiveAll ==
  ASSUME Types', TableInv', FileInvs', MemInvs', Live'
  PROVE  AllInv'
<1>1. phase' \in {"up", "stopping", "log2", "closing"}
  BY DEF Live
<1>2. FreshInv' /\ DownInv' /\ DiskInv'
  BY <1>1 DEF FreshInv, DownInv, DiskInv, Fresh
<1>3. QED
  BY <1>2 DEF AllInv

(* Types of what a step leaves alone.                                      *)
LEMMA TablesKeptTypes ==
  ASSUME Types, TablesKept
  PROVE  TableTypes'
<1>1. Len(writes) \in Nat /\ Len(writes') \in Nat /\ Len(writes) <= Len(writes')
  BY DEF TablesKept, Extends
<1>2. \A t \in DOMAIN sstables' : /\ t \in AllTables /\ sstables'[t].finished \in BOOLEAN
                                  /\ sstables'[t].data \in [Keys -> 0..Len(writes')]
  <2>1. \A t \in DOMAIN sstables : /\ t \in AllTables /\ sstables[t].finished \in BOOLEAN
                                   /\ sstables[t].data \in [Keys -> 0..Len(writes)]
    BY DEF Types, TableTypes, FileTypes
  <2>2. \A x \in 0..Len(writes) : x \in 0..Len(writes')
    BY <1>1
  <2>3. \A f \in [Keys -> 0..Len(writes)] : f \in [Keys -> 0..Len(writes')]
    BY <2>2
  <2>4. sstables' = sstables
    BY DEF TablesKept
  <2>5. QED
    BY <2>1, <2>3, <2>4
<1>3. \E N \in Nat : \A t \in DOMAIN sstables' : t[2] <= N
  BY Bounded DEF TablesKept
<1>4. awake' \subseteq Levels
  <2>1. 0 \in Levels
    BY Constants_
  <2>2. awake \subseteq Levels
    BY DEF Types, TableTypes, ListTypes
  <2>3. awake' = awake \/ awake' = awake \union {0}
    BY DEF TablesKept
  <2>4. QED
    BY <2>1, <2>2, <2>3
<1>5. ListTypes'
  BY <1>4 DEF TablesKept, Types, TableTypes, ListTypes
<1>6. QED
  BY <1>2, <1>3, <1>5 DEF TableTypes, FileTypes

LEMMA MovedTypes ==
  ASSUME Types, NEW i \in Slots, NEW S, Moved(i, S), UNCHANGED <<memtable, filepath, wal_log_counter, wal_files>>
  PROVE  LogTypes' /\ WriteTypes'
<1>1. writes' = writes /\ lost' = lost /\ DOMAIN logs' = DOMAIN logs
      /\ (\A n \in DOMAIN logs : logs'[n] \in Seq(-1..Len(writes)))
      /\ buffer' \in [Slots -> Seq(1..Len(writes))] /\ file' \in [Slots -> Nat \union {NULL, Closed}]
  BY DEF Moved
<1>2. QED
  BY <1>1 DEF Types, LogTypes, WriteTypes

LEMMA SpillStep ==
  ASSUME AllInv, NEW i \in Slots, Spill(i)
  PROVE  AllInv'
<1> USE DEF AllInv, FileInvs, MemInvs
<1>1. phase \in {"up", "stopping", "closing"} /\ Live /\ Live'
  <2>1. buffer[i] # <<>> /\ phase' = phase /\ phase \notin {"down", "failed"}
    BY DEF Spill, Up
  <2>2. ~Fresh
    <3>1. ASSUME Fresh
          PROVE  FALSE
      <4>1. buffer = [j \in Slots |-> <<>>]
        BY <3>1 DEF FreshInv
      <4>2. QED
        BY <2>1, <4>1
    <3>2. QED
      BY <3>1
  <2>3. phase # "log2"
    BY <2>1 DEF Log2Inv
  <2>4. QED
    BY <2>1, <2>2, <2>3 DEF Fresh, Live, Types, ControlTypes
<1>2. PICK N \in Nat, f \in DOMAIN logs : N = Len(writes) /\ f = file[i]
  BY KnownFacts DEF Spill
<1>3. f \in Nat /\ f >= 0
  BY <1>2 DEF Types, LogTypes
<1>4. buffer \in [Slots -> Seq(1..N)] /\ buffer[i] # <<>> /\ file \in [Slots -> Nat \union {NULL, Closed}]
  BY <1>2 DEF Spill, Types, LogTypes
<1>5. UNCHANGED <<sstables, phase, wal_files, writer, active, memtable, file, filepath, wal_log_counter, flusher, flush_num,
                  readers_at_level, sstable_counter, curr_max_level, merge, awake, doomed, unlinked, writes, lost,
                  trusted, starts, crashes>>
  BY DEF Spill, memVars, flushVars, tableVars, mergeVars, lives
<1>6. PICK S : Moved(i, S) /\ (\A n \in DOMAIN logs : n # f => logs'[n] = logs[n])
               /\ \A j \in Slots : j # i => buffer'[j] = buffer[j]
  <2>0. 1 - i \in Slots /\ 1 - i # i
    BY Constants_
  <2>1. CASE logs' = Arrived(file[i], <<Head(buffer[i])>>) /\ buffer' = [buffer EXCEPT ![i] = Tail(@)]
    <3>1. PICK h \in 1..N, t \in Seq(1..N) : h = Head(buffer[i]) /\ t = Tail(buffer[i])
      BY <1>4, HeadAndTail
    <3>2. /\ ToSet(buffer[i]) = {h} \union ToSet(t)
          /\ Distinct(buffer[i]) => Distinct(t) /\ h \notin ToSet(t)
      BY <1>4, <3>1, HeadAndTail
    <3>3. Distinct(buffer[i])
      BY DEF LogInv, Distinct
    <3>4. PICK rs \in Seq(0..N) : rs = <<h>>
      <4>1. h \in 0..N
        BY <1>2, KnownFacts
      <4>2. <<h>> \in Seq(0..N)
        BY <4>1
      <4>3. QED
        BY <4>2
    <3>5. ToSet(rs) = {h} /\ h > 0
      BY <3>4 DEF ToSet
    <3>6. /\ DOMAIN logs' = DOMAIN logs
          /\ \A m \in DOMAIN logs : logs'[m] \in Seq(-1..N)
          /\ \A m \in DOMAIN logs : m # f => logs'[m] = logs[m]
          /\ \A m \in DOMAIN logs : \A r :
              r \in Positive(logs', m) <=> r \in Records(m) \/ (m = f /\ r \in ToSet(rs) /\ r > 0)
      <4>1. logs' = Arrived(f, rs)
        BY <1>2, <2>1, <3>1, <3>4
      <4>2. QED
        BY <1>2, <4>1, ArrivedFacts
    <3>7. \A m \in DOMAIN logs : \A r : r \in Records(m)' <=> r \in Records(m) \/ (m = f /\ r \in {h})
      BY <3>5, <3>6, RecordsIs
    <3>8. buffer' = [buffer EXCEPT ![i] = t]
      BY <2>1, <3>1
    <3>9. buffer'[i] = t /\ buffer' \in [Slots -> Seq(1..N)] /\ \A j \in Slots : j # i => buffer'[j] = buffer[j]
      BY <1>4, <3>8
    <3>10. Moved(i, {h})
      BY <1>2, <1>4, <1>5, <2>0, <3>2, <3>3, <3>6, <3>7, <3>9 DEF Moved
    <3>11. QED
      BY <3>6, <3>9, <3>10
  <2>2. CASE logs' = Arrived(file[i], <<Torn>>) /\ buffer' = buffer
    <3>4. PICK rs \in Seq(0..N) : rs = <<0>>
      <4>1. 0 \in 0..N
        BY <1>2, KnownFacts
      <4>2. <<0>> \in Seq(0..N)
        BY <4>1
      <4>3. QED
        BY <4>2
    <3>5. ToSet(rs) = {0} /\ ~(0 > 0)
      BY <3>4 DEF ToSet
    <3>6. /\ DOMAIN logs' = DOMAIN logs
          /\ \A m \in DOMAIN logs : logs'[m] \in Seq(-1..N)
          /\ \A m \in DOMAIN logs : m # f => logs'[m] = logs[m]
          /\ \A m \in DOMAIN logs : \A r :
              r \in Positive(logs', m) <=> r \in Records(m) \/ (m = f /\ r \in ToSet(rs) /\ r > 0)
      <4>1. logs' = Arrived(f, rs)
        BY <1>2, <2>2, <3>4 DEF Torn
      <4>2. QED
        BY <1>2, <4>1, ArrivedFacts
    <3>7. \A m \in DOMAIN logs : \A r : r \in Records(m)' <=> r \in Records(m) \/ (m = f /\ r \in {})
      BY <3>5, <3>6, RecordsIs
    <3>8. Distinct(buffer'[i])
      BY <2>2 DEF LogInv, Distinct
    <3>9. Moved(i, {})
      BY <1>2, <1>4, <1>5, <2>0, <2>2, <3>6, <3>7, <3>8 DEF Moved
    <3>10. QED
      BY <2>2, <3>6, <3>9
  <2>3. QED
    BY <2>1, <2>2 DEF Spill
<1>7. TablesKept
  BY <1>5, ExtendsSame DEF TablesKept, Loaded
<1>8. TableInv' /\ SameAnswers /\ TableTypes'
  BY <1>7, KeptTables, TablesKeptTypes
<1>9. Types'
  <2>1. LogTypes' /\ WriteTypes'
    BY <1>5, <1>6, MovedTypes
  <2>2. ControlTypes'
    BY <1>5 DEF Types, ControlTypes
  <2>3. QED
    BY <1>8, <2>1, <2>2 DEF Types
<1>10. LogInv' /\ DOMAIN logs' = DOMAIN logs
  BY <1>6, MovedRecords DEF Moved
<1>11. FileInv'
  <2>1. \A j \in Slots : file[j] < 0 => buffer'[j] = <<>>
    <3>1. ASSUME NEW j \in Slots, file[j] < 0
          PROVE  buffer'[j] = <<>>
      <4>1. j # i
        BY <1>2, <1>3, <3>1
      <4>2. QED
        BY <1>1, <1>6, <3>1, <4>1 DEF FileInv
    <3>2. QED
      BY <3>1
  <2>2. QED
    BY <1>1, <1>5, <1>10, <2>1 DEF FileInv
<1>12. PathInv'
  <2>1. ASSUME Works
        PROVE  \A j \in Slots : file[j] >= 0 /\ filepath[j] \in DOMAIN logs =>
                 filepath[j] = file[j] \/ logs'[filepath[j]] = <<>>
    <3>1. ASSUME NEW j \in Slots, file[j] >= 0, filepath[j] \in DOMAIN logs, filepath[j] # file[j]
          PROVE  logs'[filepath[j]] = <<>>
      <4>1. logs[filepath[j]] = <<>>
        BY <2>1, <3>1 DEF PathInv
      <4>2. i = j \/ i = 1 - j
        BY Constants_
      <4>3. i = 1 - j => filepath[j] # f
        BY <1>2, <1>3, <2>1 DEF PathInv
      <4>4. filepath[j] # f
        BY <1>2, <3>1, <4>2, <4>3
      <4>5. QED
        BY <1>6, <3>1, <4>1, <4>4
    <3>2. QED
      BY <3>1
  <2>2. (Works' <=> Works)
    BY <1>5 DEF Works
  <2>3. QED
    BY <1>5, <1>10, <2>1, <2>2 DEF PathInv
<1>13. Log2Inv'
  BY <1>1, <1>5 DEF Log2Inv
<1>14. Clearing' = Clearing /\ (Filling' <=> Filling)
  BY <1>5 DEF Clearing, Filling
<1>15. MemInv' /\ ServeInv' /\ NextInv'
  <2>1. CASE Works
    BY <1>5, <1>6, <1>8, <1>14, <2>1, MovedMemory
  <2>2. CASE ~Works
    BY <1>5, <2>2 DEF MemInv, ServeInv, NextInv, Works
  <2>3. QED
    BY <2>1, <2>2
<1>16. DurableInv'
  <2>1. ASSUME NEW j \in Slots, NEW x, x \in ToSet(buffer[j])
        PROVE  x \in ToSet(buffer'[j]) \/ (j = i /\ x \in S)
    BY <1>6, <2>1 DEF Moved
  <2>2. ASSUME NEW j \in Slots, NEW x, x \in ToSet(buffer'[j])
        PROVE  x \in ToSet(buffer[j])
    BY <1>6, <2>2 DEF Moved
  <2>3. 0 \in Slots /\ 1 \in Slots
    BY Constants_
  <2>4. \A x : x \in Unpublished' => x \in Unpublished
    BY <1>5, <2>2, <2>3, UnpublishedIs
  <2>5. ASSUME NEW x \in Unpublished
        PROVE  x \in Unpublished' \/ (x \in S /\ file[i] \notin Clearing)
    <3>1. PICK j \in Slots : x \in ToSet(buffer[j]) /\ ~(j = 1 - active /\ flusher = "close")
      BY <2>3, UnpublishedIs
    <3>2. CASE x \in ToSet(buffer'[j])
      BY <1>5, <3>1, <3>2, Constants_, UnpublishedIs
    <3>3. CASE x \notin ToSet(buffer'[j])
      <4>1. j = i /\ x \in S
        BY <2>1, <3>1, <3>3
      <4>2. ASSUME file[i] \in Clearing
            PROVE  FALSE
        <5>1. flusher \in {"close", "remove"} /\ f = filepath[1 - active]
          BY <1>2, <4>2 DEF Clearing
        <5>2. phase # "closing"
          BY <1>1, <5>1 DEF FileInv
        <5>3. Works
          BY <1>1, <5>2 DEF Works
        <5>4. active \in Slots /\ 1 - active \in Slots /\ (i = active \/ i = 1 - active) /\ 1 - (1 - active) = active
          BY SlotFacts, Constants_
        <5>5. i # active
          <6>1. ASSUME i = active
                PROVE  FALSE
            <7>1. file[1 - (1 - active)] >= 0
              BY <1>2, <1>3, <5>4, <6>1
            <7>2. filepath[1 - active] # file[1 - (1 - active)]
              BY <5>3, <5>4, <7>1 DEF PathInv
            <7>3. QED
              BY <1>2, <5>1, <5>4, <6>1, <7>2
          <6>2. QED
            BY <6>1
        <5>6. i = 1 - active
          BY <5>4, <5>5
        <5>7. flusher # "remove"
          BY <1>2, <1>3, <5>3, <5>6 DEF PathInv
        <5>8. QED
          BY <3>1, <4>1, <5>1, <5>6, <5>7
      <4>3. QED
        BY <4>1, <4>2
    <3>4. QED
      BY <3>2, <3>3
  <2>6. QED
    BY <1>1, <1>6, <1>8, <1>14, <2>4, <2>5, MovedDurable
<1>17. FirstInv'
  BY <1>1, <1>5, <1>6, <1>14, MovedFirst
<1>18. QED
  BY <1>1, <1>8, <1>9, <1>10, <1>11, <1>12, <1>13, <1>15, <1>16, <1>17, LiveAll

LEMMA LogNumbers ==
  ASSUME Types, NEW i \in Slots
  PROVE  /\ file[i] \in Int /\ (~(file[i] < 0) => file[i] >= 0 /\ file[i] \in Nat)
         /\ filepath[i] \in Int /\ (filepath[i] >= 0 => filepath[i] \in Nat) /\ (filepath[i] < 0 => filepath[i] = NULL)
<1>1. file[i] \in Nat \union {NULL, Closed} /\ filepath[i] \in Nat \union {NULL}
  BY DEF Types, LogTypes
<1>2. QED
  BY <1>1 DEF NULL, Closed

LEMMA CloseLogStep ==
  ASSUME AllInv, CloseLog
  PROVE  AllInv'
<1> USE DEF AllInv, FileInvs, MemInvs
<1>1. PICK a \in Slots, b \in Slots : a = active /\ b = 1 - a /\ a = 1 - b /\ a # b /\ \A j \in Slots : j = a \/ j = b
  BY SlotFacts, Constants_
<1>2. UNCHANGED <<sstables, phase, wal_files, writer, active, memtable, filepath, wal_log_counter, flush_num,
                  readers_at_level, sstable_counter, curr_max_level, merge, awake, doomed, unlinked, writes, lost,
                  trusted, starts, crashes>>
  BY DEF CloseLog, memVars, tableVars, mergeVars, lives
<1>3. Works /\ Works' /\ Live /\ Live' /\ phase # "closing" /\ flusher = "close" /\ flusher' = "remove"
  BY <1>2, WorksIsLoaded DEF CloseLog, Works, Live
<1>4. PICK N \in Nat, f \in DOMAIN logs : N = Len(writes) /\ f = file[b] /\ f >= 0 /\ f \in Nat
  <2>1. ~(file[b] < 0)
    BY <1>1, <1>3 DEF PathInv
  <2>3. file[b] >= 0 /\ file[b] \in Nat
    BY <2>1, LogNumbers
  <2>4. file[b] \in DOMAIN logs
    BY <1>3, <2>3 DEF FileInv
  <2>5. QED
    BY <2>3, <2>4, KnownFacts
<1>5. buffer \in [Slots -> Seq(1..N)] /\ file \in [Slots -> Nat \union {NULL, Closed}]
  BY <1>4 DEF Types, LogTypes
<1>6. /\ logs' = Arrived(f, buffer[b]) /\ file' = [file EXCEPT ![b] = Closed] /\ buffer' = [buffer EXCEPT ![b] = <<>>]
  BY <1>1, <1>4 DEF CloseLog
<1>7. /\ file'[b] = Closed /\ buffer'[b] = <<>> /\ file'[a] = file[a] /\ buffer'[a] = buffer[a]
      /\ file' \in [Slots -> Nat \union {NULL, Closed}] /\ buffer' \in [Slots -> Seq(1..N)]
  BY <1>1, <1>5, <1>6
<1>8. PICK S : S = ToSet(buffer[b])
  OBVIOUS
<1>9. /\ DOMAIN logs' = DOMAIN logs
      /\ \A m \in DOMAIN logs : logs'[m] \in Seq(-1..N)
      /\ \A m \in DOMAIN logs : m # f \/ buffer[b] = <<>> => logs'[m] = logs[m]
      /\ \A m \in DOMAIN logs : \A r : r \in Records(m)' <=> r \in Records(m) \/ (m = f /\ r \in S)
  <2>1. PICK rs \in Seq(0..N) : rs = buffer[b]
    <3>1. (1..N) \subseteq (0..N)
      OBVIOUS
    <3>2. buffer[b] \in Seq(0..N)
      BY <1>5, <3>1, SeqMonotonic
    <3>3. QED
      BY <3>2
  <2>2. logs' = Arrived(f, rs)
    BY <1>6, <2>1
  <2>3. /\ DOMAIN logs' = DOMAIN logs
        /\ \A m \in DOMAIN logs : logs'[m] \in Seq(-1..N)
        /\ \A m \in DOMAIN logs : m # f \/ rs = <<>> => logs'[m] = logs[m]
        /\ \A m \in DOMAIN logs : \A r :
             r \in Positive(logs', m) <=> r \in Records(m) \/ (m = f /\ r \in ToSet(rs) /\ r > 0)
    BY <1>4, <2>2, ArrivedFacts
  <2>4. \A r \in ToSet(buffer[b]) : r > 0
    BY <1>5, SetOfSeq
  <2>5. QED
    BY <1>8, <2>1, <2>3, <2>4, RecordsIs
<1>10. Moved(b, S)
  <2>1. Distinct(buffer'[b]) /\ ToSet(buffer'[b]) = {}
    BY <1>7, NoRecords DEF Distinct
  <2>2. \A j \in Slots : file'[j] = file[j] \/ (j = b /\ file'[b] = Closed /\ ToSet(buffer'[b]) = {})
    BY <1>1, <1>7, <2>1
  <2>3. QED
    BY <1>1, <1>2, <1>4, <1>7, <1>8, <1>9, <2>1, <2>2 DEF Moved
<1>11. TablesKept
  BY <1>2, <1>3, ExtendsSame DEF TablesKept, Loaded
<1>12. TableInv' /\ SameAnswers /\ TableTypes'
  BY <1>11, KeptTables, TablesKeptTypes
<1>13. Types'
  <2>1. LogTypes' /\ WriteTypes'
    BY <1>2, <1>10, MovedTypes
  <2>2. ControlTypes'
    BY <1>2, <1>3 DEF Types, ControlTypes
  <2>3. QED
    BY <1>12, <2>1, <2>2 DEF Types
<1>14. LogInv'
  BY <1>10, MovedRecords
<1>15. \A j \in Slots : file'[j] >= 0 => j = a /\ file[a] >= 0
  BY <1>1, <1>7 DEF Closed
<1>16. FileInv'
  <2>1. \A j \in Slots : file'[j] < 0 => buffer'[j] = <<>>
    BY <1>1, <1>3, <1>7 DEF FileInv
  <2>2. \A j \in Slots : file'[j] >= 0 => file'[j] \in DOMAIN logs'
    BY <1>3, <1>7, <1>9, <1>15 DEF FileInv
  <2>3. file'[0] >= 0 => file'[0] # file'[1]
    <3>1. 0 \in Slots /\ 1 \in Slots
      BY Constants_
    <3>2. file'[0] >= 0 => a = 0 /\ b = 1
      BY <1>1, <1>15, <3>1
    <3>3. QED
      BY <1>7, <3>2 DEF Closed
  <2>4. QED
    BY <1>2, <1>3, <2>1, <2>2, <2>3 DEF FileInv
<1>17. PathInv'
  <2>1. writer = "open" <=> file'[a] < 0
    BY <1>1, <1>3, <1>7 DEF PathInv
  <2>2. file'[b] < 0
    BY <1>7 DEF Closed
  <2>3. phase # "log2" /\ writer # "open" => \A n \in DOMAIN logs : n <= file'[a]
    BY <1>1, <1>3, <1>7 DEF PathInv
  <2>4. \A j \in Slots : file'[1 - j] >= 0 => filepath[j] # file'[1 - j]
    <3>1. ASSUME NEW j \in Slots, file'[1 - j] >= 0
          PROVE  filepath[j] # file'[1 - j]
      <4>1. 1 - j \in Slots
        BY Constants_
      <4>2. 1 - j = a /\ file'[1 - j] = file[1 - j]
        BY <1>7, <1>15, <3>1, <4>1
      <4>3. QED
        BY <1>3, <3>1, <4>2 DEF PathInv
    <3>2. QED
      BY <3>1
  <2>5. filepath[b] # f \/ filepath[b] = f
    OBVIOUS
  <2>6. ASSUME NEW j \in Slots, file'[j] >= 0, filepath[j] \in DOMAIN logs
        PROVE  filepath[j] = file'[j] \/ logs'[filepath[j]] = <<>>
    <3>1. j = a /\ file[a] >= 0
      BY <1>15, <2>6
    <3>2. filepath[a] = file[a] \/ logs[filepath[a]] = <<>>
      BY <1>3, <2>6, <3>1 DEF PathInv
    <3>3. filepath[a] # f
      <4>1. 1 - a = b
        BY <1>1
      <4>2. file[1 - a] >= 0
        BY <1>4, <4>1
      <4>3. filepath[a] # file[1 - a]
        BY <1>3, <4>2 DEF PathInv
      <4>4. QED
        BY <1>4, <4>1, <4>3
    <3>4. QED
      BY <1>7, <1>9, <2>6, <3>1, <3>2, <3>3
  <2>7. /\ phase # "log2" => \A n \in DOMAIN logs : n < wal_log_counter
        /\ \A i \in Slots : filepath[i] < wal_log_counter
        /\ phase = "stopping" => writer = "run"
    BY <1>3 DEF PathInv
  <2>8. 1 - active' = b /\ active' = a
    BY <1>1, <1>2
  <2>9. QED
    BY <1>2, <1>3, <1>9, <2>1, <2>2, <2>3, <2>4, <2>6, <2>7, <2>8 DEF PathInv
<1>18. Log2Inv'
  <2>1. SUFFICES ASSUME phase = "log2"
                 PROVE  Log2Inv'
    BY <1>2 DEF Log2Inv
  <2>2. \A i \in Slots : buffer[i] = <<>>
    BY <2>1 DEF Log2Inv
  <2>3. \A m \in DOMAIN logs : logs'[m] = logs[m]
    BY <1>9, <2>2
  <2>4. /\ writer # "full" /\ active = 1 /\ 1 \in Slots
    BY <1>3, <2>1, SlotFacts, Constants_ DEF Log2Inv
  <2>5. a = 1 /\ b = 0 /\ file'[0] = Closed /\ file'[1] = file[1] /\ \A i \in Slots : buffer'[i] = <<>>
    BY <1>1, <1>7, <2>2, <2>4
  <2>6. Second' = Second
    BY <1>2 DEF Second
  <2>7. /\ Len(wal_files) = 1 /\ Second \in DOMAIN logs /\ Second > 1
        /\ \A n \in DOMAIN logs : n <= Second
        /\ \A i \in DOMAIN logs[Second] : logs[Second][i] > 0
        /\ filepath[0] = NULL
        /\ active = 1 => memtable[1] = Empty
    BY <2>1 DEF Log2Inv
  <2>8. \/ /\ writer \in {"full", "open"} /\ (active = 0 <=> writer = "full")
           /\ file[1] = NULL /\ filepath[1] = NULL /\ wal_log_counter = 1 /\ 1 \notin DOMAIN logs
        \/ /\ writer = "run" /\ active = 1
           /\ file[1] = 1 /\ filepath[1] = 1 /\ wal_log_counter = 2 /\ logs[1] = <<>>
    BY <2>1 DEF Log2Inv
  <2>9. file[1] = 1 => 1 \in DOMAIN logs
    BY <1>3, <2>4 DEF FileInv
  <2>10. QED
    BY <1>2, <1>9, <2>3, <2>4, <2>5, <2>6, <2>7, <2>8, <2>9 DEF Log2Inv
<1>19. Clearing' = Clearing /\ ~Filling' /\ ~Filling
  BY <1>2, <1>3 DEF Clearing, Filling
<1>20. MemInv' /\ ServeInv' /\ NextInv'
  BY <1>1, <1>2, <1>3, <1>10, <1>12, <1>19, MovedMemory
<1>21. DurableInv'
  <2>1. (a = 0 /\ b = 1) \/ (a = 1 /\ b = 0)
    BY <1>1, Constants_
  <2>2. \A x : x \in Unpublished' <=> x \in ToSet(buffer[a])
    BY <1>1, <1>2, <1>3, <1>7, <2>1, NoRecords, UnpublishedIs
  <2>3. \A x : x \in Unpublished <=> x \in ToSet(buffer[a])
    BY <1>1, <1>3, <2>1, UnpublishedIs
  <2>4. QED
    BY <1>3, <1>10, <1>12, <1>19, <2>2, <2>3, MovedDurable
<1>22. FirstInv'
  <2>1. starts = 1 => file[b] \in Clearing
    BY <1>1, <1>3, <1>4 DEF FirstInv, Clearing
  <2>2. QED
    BY <1>2, <1>3, <1>10, <1>19, <2>1, MovedFirst
<1>23. QED
  BY <1>3, <1>12, <1>13, <1>14, <1>16, <1>17, <1>18, <1>20, <1>21, <1>22, LiveAll

LEMMA RemoveLogStep ==
  ASSUME AllInv, RemoveLog
  PROVE  AllInv'
<1> USE DEF AllInv, FileInvs, MemInvs
<1>1. PICK a \in Slots, b \in Slots : a = active /\ b = 1 - a /\ a = 1 - b /\ a # b /\ \A j \in Slots : j = a \/ j = b
  BY SlotFacts, Constants_
<1>2. UNCHANGED <<sstables, phase, wal_files, writer, active, memtable, file, filepath, buffer, wal_log_counter, flush_num,
                  readers_at_level, sstable_counter, curr_max_level, merge, doomed, unlinked, writes, lost,
                  trusted, starts, crashes>>
      /\ awake' = awake \union {0}
  BY DEF RemoveLog, memVars, walVars, tableVars, lives
<1>3. Works /\ Works' /\ Live /\ Live' /\ phase # "closing" /\ flusher = "remove" /\ flusher' = "idle"
  BY <1>2, WorksIsLoaded DEF RemoveLog, Works, Live
<1>4. PICK g : g = filepath[b]
  OBVIOUS
<1>5. DOMAIN logs' = DOMAIN logs \ {g} /\ \A n \in DOMAIN logs' : logs'[n] = logs[n]
  BY <1>1, <1>4 DEF RemoveLog, ClearedPath, Restrict
<1>6. file[b] < 0
  BY <1>1, <1>3 DEF PathInv
<1>7. file[a] >= 0 => file[a] # g /\ file[a] \in DOMAIN logs'
  <2>1. ASSUME file[a] >= 0
        PROVE  file[a] # g
    <3>1. file[1 - b] >= 0
      BY <1>1, <2>1
    <3>2. filepath[b] # file[1 - b]
      BY <1>3, <3>1 DEF PathInv
    <3>3. QED
      BY <1>1, <1>4, <3>2
  <2>2. QED
    BY <1>3, <1>5, <2>1 DEF FileInv
<1>8. Clearing = {g} /\ Clearing' = {}
  BY <1>1, <1>3, <1>4 DEF Clearing
<1>9. \A n \in DOMAIN logs' : \A r : r \in Records(n)' <=> r \in Records(n)
  BY <1>5, RecordsIs
<1>10. \A n \in DOMAIN logs' : \A r : r \in Rec(n)' <=> r \in Rec(n)
  BY <1>2, <1>9, RecIs
<1>11. Known' = Known
  BY <1>2 DEF Known
<1>12. TablesKept
  BY <1>2, <1>3, ExtendsSame DEF TablesKept, Loaded
<1>13. TableInv' /\ SameAnswers /\ TableTypes'
  BY <1>12, KeptTables, TablesKeptTypes
<1>14. Types'
  <2>1. LogTypes'
    BY <1>2, <1>5 DEF Types, LogTypes
  <2>2. ControlTypes' /\ WriteTypes'
    BY <1>2, <1>3 DEF Types, ControlTypes, WriteTypes
  <2>3. QED
    BY <1>13, <2>1, <2>2 DEF Types
<1>15. LogInv'
  <2>1. \A m, n \in DOMAIN logs' : m < n => \A r \in Rec(m)', s \in Rec(n)' : r < s
    BY <1>5, <1>10 DEF LogInv
  <2>2. \A n \in DOMAIN logs' : \A r \in Rec(n)' : r \in Known'
    BY <1>5, <1>10, <1>11 DEF LogInv
  <2>3. \A n \in DOMAIN logs', i \in Slots : \A r \in Records(n)' : r \notin ToSet(buffer'[i])
    BY <1>2, <1>5, <1>9 DEF LogInv
  <2>4. QED
    BY <1>2, <1>11, <2>1, <2>2, <2>3 DEF LogInv
<1>16. FileInv'
  <2>1. \A i \in Slots : file[i] >= 0 => file[i] \in DOMAIN logs'
    BY <1>1, <1>6, <1>7, LogNumbers
  <2>2. QED
    BY <1>2, <1>3, <2>1 DEF FileInv
<1>17. PathInv'
  <2>1. \A n \in DOMAIN logs' : n \in DOMAIN logs /\ logs'[n] = logs[n]
    BY <1>5
  <2>2. file[1 - active] < 0
    BY <1>1, <1>6
  <2>3. QED
    BY <1>2, <1>3, <2>1, <2>2 DEF PathInv
<1>18. Log2Inv' /\ (phase = "log2" => g = NULL /\ Second \in DOMAIN logs')
  <2>1. SUFFICES ASSUME phase = "log2"
                 PROVE  Log2Inv' /\ g = NULL /\ Second \in DOMAIN logs'
    BY <1>2 DEF Log2Inv
  <2>2. /\ writer # "full" /\ active = 1
    BY <1>3, <2>1, SlotFacts, Constants_ DEF Log2Inv
  <2>3. b = 0 /\ filepath[0] = NULL
    BY <1>1, <2>1, <2>2 DEF Log2Inv
  <2>4. g = NULL /\ NULL \notin DOMAIN logs
    BY <1>4, <2>3, RecFacts DEF NULL
  <2>5. DOMAIN logs' = DOMAIN logs /\ Second' = Second
    BY <1>2, <1>5, <2>4 DEF Second
  <2>6. /\ Len(wal_files) = 1 /\ Second \in DOMAIN logs /\ Second > 1
        /\ \A n \in DOMAIN logs : n <= Second
        /\ \A i \in DOMAIN logs[Second] : logs[Second][i] > 0
        /\ file[0] \in {Closed} \union (DOMAIN logs \ {1, Second}) /\ filepath[0] = NULL
        /\ \A i \in Slots : buffer[i] = <<>>
        /\ active = 1 => memtable[1] = Empty
    BY <2>1 DEF Log2Inv
  <2>7. \/ /\ writer \in {"full", "open"} /\ (active = 0 <=> writer = "full")
           /\ file[1] = NULL /\ filepath[1] = NULL /\ wal_log_counter = 1 /\ 1 \notin DOMAIN logs
        \/ /\ writer = "run" /\ active = 1
           /\ file[1] = 1 /\ filepath[1] = 1 /\ wal_log_counter = 2 /\ logs[1] = <<>>
    BY <2>1 DEF Log2Inv
  <2>8. file[1] = 1 => 1 \in DOMAIN logs'
    BY <1>1, <1>7, <2>2
  <2>9. logs'[Second] = logs[Second]
    BY <1>5, <2>5, <2>6
  <2>10. Log2Inv'
    BY <1>2, <1>3, <1>5, <2>2, <2>5, <2>6, <2>7, <2>8, <2>9 DEF Log2Inv
  <2>11. QED
    BY <2>4, <2>5, <2>6, <2>10
<1>19. Held(a)' = Held(a)
  BY <1>2, <1>7, <1>10, HeldSame
<1>20. Pending' = Pending
  <2>1. CASE phase # "log2"
    BY <1>2, <2>1 DEF Pending
  <2>2. CASE phase = "log2"
    <3>1. PICK n \in DOMAIN logs' : n = Second
      BY <1>18, <2>2
    <3>2. Records(n)' = Records(n) /\ Second' = n
      BY <1>2, <1>9, <3>1 DEF Second
    <3>3. QED
      BY <1>2, <2>2, <3>1, <3>2 DEF Pending
  <2>3. QED
    BY <2>1, <2>2
<1>21. ~Filling /\ ~Filling'
  BY <1>3 DEF Filling
<1>22. MemInv'
  BY <1>1, <1>2, <1>3, <1>19, <1>21 DEF MemInv
<1>23. ServeInv'
  BY <1>2, <1>3, <1>11, <1>13, <1>20 DEF ServeInv, SameAnswers
<1>24. NextInv'
  BY <1>1, <1>2, <1>3, <1>11, <1>19, <1>20 DEF NextInv
<1>25. \A x : x \in Unpublished' <=> x \in Unpublished
  BY <1>2, <1>3, UnpublishedIs
<1>26. DurableInv'
  <2>1. ASSUME NEW k \in Keys, ~Logged(k, DOMAIN logs \ {g})'
        PROVE  ListedFrom(0, k)' = AnswerIn(writes, NewestIn(writes, k, Known \ Unpublished'))
    <3>0. PICK C : C = DOMAIN logs \ {g}
      OBVIOUS
    <3>1. ~Logged(k, C)'
      BY <1>5, <2>1, <3>0 DEF Logged
    <3>2. ~Logged(k, C)
      BY <1>2, <1>5, <1>9, <3>0, <3>1 DEF Logged
    <3>3. ListedFrom(0, k) = AnswerIn(writes, NewestIn(writes, k, Known \ Unpublished))
      BY <1>3, <1>8, <3>0, <3>2 DEF DurableInv
    <3>4. Unpublished' = Unpublished
      BY <1>25
    <3>5. QED
      BY <1>13, <3>3, <3>4 DEF SameAnswers
  <2>2. QED
    BY <1>2, <1>5, <1>8, <1>11, <2>1 DEF DurableInv, Logged
<1>27. FirstInv'
  <2>1. \A n : n \in DOMAIN logs' \ Clearing' <=> n \in DOMAIN logs \ Clearing
    BY <1>5, <1>8
  <2>2. \A n : n \in DOMAIN logs' => n \in DOMAIN logs /\ n \notin Clearing
    BY <1>5, <1>8
  <2>3. QED
    BY <1>2, <1>3, <1>10, <1>11, <2>1, <2>2 DEF FirstInv
<1>28. QED
  BY <1>3, <1>13, <1>14, <1>15, <1>16, <1>17, <1>18, <1>22, <1>23, <1>24, <1>26, <1>27, LiveAll

LEMMA OpenLogStep ==
  ASSUME AllInv, OpenLog
  PROVE  AllInv'
<1> USE DEF AllInv, FileInvs, MemInvs
<1>1. PICK a \in Slots, b \in Slots : a = active /\ b = 1 - a /\ a = 1 - b /\ a # b /\ \A j \in Slots : j = a \/ j = b
  BY SlotFacts, Constants_
<1>2. UNCHANGED <<sstables, phase, wal_files, active, memtable, flusher, flush_num,
                  readers_at_level, sstable_counter, curr_max_level, merge, awake, doomed, unlinked, writes, lost,
                  trusted, starts, crashes>>
  BY DEF OpenLog, memVars, flushVars, tableVars, mergeVars, lives
<1>3. Works /\ Works' /\ Live /\ Live' /\ phase # "closing" /\ writer = "open" /\ writer' = "run"
  BY <1>2, WorksIsLoaded DEF OpenLog, Works, Live
<1>4. PICK c \in Nat, N \in Nat : c = wal_log_counter /\ N = Len(writes)
  BY KnownFacts DEF Types, LogTypes
<1>5. c \notin DOMAIN logs
  <2>1. CASE phase # "log2"
    <3>1. \A n \in DOMAIN logs : n < c
      BY <1>3, <1>4, <2>1 DEF PathInv
    <3>2. ~(c < c)
      OBVIOUS
    <3>3. QED
      BY <3>1, <3>2
  <2>2. CASE phase = "log2"
    BY <1>3, <1>4, <2>2 DEF Log2Inv
  <2>3. QED
    BY <2>1, <2>2
<1>6. file[a] < 0 /\ buffer[a] = <<>>
  BY <1>1, <1>3 DEF PathInv, FileInv
<1>7. DOMAIN logs' = DOMAIN logs \union {c} /\ logs'[c] = <<>> /\ \A n \in DOMAIN logs : logs'[n] = logs[n]
  <2>1. logs' = Opened(logs, c, <<>>)
    BY <1>4 DEF OpenLog
  <2>2. QED
    BY <1>5, <2>1 DEF Opened
<1>8. /\ file'[a] = c /\ filepath'[a] = c /\ buffer'[a] = <<>> /\ wal_log_counter' = c + 1
      /\ file'[b] = file[b] /\ filepath'[b] = filepath[b] /\ buffer'[b] = buffer[b]
      /\ file' \in [Slots -> Nat \union {NULL, Closed}] /\ filepath' \in [Slots -> Nat \union {NULL}]
      /\ buffer' \in [Slots -> Seq(1..N)]
  <2>1. /\ file' = [file EXCEPT ![a] = c] /\ filepath' = [filepath EXCEPT ![a] = c]
        /\ buffer' = [buffer EXCEPT ![a] = <<>>] /\ wal_log_counter' = c + 1
    BY <1>1, <1>4 DEF OpenLog
  <2>2. /\ file \in [Slots -> Nat \union {NULL, Closed}] /\ filepath \in [Slots -> Nat \union {NULL}]
        /\ buffer \in [Slots -> Seq(1..N)]
    BY <1>4 DEF Types, LogTypes
  <2>3. <<>> \in Seq(1..N)
    OBVIOUS
  <2>4. QED
    BY <1>1, <2>1, <2>2, <2>3
<1>9. file[b] # c /\ (file[b] >= 0 => file[b] \in DOMAIN logs)
  <2>1. file[b] >= 0 => file[b] \in DOMAIN logs
    BY <1>3 DEF FileInv
  <2>2. file[b] = c => file[b] >= 0
    BY <1>4
  <2>3. QED
    BY <1>5, <2>1, <2>2
<1>10. \A j \in Slots : buffer'[j] = buffer[j]
  BY <1>1, <1>6, <1>8
<1>11. /\ \A n \in DOMAIN logs : \A r : r \in Records(n)' <=> r \in Records(n)
       /\ \A r : ~(r \in Records(c)')
  BY <1>7, NoRecords, RecordsIs
<1>12. /\ \A n \in DOMAIN logs : \A r : r \in Rec(n)' <=> r \in Rec(n)
       /\ \A r : ~(r \in Rec(c)')
  <2>1. (a = 0 /\ b = 1) \/ (a = 1 /\ b = 0)
    BY <1>1, Constants_
  <2>2. \A r : r \notin ToSet(buffer[a]) /\ r \notin ToSet(buffer'[a])
    BY <1>6, <1>8, NoRecords
  <2>3. buffer'[b] = buffer[b] /\ file'[b] = file[b] /\ file[b] # c
    BY <1>8, <1>9
  <2>4. QED
    BY <1>11, <2>1, <2>2, <2>3, RecIs
<1>13. Known' = Known
  BY <1>2 DEF Known
<1>14. TablesKept
  BY <1>2, <1>3, ExtendsSame DEF TablesKept, Loaded
<1>15. TableInv' /\ SameAnswers /\ TableTypes'
  BY <1>14, KeptTables, TablesKeptTypes
<1>16. Types'
  <2>1. LogTypes'
    <3>1. \A n \in DOMAIN logs' : n \in Nat /\ logs'[n] \in Seq(-1..N)
      <4>1. <<>> \in Seq(-1..N)
        OBVIOUS
      <4>2. \A n \in DOMAIN logs : n \in Nat /\ logs[n] \in Seq(-1..N)
        BY <1>4 DEF Types, LogTypes
      <4>3. QED
        BY <1>4, <1>7, <4>1, <4>2
    <3>2. wal_log_counter' \in Nat
      BY <1>4, <1>8
    <3>3. QED
      BY <1>2, <1>4, <1>8, <3>1, <3>2 DEF Types, LogTypes
  <2>2. ControlTypes' /\ WriteTypes'
    BY <1>2, <1>3 DEF Types, ControlTypes, WriteTypes
  <2>3. QED
    BY <1>15, <2>1, <2>2 DEF Types
<1>17. LogInv'
  <2>1. \A m, n \in DOMAIN logs' : m < n => \A r \in Rec(m)', s \in Rec(n)' : r < s
    BY <1>7, <1>12 DEF LogInv
  <2>2. \A n \in DOMAIN logs' : \A r \in Rec(n)' : r \in Known'
    BY <1>7, <1>12, <1>13 DEF LogInv
  <2>3. \A n \in DOMAIN logs', i \in Slots : \A r \in Records(n)' : r \notin ToSet(buffer'[i])
    BY <1>7, <1>10, <1>11 DEF LogInv
  <2>4. 0 \in Slots /\ 1 \in Slots
    BY Constants_
  <2>5. QED
    BY <1>10, <1>13, <2>1, <2>2, <2>3, <2>4 DEF LogInv
<1>18. FileInv'
  <2>1. \A i \in Slots : file'[i] < 0 => buffer'[i] = <<>>
    BY <1>1, <1>3, <1>8 DEF FileInv
  <2>2. \A i \in Slots : file'[i] >= 0 => file'[i] \in DOMAIN logs'
    BY <1>1, <1>7, <1>8, <1>9
  <2>3. file'[0] # file'[1]
    <3>1. (a = 0 /\ b = 1) \/ (a = 1 /\ b = 0)
      BY <1>1, Constants_
    <3>2. QED
      BY <1>8, <1>9, <3>1
  <2>4. QED
    BY <1>2, <1>3, <2>1, <2>2, <2>3 DEF FileInv
<1>19. PathInv'
  <2>1. writer' # "open" /\ ~(file'[a] < 0)
    BY <1>3, <1>4, <1>8
  <2>2. flusher \in {"idle", "remove"} <=> file'[b] < 0
    BY <1>1, <1>3, <1>8 DEF PathInv
  <2>3. phase # "log2" => \A n \in DOMAIN logs' : n <= c /\ n < c + 1
    <3>1. ASSUME phase # "log2", NEW n \in DOMAIN logs'
          PROVE  n <= c /\ n < c + 1
      <4>1. CASE n \in DOMAIN logs
        <5>1. n < c /\ n \in Nat
          BY <1>3, <1>4, <3>1, <4>1, RecFacts DEF PathInv
        <5>2. QED
          BY <1>4, <5>1
      <4>2. CASE n = c
        BY <1>4, <4>2
      <4>3. QED
        BY <1>7, <4>1, <4>2
    <3>2. QED
      BY <3>1
  <2>4. \A i \in Slots : filepath[i] < c
    BY <1>3, <1>4 DEF PathInv
  <2>5. \A i \in Slots : file'[1 - i] >= 0 => filepath'[i] # file'[1 - i]
    <3>1. filepath'[a] # file'[b]
      BY <1>8, <1>9
    <3>2. filepath'[b] # file'[a]
      <4>1. filepath[b] < c /\ filepath[b] \in Int
        BY <2>4, LogNumbers
      <4>2. QED
        BY <1>4, <1>8, <4>1
    <3>3. QED
      BY <1>1, <3>1, <3>2
  <2>6. \A i \in Slots : filepath'[i] < c + 1
    <3>1. filepath[b] < c /\ filepath[b] \in Int
      BY <2>4, LogNumbers
    <3>2. filepath'[b] < c + 1 /\ filepath'[a] < c + 1
      BY <1>4, <1>8, <3>1
    <3>3. QED
      BY <1>1, <3>2
  <2>7. \A i \in Slots : file'[i] >= 0 /\ filepath'[i] \in DOMAIN logs' =>
          filepath'[i] = file'[i] \/ logs'[filepath'[i]] = <<>>
    <3>1. filepath'[a] = file'[a]
      BY <1>8
    <3>2. ASSUME file[b] >= 0, filepath[b] \in DOMAIN logs'
          PROVE  filepath[b] = file[b] \/ logs'[filepath[b]] = <<>>
      <4>1. filepath[b] \in DOMAIN logs => filepath[b] = file[b] \/ logs[filepath[b]] = <<>>
        BY <1>3, <3>2 DEF PathInv
      <4>2. filepath[b] \in DOMAIN logs => logs'[filepath[b]] = logs[filepath[b]]
        BY <1>7
      <4>3. QED
        BY <1>7, <3>2, <4>1, <4>2
    <3>3. QED
      BY <1>1, <1>8, <3>1, <3>2
  <2>8. QED
    BY <1>1, <1>2, <1>3, <1>8, <2>1, <2>2, <2>3, <2>5, <2>6, <2>7 DEF PathInv
<1>20. Log2Inv'
  <2>1. SUFFICES ASSUME phase = "log2"
                 PROVE  Log2Inv'
    BY <1>2 DEF Log2Inv
  <2>2. /\ active = 1 /\ filepath[1] = NULL /\ wal_log_counter = 1
    BY <1>3, <2>1, SlotFacts, Constants_ DEF Log2Inv
  <2>3. a = 1 /\ b = 0 /\ c = 1
    BY <1>1, <1>4, <2>2
  <2>4. Second' = Second
    BY <1>2 DEF Second
  <2>5. /\ Len(wal_files) = 1 /\ Second \in DOMAIN logs /\ Second > 1
        /\ \A n \in DOMAIN logs : n <= Second
        /\ \A i \in DOMAIN logs[Second] : logs[Second][i] > 0
        /\ file[0] \in {Closed} \union (DOMAIN logs \ {1, Second}) /\ filepath[0] = NULL
        /\ \A i \in Slots : buffer[i] = <<>>
        /\ active = 1 => memtable[1] = Empty
    BY <2>1 DEF Log2Inv
  <2>6. Second \in DOMAIN logs' /\ logs'[Second] = logs[Second]
    BY <1>7, <2>5
  <2>7. \A n \in DOMAIN logs' : n <= Second
    <3>1. Second \in Nat
      BY <2>5, RecFacts
    <3>2. c <= Second
      BY <2>3, <2>5, <3>1
    <3>3. QED
      BY <1>7, <2>5, <3>2
  <2>8. file'[1] = 1 /\ filepath'[1] = 1 /\ wal_log_counter' = 2 /\ logs'[1] = <<>> /\ filepath'[0] = NULL
        /\ file'[0] \in {Closed} \union (DOMAIN logs' \ {1, Second}) /\ \A i \in Slots : buffer'[i] = <<>>
    BY <1>7, <1>8, <1>10, <2>3, <2>5, SMTT(30)
  <2>9. QED
    BY <1>2, <1>3, <2>2, <2>4, <2>5, <2>6, <2>7, <2>8 DEF Log2Inv
<1>21. Held(a)' = Held(a)
  <2>1. Held(a) = {}
    <3>1. ~(file[a] >= 0)
      BY <1>6, LogNumbers
    <3>2. QED
      BY <3>1 DEF Held
  <2>2. Held(a)' = Rec(c)' \/ Held(a)' = {}
    BY <1>8 DEF Held
  <2>3. QED
    BY <1>12, <2>1, <2>2
<1>22. Held(b)' = Held(b)
  BY <1>8, <1>9, <1>12, HeldSame
<1>23. Pending' = Pending
  <2>1. CASE phase # "log2"
    BY <1>2, <2>1 DEF Pending
  <2>2. CASE phase = "log2"
    <3>1. PICK n \in DOMAIN logs : n = Second
      BY <2>2 DEF Log2Inv
    <3>2. Records(n)' = Records(n) /\ Second' = n
      BY <1>2, <1>11, <3>1 DEF Second
    <3>3. QED
      BY <1>2, <2>2, <3>1, <3>2 DEF Pending
  <2>3. QED
    BY <2>1, <2>2
<1>24. Filling' <=> Filling
  BY <1>2 DEF Filling
<1>25. MemInv'
  BY <1>1, <1>2, <1>3, <1>21, <1>22, <1>24 DEF MemInv
<1>26. ServeInv'
  BY <1>2, <1>3, <1>13, <1>15, <1>23 DEF ServeInv, SameAnswers
<1>27. NextInv'
  BY <1>1, <1>2, <1>3, <1>13, <1>21, <1>23 DEF NextInv
<1>28. Unpublished' = Unpublished
  <2>1. \A x : x \in Unpublished' <=> x \in Unpublished
    BY <1>2, <1>10, UnpublishedIs, Constants_
  <2>2. QED
    BY <2>1
<1>29. Clearing' = Clearing
  BY <1>1, <1>2, <1>8 DEF Clearing
<1>30. DurableInv'
  <2>1. ASSUME NEW k \in Keys, ~Logged(k, DOMAIN logs \ Clearing)'
        PROVE  ListedFrom(0, k)' = AnswerIn(writes, NewestIn(writes, k, Known \ Unpublished))
    <3>1. ~Logged(k, DOMAIN logs \ Clearing)
      BY <1>2, <1>7, <1>11, <1>29, <2>1 DEF Logged
    <3>2. QED
      BY <1>3, <1>15, <3>1 DEF DurableInv, SameAnswers
  <2>2. QED
    BY <1>2, <1>13, <1>28, <2>1 DEF DurableInv
<1>31. FirstInv'
  <2>1. SUFFICES ASSUME starts = 1
                 PROVE  /\ \A j \in Slots : file'[j] >= 0 => filepath'[j] = file'[j]
                        /\ \A n \in DOMAIN logs' : n \in {file'[0], file'[1]} \union Clearing
                        /\ \A n \in DOMAIN logs' \ Clearing : \A r \in Rec(n)', x \in Known :
                             x > r => \E m \in DOMAIN logs' \ Clearing : x \in Rec(m)'
    BY <1>2, <1>3, <1>13, <1>29 DEF FirstInv
  <2>2. /\ \A j \in Slots : file[j] >= 0 => filepath[j] = file[j]
        /\ \A n \in DOMAIN logs : n \in {file[0], file[1]} \union Clearing
        /\ \A n \in DOMAIN logs \ Clearing : \A r \in Rec(n), x \in Known :
             x > r => \E m \in DOMAIN logs \ Clearing : x \in Rec(m)
    BY <1>3, <2>1 DEF FirstInv
  <2>3. \A j \in Slots : file'[j] >= 0 => filepath'[j] = file'[j]
    BY <1>1, <1>8, <2>2
  <2>4. ASSUME NEW n \in DOMAIN logs'
        PROVE  n \in {file'[0], file'[1]} \union Clearing
    <3>1. (a = 0 /\ b = 1) \/ (a = 1 /\ b = 0)
      BY <1>1, Constants_
    <3>2. CASE n = c
      BY <1>8, <3>1, <3>2
    <3>3. CASE n \in DOMAIN logs
      <4>1. n # file[a]
        <5>1. n \in Nat /\ file[a] < 0
          BY <1>6, <3>3, RecFacts
        <5>2. ~(n < 0)
          BY <5>1
        <5>3. QED
          BY <5>1, <5>2
      <4>2. n = file[b] \/ n \in Clearing
        BY <2>2, <3>1, <3>3, <4>1
      <4>3. QED
        BY <1>8, <3>1, <4>2
    <3>4. QED
      BY <1>7, <3>2, <3>3
  <2>5. ASSUME NEW n \in DOMAIN logs' \ Clearing, NEW r \in Rec(n)', NEW x \in Known, x > r
        PROVE  \E m \in DOMAIN logs' \ Clearing : x \in Rec(m)'
    <3>1. n \in DOMAIN logs \ Clearing /\ r \in Rec(n)
      BY <1>7, <1>12, <2>5
    <3>2. PICK m \in DOMAIN logs \ Clearing : x \in Rec(m)
      BY <2>2, <2>5, <3>1
    <3>3. QED
      BY <1>7, <1>12, <3>2
  <2>6. QED
    BY <2>3, <2>4, <2>5
<1>32. QED
  BY <1>3, <1>15, <1>16, <1>17, <1>18, <1>19, <1>20, <1>25, <1>26, <1>27, <1>30, <1>31, LiveAll

LEMMA SwapStep ==
  ASSUME AllInv, Swap
  PROVE  AllInv'
<1> USE DEF AllInv, FileInvs, MemInvs
<1>1. PICK a \in Slots, b \in Slots : a = active /\ b = 1 - a /\ a = 1 - b /\ a # b /\ \A j \in Slots : j = a \/ j = b
  BY SlotFacts, Constants_
<1>2. UNCHANGED <<logs, sstables, phase, wal_files, memtable, file, filepath, buffer, wal_log_counter, flush_num,
                  readers_at_level, sstable_counter, curr_max_level, merge, awake, doomed, unlinked, writes, lost,
                  trusted, starts, crashes>>
  BY DEF Swap, disk, walVars, tableVars, mergeVars, lives
<1>3. Works /\ Works' /\ Live /\ Live' /\ phase # "closing" /\ writer = "full" /\ writer' = "open" /\ active' = b
      /\ flusher = "idle" /\ flusher' = "pending"
  BY <1>1, <1>2, WorksIsLoaded DEF Swap, Works, Live
<1>4. file[b] < 0 /\ ~(file[a] < 0) /\ file[a] >= 0 /\ ~(file[b] >= 0)
  BY <1>1, <1>3, LogNumbers DEF PathInv
<1>5. \A k \in Keys : memtable[b][k] = 0
  BY <1>1, <1>3 DEF MemInv, Filling
<1>6. /\ \A n : Records(n)' = Records(n) /\ Rec(n)' = Rec(n)
      /\ \A j \in Slots : Held(j)' = Held(j)
      /\ Known' = Known /\ Pending' = Pending /\ Second' = Second
  BY <1>2 DEF Records, Rec, Held, Known, Pending, Second
<1>7. Clearing = {} /\ Clearing' = {}
  BY <1>3 DEF Clearing
<1>8. Unpublished' = Unpublished
  <2>1. \A x : x \in Unpublished' <=> x \in Unpublished
    BY <1>2, <1>3, UnpublishedIs
  <2>2. QED
    BY <2>1
<1>9. TablesKept
  BY <1>2, <1>3, ExtendsSame DEF TablesKept, Loaded
<1>10. TableInv' /\ SameAnswers /\ TableTypes'
  BY <1>9, KeptTables, TablesKeptTypes
<1>11. Types'
  <2>1. LogTypes'
    BY <1>2 DEF Types, LogTypes
  <2>2. ControlTypes' /\ WriteTypes'
    BY <1>1, <1>2, <1>3 DEF Types, ControlTypes, WriteTypes
  <2>3. QED
    BY <1>10, <2>1, <2>2 DEF Types
<1>12. LogInv'
  BY <1>2, <1>6 DEF LogInv
<1>13. FileInv'
  BY <1>2, <1>3 DEF FileInv
<1>14. PathInv'
  <2>1. 1 - active' = a
    BY <1>1, <1>3
  <2>2. phase # "stopping"
    BY <1>3 DEF PathInv
  <2>3. QED
    BY <1>2, <1>3, <1>4, <2>1, <2>2 DEF PathInv
<1>15. Log2Inv'
  <2>1. SUFFICES ASSUME phase = "log2"
                 PROVE  Log2Inv'
    BY <1>2 DEF Log2Inv
  <2>2. /\ Len(wal_files) = 1 /\ Second \in DOMAIN logs /\ Second > 1
        /\ \A n \in DOMAIN logs : n <= Second
        /\ \A i \in DOMAIN logs[Second] : logs[Second][i] > 0
        /\ file[0] \in {Closed} \union (DOMAIN logs \ {1, Second}) /\ filepath[0] = NULL
        /\ \A i \in Slots : buffer[i] = <<>>
        /\ active = 0 /\ file[1] = NULL /\ filepath[1] = NULL /\ wal_log_counter = 1 /\ 1 \notin DOMAIN logs
    BY <1>3, <2>1 DEF Log2Inv
  <2>3. a = 0 /\ b = 1
    BY <1>1, <2>2
  <2>4. memtable'[1] = Empty
    <3>1. memtable[b] \in [Keys -> 0..Len(writes)]
      BY DEF Types, LogTypes
    <3>2. memtable[b] = [k \in Keys |-> 0]
      BY <1>5, <3>1
    <3>3. QED
      BY <1>2, <2>3, <3>2 DEF Empty
  <2>5. QED
    BY <1>2, <1>3, <1>6, <2>2, <2>3, <2>4 DEF Log2Inv
<1>16. MemInv'
  <2>1. Held(b) = {}
    BY <1>4 DEF Held
  <2>2. \A k : NewestIn(writes, k, {}) = 0
    BY NewestNone
  <2>3. ~Filling /\ Filling' /\ 1 - active' = a
    BY <1>1, <1>3 DEF Filling
  <2>4. \A k \in Keys : memtable[a][k] = NewestIn(writes, k, Held(a))
    BY <1>1, <1>3 DEF MemInv
  <2>5. \A k \in Keys : /\ memtable'[active'][k] = NewestIn(writes', k, Held(b)')
                        /\ memtable'[1 - active'][k] = NewestIn(writes', k, Held(a)')
    BY <1>2, <1>3, <1>5, <1>6, <2>1, <2>2, <2>3, <2>4
  <2>6. QED
    BY <1>3, <2>3, <2>5 DEF MemInv
<1>17. ServeInv'
  <2>1. 1 - active' = a
    BY <1>1, <1>3
  <2>2. \A k \in Keys :
          \/ NewestIn(writes, k, Pending) # 0 /\ NewestIn(writes, k, Known) = NewestIn(writes, k, Pending)
          \/ /\ NewestIn(writes, k, Pending) = 0
             /\ memtable[a][k] # 0 => NewestIn(writes, k, Known) = memtable[a][k]
             /\ memtable[a][k] = 0 /\ memtable[b][k] = 0 =>
                  ListedFrom(0, k) = AnswerIn(writes, NewestIn(writes, k, Known))
    BY <1>1, <1>3 DEF ServeInv
  <2>3. \A k \in Keys :
          \/ NewestIn(writes', k, Pending') # 0 /\ NewestIn(writes', k, Known') = NewestIn(writes', k, Pending')
          \/ /\ NewestIn(writes', k, Pending') = 0
             /\ memtable'[b][k] = 0
             /\ memtable'[a][k] # 0 => NewestIn(writes', k, Known') = memtable'[a][k]
             /\ memtable'[a][k] = 0 /\ memtable'[b][k] = 0 =>
                  ListedFrom(0, k)' = AnswerIn(writes', NewestIn(writes', k, Known'))
    BY <1>2, <1>5, <1>6, <1>10, <2>2 DEF SameAnswers
  <2>4. QED
    BY <1>3, <2>1, <2>3 DEF ServeInv
<1>18. NextInv'
  <2>1. ASSUME NEW k \in Keys, NEW x \in Known, writes[x].key = k, memtable[a][k] # 0, x > memtable[a][k]
        PROVE  x \in Pending
    <3>1. CASE phase = "log2"
      BY <1>1, <1>3, <2>1, <3>1 DEF NextInv
    <3>2. CASE phase # "log2"
      <4>1. Pending = {} /\ NewestIn(writes, k, {}) = 0
        BY <3>2, NewestNone DEF Pending
      <4>2. NewestIn(writes, k, Known) = memtable[a][k]
        BY <1>1, <1>3, <2>1, <4>1 DEF ServeInv
      <4>3. PICK N \in Nat : N = Len(writes)
        BY KnownFacts
      <4>4. \A y \in Known : y \in 1..N
        BY <4>3, KnownFacts
      <4>5. x <= NewestIn(writes, k, Known) /\ NewestIn(writes, k, Known) \in 0..N
        BY <2>1, <4>4, NewestFacts
      <4>6. x \in Nat
        BY <4>4
      <4>7. QED
        BY <2>1, <4>2, <4>5, <4>6
    <3>3. QED
      BY <3>1, <3>2
  <2>2. 1 - active' = a
    BY <1>1, <1>3
  <2>3. QED
    BY <1>2, <1>3, <1>5, <1>6, <2>1, <2>2 DEF NextInv
<1>19. DurableInv'
  <2>1. \A k \in Keys : Logged(k, DOMAIN logs)' <=> Logged(k, DOMAIN logs)
    BY <1>2, <1>6 DEF Logged
  <2>2. DOMAIN logs \ {} = DOMAIN logs /\ DOMAIN logs' \ {} = DOMAIN logs'
    OBVIOUS
  <2>3. \A k \in Keys : ~Logged(k, DOMAIN logs) =>
          ListedFrom(0, k) = AnswerIn(writes, NewestIn(writes, k, Known \ Unpublished))
    BY <1>3, <1>7, <2>2 DEF DurableInv
  <2>4. \A k \in Keys : ~Logged(k, DOMAIN logs)' =>
          ListedFrom(0, k)' = AnswerIn(writes', NewestIn(writes', k, Known' \ Unpublished'))
    BY <1>2, <1>6, <1>8, <1>10, <2>1, <2>3 DEF SameAnswers
  <2>5. QED
    BY <1>7, <2>2, <2>4 DEF DurableInv
<1>20. FirstInv'
  BY <1>2, <1>3, <1>6, <1>7 DEF FirstInv
<1>21. QED
  BY <1>3, <1>10, <1>11, <1>12, <1>13, <1>14, <1>15, <1>16, <1>17, <1>18, <1>19, <1>20, LiveAll

(* The newest of a set when one write is added.                            *)
NewestGrows(W, V, S, k, w) ==
  /\ NewestIn(V, k, S) = NewestIn(W, k, S)
  /\ NewestIn(V, k, S \union {w}) = IF V[w].key = k THEN w ELSE NewestIn(W, k, S)

LEMMA NewestWritten ==
  ASSUME NEW N \in Nat, NEW w \in Nat, w = N + 1, NEW W, NEW V, \A x \in 1..N : V[x] = W[x],
         NEW S, \A x \in S : x \in 1..N, NEW k
  PROVE  NewestGrows(W, V, S, k, w)
<1>1. w = N + 1
  OBVIOUS
<1>2. w \in 1..w /\ w \notin S /\ (\A x \in 1..N : x \in 1..w /\ x < w) /\ \A x \in 1..w : x = w \/ x \in 1..N
  <2>1. w \notin 1..N
    BY <1>1
  <2>2. w \notin S
    BY <2>1
  <2>3. QED
    BY <1>1, <2>2
<1>3. PICK T : T = S \union {w}
  OBVIOUS
<1>4. (\A x \in T : x \in 1..w) /\ \A x \in S : x \in 1..w
  BY <1>2, <1>3
<1>5. NewestIn(V, k, S) = NewestIn(W, k, S)
  BY NewestSame
<1>6. ASSUME V[w].key = k
      PROVE  NewestIn(V, k, T) = w
  <2>1. w \in T /\ \A x \in T : V[x].key = k => x <= w
    BY <1>2, <1>3
  <2>2. PICK R : R = T
    OBVIOUS
  <2>3. (\A x \in R : x \in 1..w) /\ w \in R
    BY <1>4, <2>1, <2>2
  <2>4. NewestIn(V, k, R) \in 0..w
    BY <2>3, NewestFacts
  <2>5. \A x \in R : V[x].key = k => x <= NewestIn(V, k, R)
    BY <2>3, NewestFacts
  <2>6. w <= NewestIn(V, k, R)
    BY <1>6, <2>3, <2>5
  <2>7. QED
    BY <2>2, <2>4, <2>6
<1>7. ASSUME V[w].key # k
      PROVE  NewestIn(V, k, T) = NewestIn(W, k, S)
  <2>1. \A x \in 1..w : (x \in S /\ W[x].key = k) <=> (x \in T /\ V[x].key = k)
    BY <1>2, <1>3, <1>7
  <2>2. QED
    BY <1>4, <2>1, NewestSame
<1>8. QED
  BY <1>3, <1>5, <1>6, <1>7 DEF NewestGrows

LEMMA WriteStep ==
  ASSUME AllInv, NEW k0 \in Keys, NEW tombstone \in BOOLEAN, Write(k0, tombstone)
  PROVE  AllInv'
<1> USE DEF AllInv, FileInvs, MemInvs
<1>1. PICK a \in Slots, b \in Slots : a = active /\ b = 1 - a /\ a = 1 - b /\ a # b /\ \A j \in Slots : j = a \/ j = b
  BY SlotFacts, Constants_
<1>2. UNCHANGED <<logs, sstables, phase, wal_files, active, file, filepath, wal_log_counter, flusher, flush_num,
                  readers_at_level, sstable_counter, curr_max_level, merge, awake, doomed, unlinked, lost,
                  trusted, starts, crashes>>
  BY DEF Write, disk, flushVars, tableVars, mergeVars, lives
<1>3. Works /\ Works' /\ Live /\ Live' /\ phase = "up" /\ phase' = "up" /\ writer = "run" /\ writer' \in {"run", "full"}
  BY <1>2, WorksIsLoaded DEF Write, Works, Live
<1>4. PICK N \in Nat, w \in Nat : N = Len(writes) /\ w = N + 1 /\ N < MaxWrites
  <2>1. Len(writes) \in Nat /\ Len(writes) + 1 \in Nat /\ Len(writes) < MaxWrites
    BY <1>3, KnownFacts DEF Write
  <2>2. QED
    BY <2>1
<1>5. /\ writes \in Seq([key : Keys, tombstone : BOOLEAN]) /\ memtable \in [Slots -> [Keys -> 0..N]]
      /\ buffer \in [Slots -> Seq(1..N)]
  BY <1>4 DEF Types, WriteTypes, LogTypes
<1>6. /\ writes' = Append(writes, [key |-> k0, tombstone |-> tombstone])
      /\ memtable' = [memtable EXCEPT ![a][k0] = w]
      /\ buffer' = [buffer EXCEPT ![a] = Append(buffer[a], w)]
  BY <1>1, <1>4 DEF Write
<1>7. /\ writes' \in Seq([key : Keys, tombstone : BOOLEAN]) /\ Len(writes') = w /\ DOMAIN writes' = 1..w
      /\ writes'[w].key = k0 /\ \A x \in 1..N : writes'[x] = writes[x]
  <2>1. PICK e \in [key : Keys, tombstone : BOOLEAN] : e = [key |-> k0, tombstone |-> tombstone]
    OBVIOUS
  <2>2. PICK W : W = writes
    OBVIOUS
  <2>3. W \in Seq([key : Keys, tombstone : BOOLEAN]) /\ Len(W) = N /\ writes' = Append(W, e)
    BY <1>4, <1>5, <1>6, <2>1, <2>2
  <2>4. /\ Append(W, e) \in Seq([key : Keys, tombstone : BOOLEAN]) /\ Len(Append(W, e)) = Len(W) + 1
        /\ (\A x \in 1..Len(W) : Append(W, e)[x] = W[x]) /\ Append(W, e)[Len(W) + 1] = e
    BY <2>3, AppendProperties
  <2>5. QED
    BY <1>4, <2>1, <2>2, <2>3, <2>4
<1>8. /\ memtable'[b] = memtable[b] /\ memtable'[a][k0] = w
      /\ \A k \in Keys : k # k0 => memtable'[a][k] = memtable[a][k]
      /\ memtable' \in [Slots -> [Keys -> 0..w]]
  <2>1. PICK f : f = [memtable[a] EXCEPT ![k0] = w]
    OBVIOUS
  <2>2. memtable' = [memtable EXCEPT ![a] = f]
    BY <1>6, <2>1
  <2>3. \A x \in 0..N : x \in 0..w
    BY <1>4
  <2>4. memtable[a] \in [Keys -> 0..w] /\ memtable[b] \in [Keys -> 0..w]
    BY <1>5, <2>3
  <2>5. w \in 0..w
    BY <1>4
  <2>6. f \in [Keys -> 0..w] /\ f[k0] = w /\ \A k \in Keys : k # k0 => f[k] = memtable[a][k]
    BY <2>1, <2>4, <2>5
  <2>7. memtable'[a] = f /\ memtable'[b] = memtable[b] /\ DOMAIN memtable' = Slots
    BY <1>1, <1>5, <2>2
  <2>8. \A j \in Slots : memtable'[j] \in [Keys -> 0..w]
    BY <1>1, <2>4, <2>6, <2>7
  <2>9. memtable' \in [Slots -> [Keys -> 0..w]]
    BY <1>5, <2>2, <2>8
  <2>10. QED
    BY <2>6, <2>7, <2>9
<1>9. /\ buffer'[b] = buffer[b] /\ buffer'[a] = Append(buffer[a], w) /\ buffer' \in [Slots -> Seq(1..w)]
      /\ ToSet(buffer'[a]) = ToSet(buffer[a]) \union {w} /\ Distinct(buffer'[a])
  <2>1. (1..N) \subseteq (1..w) /\ w \in 1..w /\ w \notin 1..N
    BY <1>4
  <2>2. PICK s \in Seq(1..w) : s = buffer[a] /\ \A x \in ToSet(s) : x \in 1..N
    <3>1. buffer[a] \in Seq(1..N)
      BY <1>5
    <3>2. buffer[a] \in Seq(1..w)
      BY <2>1, <3>1, SeqMonotonic
    <3>3. \A x \in ToSet(buffer[a]) : x \in 1..N
      BY <3>1, SetOfSeq
    <3>4. QED
      BY <3>2, <3>3
  <2>3. buffer[b] \in Seq(1..w)
    BY <1>5, <2>1, SeqMonotonic
  <2>4. PICK t \in Seq(1..w) : t = Append(s, w)
    <3>1. Append(s, w) \in Seq(1..w)
      BY <2>1, AppendProperties
    <3>2. QED
      BY <3>1
  <2>5. ToSet(t) = ToSet(s) \union {w}
    BY <2>1, <2>4, SetOfAppend
  <2>6. buffer' = [buffer EXCEPT ![a] = t]
    BY <1>6, <2>2, <2>4
  <2>7. buffer'[a] = t /\ buffer'[b] = buffer[b] /\ DOMAIN buffer' = Slots
    BY <1>1, <1>5, <2>6
  <2>8. buffer' \in [Slots -> Seq(1..w)]
    BY <1>1, <1>5, <2>3, <2>6, <2>7
  <2>9. Distinct(t)
    <3>1. Distinct(s)
      BY <2>2 DEF LogInv, Distinct
    <3>2. PICK c \in Nat : c = Len(s)
      OBVIOUS
    <3>3. DOMAIN s = 1..c /\ DOMAIN t = 1..(c + 1) /\ t[c + 1] = w /\ \A i \in 1..c : t[i] = s[i]
      BY <2>1, <2>4, <3>2, AppendProperties
    <3>4. \A i \in 1..(c + 1) : i \in 1..c \/ i = c + 1
      BY <3>2
    <3>5. \A i \in 1..c : t[i] # w
      BY <2>1, <2>2, <3>3 DEF ToSet
    <3>6. \A i, j \in 1..c : i # j => t[i] # t[j]
      BY <3>1, <3>3 DEF Distinct
    <3>7. \A i, j \in 1..(c + 1) : i # j => t[i] # t[j]
      BY <3>3, <3>4, <3>5, <3>6
    <3>8. QED
      BY <3>3, <3>7 DEF Distinct
  <2>10. QED
    BY <2>2, <2>4, <2>5, <2>7, <2>8, <2>9
<1>10. PICK f \in DOMAIN logs : f = file[a] /\ f >= 0 /\ f \in Nat /\ (\A n \in DOMAIN logs : n <= f) /\ file[b] # f
  <2>1. ~(file[a] < 0)
    BY <1>1, <1>3 DEF PathInv
  <2>2. file[a] >= 0 /\ file[a] \in Nat
    BY <2>1, LogNumbers
  <2>3. file[a] \in DOMAIN logs
    BY <1>3, <2>2 DEF FileInv
  <2>4. \A n \in DOMAIN logs : n <= file[a]
    BY <1>1, <1>3 DEF PathInv
  <2>5. file[b] # file[a]
    <3>1. (a = 0 /\ b = 1) \/ (a = 1 /\ b = 0)
      BY <1>1, Constants_
    <3>2. file[0] >= 0 => file[0] # file[1]
      BY <1>3 DEF FileInv
    <3>3. QED
      BY <2>2, <3>1, <3>2
  <2>6. QED
    BY <2>2, <2>3, <2>4, <2>5
<1>11. /\ \A n : Records(n)' = Records(n)
       /\ \A n, r : r \in Rec(n)' <=> r \in Rec(n) \/ (n = f /\ r = w)
  <2>1. \A n : Records(n)' = Records(n)
    BY <1>2 DEF Records
  <2>2. (a = 0 /\ b = 1) \/ (a = 1 /\ b = 0)
    BY <1>1, Constants_
  <2>3. /\ ToSet(buffer'[a]) = ToSet(buffer[a]) \union {w} /\ ToSet(buffer'[b]) = ToSet(buffer[b])
        /\ file' = file /\ file[a] = f
    BY <1>2, <1>9, <1>10
  <2>4. /\ \A n, r : r \in Rec(n) <=> \/ r \in Records(n)
                                      \/ file[a] = n /\ r \in ToSet(buffer[a])
                                      \/ file[b] = n /\ r \in ToSet(buffer[b])
        /\ \A n, r : r \in Rec(n)' <=> \/ r \in Records(n)'
                                       \/ file'[a] = n /\ r \in ToSet(buffer'[a])
                                       \/ file'[b] = n /\ r \in ToSet(buffer'[b])
    BY <2>2, RecIs
  <2>5. ASSUME NEW n, NEW r
        PROVE  r \in Rec(n)' <=> r \in Rec(n) \/ (n = f /\ r = w)
    BY <2>1, <2>3, <2>4
  <2>6. QED
    BY <2>1, <2>5
<1>12. /\ \A x \in Known : x \in 1..N
       /\ \A x : x \in Known' <=> x \in Known \/ x = w
       /\ w \notin Known /\ w > 0 /\ \A x \in 1..N : x < w
  <2>1. \A x \in Known : x \in 1..N
    BY <1>4, KnownFacts
  <2>2. \A x : x \in Known <=> x \in 1..N /\ x \notin lost
    BY <1>4, KnownFacts
  <2>3. \A x : x \in Known' <=> x \in 1..w /\ x \notin lost
    BY <1>2, <1>7 DEF Known
  <2>4. \A x : x \in 1..w <=> x \in 1..N \/ x = w
    BY <1>4
  <2>5. w \notin 1..N
    BY <1>4
  <2>6. w \notin lost
    BY <1>4, <2>5 DEF Types, WriteTypes
  <2>7. w > 0 /\ \A x \in 1..N : x < w
    BY <1>4
  <2>8. QED
    BY <2>1, <2>2, <2>3, <2>4, <2>5, <2>6, <2>7
<1>13. Extends(writes, writes')
  <2>1. N <= w /\ Len(writes') \in Nat
    BY <1>4, <1>7
  <2>2. QED
    BY <1>4, <1>7, <2>1 DEF Extends
<1>14. TablesKept
  <2>1. memtable'[1 - active'] = memtable[1 - active]
    BY <1>1, <1>2, <1>8
  <2>2. QED
    BY <1>2, <1>13, <2>1 DEF TablesKept, Loaded
<1>15. TableInv' /\ SameAnswers /\ TableTypes'
  BY <1>14, KeptTables, TablesKeptTypes
<1>16. Types'
  <2>1. LogTypes'
    <3>1. \A n \in DOMAIN logs : n \in Nat /\ logs[n] \in Seq(-1..w)
      <4>1. (-1..N) \subseteq (-1..w)
        BY <1>4
      <4>2. \A n \in DOMAIN logs : n \in Nat /\ logs[n] \in Seq(-1..N)
        BY <1>4 DEF Types, LogTypes
      <4>3. QED
        BY <4>1, <4>2, SeqMonotonic
    <3>2. QED
      BY <1>2, <1>7, <1>8, <1>9, <3>1 DEF Types, LogTypes
  <2>2. WriteTypes'
    <3>1. w <= MaxWrites
      BY <1>4, Constants_
    <3>2. \A x \in lost : x \in 1..w
      BY <1>4, <1>12 DEF Types, WriteTypes
    <3>3. QED
      BY <1>2, <1>7, <3>1, <3>2 DEF WriteTypes
  <2>3. ControlTypes'
    BY <1>2, <1>3 DEF Types, ControlTypes
  <2>4. QED
    BY <1>15, <2>1, <2>2, <2>3 DEF Types
<1>17. LogInv'
  <2>1. ASSUME NEW m \in DOMAIN logs', NEW n \in DOMAIN logs', m < n, NEW r \in Rec(m)', NEW s \in Rec(n)'
        PROVE  r < s
    <3>1. m \in DOMAIN logs /\ n \in DOMAIN logs
      BY <1>2
    <3>2. m # f
      <4>1. ASSUME m = f
            PROVE  FALSE
        <5>1. n <= f /\ f < n /\ n \in Nat
          BY <1>10, <2>1, <3>1, <4>1, RecFacts
        <5>2. QED
          BY <1>10, <5>1
      <4>2. QED
        BY <4>1
    <3>3. r \in Rec(m) /\ r \in 1..N
      BY <1>4, <1>11, <2>1, <3>1, <3>2, RecFacts
    <3>4. CASE s \in Rec(n)
      BY <2>1, <3>1, <3>3, <3>4 DEF LogInv
    <3>5. CASE s = w
      BY <1>12, <3>3, <3>5
    <3>6. QED
      BY <1>11, <2>1, <3>4, <3>5
  <2>2. \A n \in DOMAIN logs' : \A r \in Rec(n)' : r \in Known'
    BY <1>2, <1>11, <1>12 DEF LogInv
  <2>3. ASSUME NEW n \in DOMAIN logs', NEW i \in Slots, NEW r \in Records(n)'
        PROVE  r \notin ToSet(buffer'[i])
    <3>1. n \in DOMAIN logs /\ r \in Records(n)
      BY <1>2, <1>11, <2>3
    <3>2. r \in Known
      BY <3>1, RecFacts
    <3>3. r # w
      BY <1>12, <3>2
    <3>4. r \notin ToSet(buffer[i])
      BY <3>1 DEF LogInv
    <3>5. QED
      BY <1>1, <1>9, <3>3, <3>4
  <2>4. \A r \in ToSet(buffer'[0]) : r \notin ToSet(buffer'[1])
    <3>1. (a = 0 /\ b = 1) \/ (a = 1 /\ b = 0)
      BY <1>1, Constants_
    <3>2. \A r \in ToSet(buffer[0]) : r \notin ToSet(buffer[1])
      BY DEF LogInv
    <3>3. w \notin ToSet(buffer[b])
      BY <1>12, RecFacts
    <3>4. QED
      BY <1>9, <3>1, <3>2, <3>3
  <2>5. \A i \in Slots : Distinct(buffer'[i])
    <3>1. Distinct(buffer'[b])
      BY <1>9 DEF LogInv, Distinct
    <3>2. QED
      BY <1>1, <1>9, <3>1
  <2>6. \A i \in Slots : \A r \in ToSet(buffer'[i]) : r \in Known'
    BY <1>1, <1>9, <1>12, RecFacts
  <2>7. QED
    BY <2>1, <2>2, <2>3, <2>4, <2>5, <2>6 DEF LogInv, Distinct
<1>18. FileInv'
  <2>1. \A i \in Slots : file[i] < 0 => buffer'[i] = <<>>
    <3>1. ~(file[a] < 0)
      BY <1>10
    <3>2. QED
      BY <1>1, <1>3, <1>9, <3>1 DEF FileInv
  <2>2. QED
    BY <1>2, <1>3, <2>1 DEF FileInv
<1>19. PathInv'
  BY <1>2, <1>3 DEF PathInv
<1>20. Log2Inv'
  BY <1>3 DEF Log2Inv
<1>21. Held(a)' = Held(a) \union {w} /\ Held(b)' = Held(b) /\ (\A x \in Held(a) : x \in 1..N) /\ \A x \in Held(b) : x \in 1..N
  <2>1. Held(a) = Rec(f)
    BY <1>10 DEF Held
  <2>2. Held(a)' = Rec(f)'
    BY <1>2, <1>10 DEF Held
  <2>3. Held(a)' = Held(a) \union {w}
    BY <1>11, <2>1, <2>2
  <2>4. file[b] >= 0 => \A r : r \in Rec(file[b])' <=> r \in Rec(file[b])
    <3>1. PICK n : n = file[b]
      OBVIOUS
    <3>2. n # f /\ file'[b] = n
      BY <1>2, <1>10, <3>1
    <3>3. \A r : r \in Rec(n)' <=> r \in Rec(n)
      BY <1>11, <3>2
    <3>4. QED
      BY <1>2, <3>1, <3>3
  <2>5. Held(b)' = Held(b)
    BY <1>2, <2>4, HeldSame
  <2>6. ASSUME NEW j \in Slots
        PROVE  \A x \in Held(j) : x \in 1..N
    <3>1. file[j] >= 0 => file[j] \in DOMAIN logs
      BY <1>3 DEF FileInv
    <3>2. QED
      BY <1>4, <3>1, RecFacts DEF Held
  <2>7. QED
    BY <2>3, <2>5, <2>6
<1>22. \A S : (\A x \in S : x \in 1..N) => \A k \in Keys :
         /\ NewestIn(writes', k, S) = NewestIn(writes, k, S)
         /\ k = k0 => NewestIn(writes', k, S \union {w}) = w
         /\ k # k0 => NewestIn(writes', k, S \union {w}) = NewestIn(writes, k, S)
  <2>1. PICK W, V : W = writes /\ V = writes'
    OBVIOUS
  <2>2. \A x \in 1..N : V[x] = W[x]
    BY <1>7, <2>1
  <2>3. w = N + 1
    BY <1>4
  <2>4. ASSUME NEW S, \A x \in S : x \in 1..N, NEW k \in Keys
        PROVE  NewestGrows(W, V, S, k, w)
    BY <2>2, <2>3, <2>4, NewestWritten
  <2>5. V[w].key = k0
    BY <1>7, <2>1
  <2>6. QED
    BY <2>1, <2>4, <2>5 DEF NewestGrows
<1>23. MemInv'
  <2>1. \A k \in Keys : /\ memtable[a][k] = NewestIn(writes, k, Held(a))
                        /\ Filling => memtable[b][k] = NewestIn(writes, k, Held(b))
                        /\ ~Filling => memtable[b][k] = 0
    BY <1>1, <1>3 DEF MemInv
  <2>2. Filling' <=> Filling
    BY <1>2 DEF Filling
  <2>3. PICK A, B : A = Held(a) /\ B = Held(b)
    OBVIOUS
  <2>4. \A k \in Keys : /\ memtable'[a][k] = NewestIn(writes', k, A \union {w})
                        /\ Filling => memtable'[b][k] = NewestIn(writes', k, B)
                        /\ ~Filling => memtable'[b][k] = 0
    <3>1. (\A x \in A : x \in 1..N) /\ \A x \in B : x \in 1..N
      BY <1>21, <2>3
    <3>2. \A k \in Keys : /\ k = k0 => NewestIn(writes', k, A \union {w}) = w
                          /\ k # k0 => NewestIn(writes', k, A \union {w}) = NewestIn(writes, k, A)
      BY <1>22, <3>1
    <3>3. \A k \in Keys : NewestIn(writes', k, B) = NewestIn(writes, k, B)
      BY <1>22, <3>1
    <3>4. QED
      BY <1>8, <2>1, <2>3, <3>2, <3>3
  <2>5. \A k \in Keys : /\ memtable'[a][k] = NewestIn(writes', k, Held(a)')
                        /\ Filling' => memtable'[b][k] = NewestIn(writes', k, Held(b)')
                        /\ ~Filling' => memtable'[b][k] = 0
    BY <1>21, <2>2, <2>3, <2>4
  <2>6. QED
    BY <1>1, <1>2, <2>5 DEF MemInv
<1>24. Pending = {} /\ Pending' = {} /\ \A k \in Keys : NewestIn(writes, k, {}) = 0 /\ NewestIn(writes', k, {}) = 0
  BY <1>3, NewestNone DEF Pending
<1>25. Known' = Known \union {w}
  BY <1>12
<1>26. \A x \in 0..N : AnswerIn(writes', x) = AnswerIn(writes, x)
  BY <1>4, <1>13, AnswerStable
<1>27. ServeInv'
  <2>1. ASSUME NEW k \in Keys
        PROVE  /\ memtable'[a][k] # 0 => NewestIn(writes', k, Known') = memtable'[a][k]
               /\ memtable'[a][k] = 0 /\ memtable'[b][k] # 0 => NewestIn(writes', k, Known') = memtable'[b][k]
               /\ memtable'[a][k] = 0 /\ memtable'[b][k] = 0 =>
                    ListedFrom(0, k)' = AnswerIn(writes', NewestIn(writes', k, Known'))
    <3>1. CASE k = k0
      <4>1. NewestIn(writes', k, Known') = w
        BY <1>12, <1>22, <1>25, <3>1
      <4>2. memtable'[a][k] = w /\ w # 0
        BY <1>4, <1>8, <3>1
      <4>3. QED
        BY <4>1, <4>2
    <3>2. CASE k # k0
      <4>1. NewestIn(writes', k, Known') = NewestIn(writes, k, Known)
        BY <1>12, <1>22, <1>25, <3>2
      <4>2. memtable'[a][k] = memtable[a][k] /\ memtable'[b][k] = memtable[b][k]
        BY <1>8, <3>2
      <4>3. /\ memtable[a][k] # 0 => NewestIn(writes, k, Known) = memtable[a][k]
            /\ memtable[a][k] = 0 /\ memtable[b][k] # 0 => NewestIn(writes, k, Known) = memtable[b][k]
            /\ memtable[a][k] = 0 /\ memtable[b][k] = 0 =>
                 ListedFrom(0, k) = AnswerIn(writes, NewestIn(writes, k, Known))
        BY <1>1, <1>3, <1>24 DEF ServeInv
      <4>4. NewestIn(writes, k, Known) \in 0..N
        BY <1>12, NewestFacts
      <4>5. ListedFrom(0, k)' = ListedFrom(0, k)
        BY <1>15 DEF SameAnswers
      <4>6. QED
        BY <1>26, <4>1, <4>2, <4>3, <4>4, <4>5
    <3>3. QED
      BY <3>1, <3>2
  <2>2. QED
    BY <1>1, <1>2, <1>24, <2>1 DEF ServeInv
<1>28. NextInv'
  <2>1. ASSUME NEW k \in Keys, NEW x \in Known', writes'[x].key = k, memtable'[b][k] # 0, x > memtable'[b][k]
        PROVE  x \in Held(a)'
    <3>1. CASE x = w
      BY <1>21, <3>1
    <3>2. CASE x \in Known
      <4>1. writes[x].key = k /\ memtable[b][k] # 0 /\ x > memtable[b][k]
        BY <1>7, <1>8, <1>12, <2>1, <3>2
      <4>2. x \in Held(a)
        BY <1>1, <1>3, <1>24, <3>2, <4>1 DEF NextInv
      <4>3. QED
        BY <1>21, <4>2
    <3>3. QED
      BY <1>12, <2>1, <3>1, <3>2
  <2>2. QED
    BY <1>1, <1>2, <1>3, <2>1 DEF NextInv
<1>29. \A x : x \in Unpublished' <=> x \in Unpublished \/ x = w
  <2>1. (a = 0 /\ b = 1) \/ (a = 1 /\ b = 0)
    BY <1>1, Constants_
  <2>2. 1 - active = b /\ 1 - active' = b /\ flusher' = flusher
    BY <1>1, <1>2
  <2>3. \A x : (x \in ToSet(buffer'[a]) <=> x \in ToSet(buffer[a]) \/ x = w) /\ buffer'[b] = buffer[b]
    BY <1>9
  <2>4. CASE a = 0 /\ b = 1
    BY <2>2, <2>3, <2>4, UnpublishedIs
  <2>5. CASE a = 1 /\ b = 0
    BY <2>2, <2>3, <2>5, UnpublishedIs
  <2>6. QED
    BY <2>1, <2>4, <2>5
<1>30. DurableInv'
  <2>1. Clearing' = Clearing
    BY <1>2 DEF Clearing
  <2>2. Known' \ Unpublished' = Known \ Unpublished
    BY <1>12, <1>29
  <2>3. ASSUME NEW k \in Keys, ~Logged(k, DOMAIN logs \ Clearing)'
        PROVE  ListedFrom(0, k)' = AnswerIn(writes', NewestIn(writes', k, Known' \ Unpublished'))
    <3>1. \A n \in DOMAIN logs : \A r \in Records(n) : writes'[r].key = writes[r].key
      BY <1>4, <1>7, RecFacts
    <3>2. ~Logged(k, DOMAIN logs \ Clearing)
      BY <1>2, <1>11, <2>1, <2>3, <3>1 DEF Logged
    <3>3. ListedFrom(0, k) = AnswerIn(writes, NewestIn(writes, k, Known \ Unpublished))
      BY <1>3, <3>2 DEF DurableInv
    <3>4. PICK X : X = Known \ Unpublished
      OBVIOUS
    <3>5. \A x \in X : x \in 1..N
      BY <1>12, <3>4
    <3>6. NewestIn(writes', k, X) = NewestIn(writes, k, X)
      BY <1>22, <3>5
    <3>7. NewestIn(writes, k, X) \in 0..N
      BY <3>5, NewestFacts
    <3>8. ListedFrom(0, k)' = ListedFrom(0, k)
      BY <1>15 DEF SameAnswers
    <3>9. QED
      BY <1>26, <2>2, <3>3, <3>4, <3>6, <3>7, <3>8
  <2>4. QED
    BY <2>3 DEF DurableInv
<1>31. FirstInv'
  <2>1. Clearing' = Clearing /\ f \notin Clearing
    <3>1. file[1 - b] >= 0 /\ file[1 - b] = f
      BY <1>1, <1>10
    <3>2. filepath[b] # file[1 - b]
      BY <1>3, <3>1 DEF PathInv
    <3>3. QED
      BY <1>1, <1>2, <3>1, <3>2 DEF Clearing
  <2>2. SUFFICES ASSUME starts = 1, NEW n \in DOMAIN logs \ Clearing, NEW r \in Rec(n)', NEW x \in Known', x > r
                 PROVE  \E m \in DOMAIN logs \ Clearing : x \in Rec(m)'
    BY <1>2, <1>3, <2>1 DEF FirstInv
  <2>3. CASE x = w
    BY <1>11, <2>1, <2>3
  <2>4. CASE x \in Known
    <3>1. r # w
      <4>1. x < w /\ x \in Nat
        BY <1>12, <2>4
      <4>2. QED
        BY <1>4, <2>2, <4>1
    <3>2. r \in Rec(n)
      BY <1>11, <2>2, <3>1
    <3>3. PICK m \in DOMAIN logs \ Clearing : x \in Rec(m)
      BY <1>3, <2>2, <2>4, <3>2 DEF FirstInv
    <3>4. QED
      BY <1>11, <3>3
  <2>5. QED
    BY <1>12, <2>2, <2>3, <2>4
<1>32. QED
  BY <1>3, <1>15, <1>16, <1>17, <1>18, <1>19, <1>20, <1>23, <1>27, <1>28, <1>30, <1>31, LiveAll

(* Steps that are only about tables.                                       *)
FilesKept ==
  /\ UNCHANGED <<logs, writer, wal_files, active, memtable, file, filepath, buffer, wal_log_counter>>
  /\ UNCHANGED <<writes, lost, trusted, starts>>
  /\ Works /\ (phase' = phase \/ (phase = "up" /\ phase' = "stopping" /\ writer = "run"))
  /\ \/ flusher' = flusher
     \/ flusher = "pending" /\ flusher' = "write"
     \/ flusher = "write" /\ flusher' = "publish"

LEMMA KeptFiles ==
  ASSUME AllInv, FilesKept, TableTypes', TableInv', SameAnswers
  PROVE  AllInv'
<1> USE DEF AllInv, FileInvs, MemInvs
<1>1. PICK a \in Slots, b \in Slots : a = active /\ b = 1 - a
  BY SlotFacts
<1>2. UNCHANGED <<logs, writer, wal_files, active, memtable, file, filepath, buffer, wal_log_counter>>
      /\ UNCHANGED <<writes, lost, trusted, starts>>
  BY DEF FilesKept
<1>3. /\ Works' /\ Live /\ Live' /\ Works /\ phase # "closing" /\ phase' # "closing"
      /\ (phase' = "log2" <=> phase = "log2") /\ (phase = "stopping" => phase' = "stopping")
      /\ (phase' = "stopping" => phase = "stopping" \/ writer = "run")
      /\ (starts = 1 => phase' \in {"up", "stopping", "closing", "down"}) /\ trusted
      /\ phase' \in {"up", "stopping", "log2"}
  BY WorksIsLoaded DEF FilesKept, Works, Live, Types, ControlTypes
<1>4. /\ Clearing' = Clearing /\ (Filling' <=> Filling)
      /\ (flusher' \in {"idle", "remove"} <=> flusher \in {"idle", "remove"})
      /\ (flusher' = "close" <=> flusher = "close") /\ (flusher' = "idle" <=> flusher = "idle")
      /\ flusher' \in {"idle", "pending", "write", "publish", "close", "remove"}
  BY <1>2 DEF FilesKept, Clearing, Filling, Types, ControlTypes
<1>5. /\ \A n : Records(n)' = Records(n) /\ Rec(n)' = Rec(n)
      /\ \A j \in Slots : Held(j)' = Held(j)
      /\ Known' = Known /\ Pending' = Pending /\ Second' = Second
  BY <1>2, <1>3 DEF Records, Rec, Held, Known, Pending, Second
<1>6. Unpublished' = Unpublished
  <2>1. \A x : x \in Unpublished' <=> x \in Unpublished
    BY <1>2, <1>4, UnpublishedIs
  <2>2. QED
    BY <2>1
<1>7. Types'
  <2>1. LogTypes' /\ WriteTypes'
    BY <1>2 DEF Types, LogTypes, WriteTypes
  <2>2. ControlTypes'
    BY <1>2, <1>3, <1>4 DEF Types, ControlTypes
  <2>3. QED
    BY <2>1, <2>2 DEF Types
<1>8. LogInv'
  BY <1>2, <1>5 DEF LogInv
<1>9. FileInv'
  BY <1>2, <1>3 DEF FileInv
<1>10. PathInv'
  BY <1>2, <1>3, <1>4 DEF PathInv
<1>11. Log2Inv'
  BY <1>2, <1>3, <1>4, <1>5 DEF Log2Inv
<1>12. MemInv'
  BY <1>1, <1>2, <1>3, <1>4, <1>5 DEF MemInv
<1>13. ServeInv'
  BY <1>2, <1>3, <1>5 DEF ServeInv, SameAnswers
<1>14. NextInv'
  BY <1>1, <1>2, <1>3, <1>5 DEF NextInv
<1>15. DurableInv'
  <2>1. \A k \in Keys : Logged(k, DOMAIN logs \ Clearing)' <=> Logged(k, DOMAIN logs \ Clearing)
    BY <1>2, <1>4, <1>5 DEF Logged
  <2>2. QED
    BY <1>2, <1>3, <1>5, <1>6, <2>1 DEF DurableInv, SameAnswers
<1>16. FirstInv'
  BY <1>2, <1>3, <1>4, <1>5 DEF FirstInv
<1>17. QED
  BY <1>3, <1>7, <1>8, <1>9, <1>10, <1>11, <1>12, <1>13, <1>14, <1>15, <1>16, LiveAll

LEMMA CreateTableStep ==
  ASSUME AllInv, CreateTable
  PROVE  AllInv'
<1>1. FilesKept
  BY DEF CreateTable, FilesKept, memVars, walVars, lives
<1>2. QED
  BY <1>1, CreateTableTables, KeptFiles DEF AllInv

LEMMA FinishTableStep ==
  ASSUME AllInv, FinishTable
  PROVE  AllInv'
<1>1. FilesKept
  BY DEF FinishTable, FilesKept, memVars, walVars, lives
<1>2. QED
  BY <1>1, FinishTableTables, KeptFiles DEF AllInv

LEMMA StartMergeStep ==
  ASSUME AllInv, NEW l \in MergeLevels, StartMerge(l)
  PROVE  AllInv'
<1>1. FilesKept
  BY DEF StartMerge, FilesKept, memVars, walVars, lives, flushVars
<1>2. QED
  BY <1>1, StartMergeTables, KeptFiles DEF AllInv

LEMMA FinishMergeStep ==
  ASSUME AllInv, NEW l \in MergeLevels, FinishMerge(l)
  PROVE  AllInv'
<1>1. FilesKept
  BY DEF FinishMerge, FilesKept, memVars, walVars, lives, flushVars
<1>2. QED
  BY <1>1, FinishMergeTables, KeptFiles DEF AllInv

LEMMA AddMergedStep ==
  ASSUME AllInv, NEW l \in MergeLevels, AddMerged(l)
  PROVE  AllInv'
<1>1. FilesKept
  BY DEF AddMerged, FilesKept, memVars, walVars, lives, flushVars, disk
<1>2. QED
  BY <1>1, AddMergedTables, KeptFiles DEF AllInv

LEMMA RemoveInputsStep ==
  ASSUME AllInv, NEW l \in MergeLevels, RemoveInputs(l)
  PROVE  AllInv'
<1>1. FilesKept
  BY DEF RemoveInputs, FilesKept, memVars, walVars, lives, flushVars, disk
<1>2. QED
  BY <1>1, RemoveInputsTables, KeptFiles DEF AllInv

LEMMA UnlinkStep ==
  ASSUME AllInv, NEW t \in doomed, Unlink(t)
  PROVE  AllInv'
<1>1. FilesKept
  BY DEF Unlink, FilesKept, memVars, walVars, lives, flushVars
<1>2. QED
  BY <1>1, UnlinkTables, KeptFiles DEF AllInv

LEMMA StopStep ==
  ASSUME AllInv, Stop
  PROVE  AllInv'
<1>1. FilesKept
  BY DEF Stop, FilesKept, Works, memVars, walVars, lives, flushVars, disk
<1>2. TablesKept
  <2>1. writes' = writes /\ Types
    BY DEF Stop, AllInv
  <2>2. Extends(writes, writes')
    BY <2>1, ExtendsSame
  <2>3. QED
    BY <2>2 DEF Stop, TablesKept, Loaded, disk, tableVars, mergeVars, flushVars, memVars
<1>3. QED
  BY <1>1, <1>2, KeptTables, TablesKeptTypes, KeptFiles DEF AllInv

-----------------------------------------------------------------------------
(* The step that publishes a memtable as a table.                          *)

(* When no log but that of the memtable has a key, then the newest of the  *)
(* writes that have left the buffers is in the memtable, or the tables are *)
(* as new.                                                                 *)
PublishedAsNew(k) ==
  IF memtable[1 - active][k] # 0
  THEN NewestIn(writes, k, Known \ ToSet(buffer[active])) = memtable[1 - active][k]
  ELSE ListedFrom(0, k) = AnswerIn(writes, NewestIn(writes, k, Known \ ToSet(buffer[active])))

LEMMA PublishedNewest ==
  ASSUME AllInv, Works, flusher = "publish", NEW k \in Keys, ~Logged(k, DOMAIN logs \ {filepath[1 - active]})
  PROVE  PublishedAsNew(k)
<1> USE DEF AllInv, FileInvs, MemInvs
<1>1. PICK a \in Slots, b \in Slots : a = active /\ b = 1 - a /\ a = 1 - b /\ a # b /\ \A j \in Slots : j = a \/ j = b
  BY SlotFacts, Constants_
<1>2. (a = 0 /\ b = 1) \/ (a = 1 /\ b = 0)
  BY <1>1, Constants_
<1>3. Live /\ Filling /\ phase # "closing"
  BY WorksIsLoaded DEF Works, Filling
<1>4. PICK f \in DOMAIN logs : f = file[b] /\ f >= 0
  <2>1. ~(file[b] < 0)
    BY <1>1 DEF PathInv
  <2>2. file[b] >= 0
    BY <2>1, LogNumbers
  <2>3. QED
    BY <1>3, <2>2 DEF FileInv
<1>5. PICK g : g = filepath[b]
  OBVIOUS
<1>6a. PICK n \in Nat : n = Len(writes)
  BY KnownFacts
<1>6b. PICK X, m : X = Known \ ToSet(buffer[a]) /\ m = memtable[b][k]
  OBVIOUS
<1>6. X = Known \ ToSet(buffer[a]) /\ n = Len(writes) /\ m = memtable[b][k]
  BY <1>6a, <1>6b
<1>7. \A x \in X : x \in 1..n
  BY <1>6, KnownFacts
<1>8. file[a] # f
  <2>1. file[0] >= 0 => file[0] # file[1]
    BY <1>3 DEF FileInv
  <2>2. QED
    BY <1>2, <1>4, <2>1
<1>9. Held(b) = Rec(f)
  BY <1>4 DEF Held
<1>10. \A r : r \in Rec(f) <=> r \in Records(f) \/ r \in ToSet(buffer[b])
  BY <1>2, <1>4, <1>8, RecIs
<1>11. (\A r \in Rec(f) : r \in 1..n /\ r \in Known)
  BY <1>6, RecFacts
<1>12. m = NewestIn(writes, k, Rec(f))
  BY <1>1, <1>3, <1>6, <1>9 DEF MemInv
<1>13. ASSUME NEW d \in DOMAIN logs, d # g, NEW r \in Records(d)
       PROVE  writes[r].key # k
  <2>1. d \in DOMAIN logs \ {filepath[1 - active]}
    BY <1>1, <1>5, <1>13
  <2>2. QED
    BY <2>1 DEF Logged
<1>14. CASE m # 0
  <2>1. m \in Rec(f) /\ writes[m].key = k
    BY <1>11, <1>12, <1>14, NewestFacts
  <2>2. m \notin ToSet(buffer[a])
    <3>1. m \in Records(f) => m \notin ToSet(buffer[a])
      BY <1>1, <1>4 DEF LogInv
    <3>2. m \in ToSet(buffer[b]) => m \notin ToSet(buffer[a])
      BY <1>2 DEF LogInv
    <3>3. QED
      BY <1>10, <2>1, <3>1, <3>2
  <2>3. m \in X /\ m \in 1..n
    BY <1>6, <1>11, <2>1, <2>2
  <2>4. PICK w \in 0..n : w = NewestIn(writes, k, X)
    BY <1>7, NewestFacts
  <2>5. m <= w /\ w # 0
    <3>1. \A x \in X : writes[x].key = k => x <= NewestIn(writes, k, X) /\ NewestIn(writes, k, X) # 0
      BY <1>7, NewestFacts
    <3>2. QED
      BY <2>1, <2>3, <2>4, <3>1
  <2>6. w \in X /\ writes[w].key = k
    BY <1>7, <2>4, <2>5, NewestFacts
  <2>7. ASSUME w > m
        PROVE  FALSE
    <3>1. w \in Held(a) \/ w \in Pending
      BY <1>1, <1>6, <1>14, <2>6, <2>7 DEF NextInv
    <3>2. CASE w \in Held(a)
      <4>1. PICK d : d = file[a]
        OBVIOUS
      <4>2. d >= 0 /\ w \in Rec(d)
        BY <3>2, <4>1 DEF Held
      <4>3. w \in Records(d)
        BY <1>2, <1>4, <1>6, <1>8, <2>6, <4>1, <4>2, RecIs
      <4>4. d \in DOMAIN logs
        BY <1>3, <4>1, <4>2 DEF FileInv
      <4>5. d # g
        <5>1. file[1 - b] >= 0
          BY <1>1, <4>1, <4>2
        <5>2. filepath[b] # file[1 - b]
          BY <5>1 DEF PathInv
        <5>3. QED
          BY <1>1, <1>5, <4>1, <5>2
      <4>6. QED
        BY <1>13, <2>6, <4>3, <4>4, <4>5
    <3>3. CASE w \in Pending
      <4>1. phase = "log2"
        BY <3>3 DEF Pending
      <4>2. PICK d : d = Second
        OBVIOUS
      <4>3. w \in Records(d) /\ d \in DOMAIN logs
        BY <3>3, <4>1, <4>2 DEF Pending, Log2Inv
      <4>4. writer # "full"
        BY <4>1 DEF Log2Inv
      <4>5. active = 1
        BY <1>1, <1>2, <4>1, <4>4 DEF Log2Inv
      <4>6. g = NULL
        BY <1>1, <1>2, <1>5, <4>1, <4>5 DEF Log2Inv
      <4>7. d # g
        BY <4>3, <4>6, RecFacts DEF NULL
      <4>8. QED
        BY <1>13, <2>6, <4>3, <4>7
    <3>4. QED
      BY <3>1, <3>2, <3>3
  <2>8. w = m
    BY <2>3, <2>5, <2>7
  <2>9. QED
    BY <1>1, <1>6, <1>14, <2>4, <2>8 DEF PublishedAsNew
<1>15. CASE m = 0
  <2>1. \A r \in Rec(f) : writes[r].key # k
    BY <1>11, <1>12, <1>15, NewestFacts
  <2>2. ~Logged(k, DOMAIN logs)
    <3>1. ASSUME NEW d \in DOMAIN logs, NEW r \in Records(d)
          PROVE  writes[r].key # k
      <4>1. CASE d # g
        BY <1>13, <4>1
      <4>2. CASE d = g
        <5>1. file[b] >= 0 /\ filepath[b] \in DOMAIN logs
          BY <1>4, <1>5, <4>2
        <5>2. g = f \/ logs[g] = <<>>
          BY <1>4, <1>5, <5>1 DEF PathInv
        <5>3. logs[g] # <<>>
          BY <4>2, NoRecords, RecordsIs
        <5>4. QED
          BY <1>10, <2>1, <4>2, <5>2, <5>3
      <4>3. QED
        BY <4>1, <4>2
    <3>2. QED
      BY <3>1 DEF Logged
  <2>3. PICK Y : Y = Known \ Unpublished
    OBVIOUS
  <2>4. ListedFrom(0, k) = AnswerIn(writes, NewestIn(writes, k, Y))
    <3>1. DOMAIN logs \ Clearing = DOMAIN logs
      BY DEF Clearing
    <3>2. QED
      BY <1>3, <2>2, <2>3, <3>1 DEF DurableInv
  <2>5. \A y \in Y : y \in 1..n
    BY <1>6, <2>3, KnownFacts
  <2>6. \A x : x \in Unpublished <=> x \in ToSet(buffer[a]) \/ x \in ToSet(buffer[b])
    BY <1>2, UnpublishedIs
  <2>7. \A x \in 1..n : (x \in X /\ writes[x].key = k) <=> (x \in Y /\ writes[x].key = k)
    BY <1>6, <1>10, <2>1, <2>3, <2>6
  <2>8. NewestIn(writes, k, X) = NewestIn(writes, k, Y)
    BY <1>7, <2>5, <2>7, NewestSame
  <2>9. QED
    BY <1>1, <1>6, <1>15, <2>4, <2>8 DEF PublishedAsNew
<1>16. QED
  BY <1>14, <1>15

LEMMA AddTableStep ==
  ASSUME AllInv, AddTable
  PROVE  AllInv'
<1> USE DEF AllInv, FileInvs, MemInvs
<1>1. PICK a \in Slots, b \in Slots : a = active /\ b = 1 - a /\ a = 1 - b /\ a # b /\ \A j \in Slots : j = a \/ j = b
  BY SlotFacts, Constants_
<1>2. UNCHANGED <<logs, sstables, phase, wal_files, writer, active, file, filepath, buffer, wal_log_counter, flush_num,
                  merge, awake, doomed, unlinked, writes, lost, trusted, starts, crashes>>
  BY DEF AddTable, disk, walVars, mergeVars, lives
<1>3. Works /\ Works' /\ Live /\ Live' /\ phase # "closing" /\ flusher = "publish" /\ flusher' = "close" /\ Filling /\ ~Filling'
  BY <1>2, WorksIsLoaded DEF AddTable, Works, Live, Filling
<1>4. memtable'[a] = memtable[a] /\ memtable'[b] = Empty /\ memtable' \in [Slots -> [Keys -> 0..Len(writes)]]
  <2>1. memtable' = [memtable EXCEPT ![b] = Empty] /\ memtable \in [Slots -> [Keys -> 0..Len(writes)]]
    BY <1>1 DEF AddTable, Types, LogTypes
  <2>2. Empty \in [Keys -> 0..Len(writes)]
    BY KnownFacts DEF Empty
  <2>3. QED
    BY <1>1, <2>1, <2>2
<1>5. /\ \A n : Records(n)' = Records(n) /\ Rec(n)' = Rec(n)
      /\ \A j \in Slots : Held(j)' = Held(j)
      /\ Known' = Known /\ Pending' = Pending /\ Second' = Second
  BY <1>2 DEF Records, Rec, Held, Known, Pending, Second
<1>6. TableTypes' /\ TableInv' /\ \A k \in Keys : ListedFrom(0, k)' =
        IF memtable[b][k] # 0 THEN AnswerIn(writes, memtable[b][k]) ELSE ListedFrom(0, k)
  BY <1>1, AddTableTables
<1>7. Types'
  <2>1. LogTypes' /\ WriteTypes'
    BY <1>2, <1>4 DEF Types, LogTypes, WriteTypes
  <2>2. ControlTypes'
    BY <1>2, <1>3 DEF Types, ControlTypes
  <2>3. QED
    BY <1>6, <2>1, <2>2 DEF Types
<1>8. LogInv' /\ FileInv'
  BY <1>2, <1>3, <1>5 DEF LogInv, FileInv
<1>9. PathInv'
  BY <1>2, <1>3 DEF PathInv
<1>10. Log2Inv'
  <2>1. SUFFICES ASSUME phase = "log2"
                 PROVE  Log2Inv'
    BY <1>2 DEF Log2Inv
  <2>2. writer # "full"
    BY <1>3, <2>1 DEF Log2Inv
  <2>3. active = 1 => memtable'[1] = Empty
    BY <1>1, <1>4, <2>1 DEF Log2Inv
  <2>4. QED
    BY <1>2, <1>3, <1>5, <2>1, <2>2, <2>3 DEF Log2Inv
<1>11. \A k \in Keys : memtable'[b][k] = 0
  BY <1>4 DEF Empty
<1>12. MemInv'
  BY <1>1, <1>2, <1>3, <1>4, <1>5, <1>11 DEF MemInv
<1>13. ServeInv'
  <2>1. ASSUME NEW k \in Keys
        PROVE  \/ NewestIn(writes, k, Pending) # 0 /\ NewestIn(writes, k, Known) = NewestIn(writes, k, Pending)
               \/ /\ NewestIn(writes, k, Pending) = 0
                  /\ memtable'[a][k] # 0 => NewestIn(writes, k, Known) = memtable'[a][k]
                  /\ memtable'[a][k] = 0 /\ memtable'[b][k] # 0 =>
                       NewestIn(writes, k, Known) = memtable'[b][k]
                  /\ memtable'[a][k] = 0 /\ memtable'[b][k] = 0 =>
                       ListedFrom(0, k)' = AnswerIn(writes, NewestIn(writes, k, Known))
    <3>1. \/ NewestIn(writes, k, Pending) # 0 /\ NewestIn(writes, k, Known) = NewestIn(writes, k, Pending)
          \/ /\ NewestIn(writes, k, Pending) = 0
             /\ memtable[a][k] # 0 => NewestIn(writes, k, Known) = memtable[a][k]
             /\ memtable[a][k] = 0 /\ memtable[b][k] # 0 =>
                  NewestIn(writes, k, Known) = memtable[b][k]
             /\ memtable[a][k] = 0 /\ memtable[b][k] = 0 =>
                  ListedFrom(0, k) = AnswerIn(writes, NewestIn(writes, k, Known))
      BY <1>1, <1>3 DEF ServeInv
    <3>2. ListedFrom(0, k)' = IF memtable[b][k] # 0 THEN AnswerIn(writes, memtable[b][k]) ELSE ListedFrom(0, k)
      BY <1>6
    <3>3. QED
      BY <1>4, <1>11, <3>1, <3>2
  <2>2. QED
    BY <1>1, <1>2, <1>3, <1>5, <2>1 DEF ServeInv
<1>14. NextInv'
  <2>1. \A k \in Keys, x \in Known : writes[x].key = k /\ phase = "log2" /\ memtable[a][k] # 0 /\ x > memtable[a][k]
          => x \in Pending
    BY <1>1, <1>3 DEF NextInv
  <2>2. QED
    BY <1>1, <1>2, <1>4, <1>5, <1>11, <2>1 DEF NextInv
<1>15. Clearing = {} /\ Clearing' = {filepath[b]}
  BY <1>1, <1>2, <1>3 DEF Clearing
<1>16. Unpublished' = ToSet(buffer[a])
  <2>1. (a = 0 /\ b = 1) \/ (a = 1 /\ b = 0)
    BY <1>1, Constants_
  <2>2. \A x : x \in Unpublished' <=> x \in ToSet(buffer[a])
    BY <1>1, <1>2, <1>3, <2>1, UnpublishedIs
  <2>3. QED
    BY <2>2
<1>17. DurableInv'
  <2>1. ASSUME NEW k \in Keys, ~Logged(k, DOMAIN logs \ {filepath[b]})
        PROVE  ListedFrom(0, k)' = AnswerIn(writes, NewestIn(writes, k, Known \ ToSet(buffer[a])))
    <3>1. ~Logged(k, DOMAIN logs \ {filepath[1 - active]})
      BY <1>1, <2>1
    <3>2. PublishedAsNew(k)
      BY <1>3, <3>1, PublishedNewest
    <3>3. QED
      BY <1>1, <1>6, <3>2 DEF PublishedAsNew
  <2>2. ASSUME NEW k \in Keys
        PROVE  Logged(k, DOMAIN logs \ {filepath[b]})' <=> Logged(k, DOMAIN logs \ {filepath[b]})
    BY <1>2, <1>5 DEF Logged
  <2>3. QED
    BY <1>2, <1>5, <1>15, <1>16, <2>1, <2>2 DEF DurableInv
<1>18. FirstInv'
  <2>1. SUFFICES ASSUME starts = 1
                 PROVE  FirstInv'
    BY <1>2 DEF FirstInv
  <2>2. /\ \A i \in Slots : file[i] >= 0 => filepath[i] = file[i]
        /\ \A n \in DOMAIN logs : n = file[0] \/ n = file[1]
        /\ \A n \in DOMAIN logs : \A r \in Rec(n), x \in Known : x > r => \E m \in DOMAIN logs : x \in Rec(m)
    BY <1>3, <1>15, <2>1 DEF FirstInv
  <2>3. file[b] >= 0
    <3>1. ~(file[b] < 0)
      BY <1>1, <1>3 DEF PathInv
    <3>2. QED
      BY <3>1, LogNumbers
  <2>4. PICK f : f = file[b] /\ f = filepath[b] /\ f \in DOMAIN logs
    BY <1>3, <2>2, <2>3 DEF FileInv
  <2>5. (a = 0 /\ b = 1) \/ (a = 1 /\ b = 0)
    BY <1>1, Constants_
  <2>6. ASSUME NEW n \in DOMAIN logs, n # f, NEW r \in Rec(n), NEW x \in Known, x > r
        PROVE  \E m \in DOMAIN logs \ {f} : x \in Rec(m)
    <3>1. PICK m \in DOMAIN logs : x \in Rec(m)
      BY <2>2, <2>6
    <3>2. CASE m # f
      BY <3>1, <3>2
    <3>3. CASE m = f
      <4>1. n = file[a]
        BY <2>2, <2>4, <2>5, <2>6
      <4>2. writer # "open"
        <5>1. file[a] >= 0
          BY <2>6, <4>1, RecFacts
        <5>2. ~(file[a] < 0)
          BY <5>1, LogNumbers
        <5>3. QED
          BY <1>1, <1>3, <5>2 DEF PathInv
      <4>3. phase # "log2"
        BY <1>7, <1>2, <2>1 DEF Types, ControlTypes
      <4>4. f <= n
        BY <1>1, <1>3, <2>4, <4>1, <4>2, <4>3 DEF PathInv
      <4>5. f < n
        BY <2>4, <2>6, <4>4, RecFacts
      <4>6. x < r
        BY <2>4, <2>6, <3>1, <3>3, <4>5 DEF LogInv
      <4>7. x \in Int /\ r \in Int
        BY <2>6, RecFacts, KnownFacts
      <4>8. QED
        BY <2>6, <4>6, <4>7
    <3>4. QED
      BY <3>2, <3>3
  <2>7. Clearing' = {f}
    BY <1>15, <2>4
  <2>8. \A n \in DOMAIN logs' \ Clearing' : \A r \in Rec(n)', x \in Known' :
          x > r => \E m \in DOMAIN logs' \ Clearing' : x \in Rec(m)'
    BY <1>2, <1>5, <2>6, <2>7
  <2>9. \A n \in DOMAIN logs' : n \in {file'[0], file'[1]} \union Clearing'
    BY <1>2, <2>2
  <2>10. \A i \in Slots : file'[i] >= 0 => filepath'[i] = file'[i]
    BY <1>2, <2>2
  <2>11. QED
    BY <2>8, <2>9, <2>10 DEF FirstInv
<1>19. QED
  BY <1>3, <1>6, <1>7, <1>8, <1>9, <1>10, <1>12, <1>13, <1>14, <1>17, <1>18, LiveAll

-----------------------------------------------------------------------------
(* Recovery.                                                               *)

LEMMA QuietAll ==
  ASSUME Types', FreshInv', TableInv', LogInv', DownInv', DiskInv', ~Live'
  PROVE  AllInv'
<1>1. ~Works' /\ phase' # "log2"
  BY DEF Works, Live
<1>2. FileInv' /\ PathInv' /\ Log2Inv'
  BY <1>1 DEF FileInv, PathInv, Log2Inv
<1>3. MemInv' /\ ServeInv' /\ NextInv' /\ DurableInv' /\ FirstInv'
  BY <1>1 DEF MemInv, ServeInv, NextInv, DurableInv, FirstInv
<1>4. QED
  BY <1>2, <1>3 DEF AllInv, FileInvs, MemInvs

(* The files are what they were, and no process works with them.           *)
LogsKept ==
  /\ UNCHANGED <<logs, writer, wal_files, active, memtable, file, filepath, buffer, wal_log_counter, flusher>>
  /\ UNCHANGED <<sstables, merge, awake, doomed, unlinked, flush_num, writes, lost, trusted>>

LEMMA KeptLogs ==
  ASSUME AllInv, LogsKept
  PROVE  /\ LogInv' /\ LogTypes' /\ WriteTypes'
         /\ \A n : Records(n)' = Records(n)
         /\ Known' = Known
         /\ \A k \in Keys : Logged(k, DOMAIN logs)' <=> Logged(k, DOMAIN logs)
<1> USE DEF AllInv, FileInvs, MemInvs
<1>1. /\ UNCHANGED <<logs, writer, wal_files, active, memtable, file, filepath, buffer, wal_log_counter, flusher>>
      /\ UNCHANGED <<sstables, merge, awake, doomed, unlinked, flush_num, writes, lost, trusted>>
  BY DEF LogsKept
<1>2. /\ \A n : Records(n)' = Records(n) /\ Rec(n)' = Rec(n)
      /\ Known' = Known
  BY <1>1 DEF Records, Rec, Known
<1>3. LogInv'
  BY <1>1, <1>2 DEF LogInv
<1>4. LogTypes' /\ WriteTypes'
  BY <1>1 DEF Types, LogTypes, WriteTypes
<1>5. \A k \in Keys : Logged(k, DOMAIN logs)' <=> Logged(k, DOMAIN logs)
  BY <1>1, <1>2 DEF Logged
<1>6. QED
  BY <1>2, <1>3, <1>4, <1>5

LEMMA StartStep ==
  ASSUME AllInv, Start, trusted
  PROVE  AllInv'
<1> USE DEF AllInv, FileInvs, MemInvs
<1>1. /\ UNCHANGED <<logs, writer, wal_files, active, memtable, file, filepath, buffer, wal_log_counter, flusher>>
      /\ UNCHANGED <<sstables, merge, awake, doomed, unlinked, flush_num, writes, lost, trusted>>
      /\ UNCHANGED <<readers_at_level, sstable_counter, curr_max_level>>
  BY DEF Start, disk, memVars, walVars, flushVars, tableVars, mergeVars
<1>2. phase = "down" /\ phase' = "tables" /\ trusted /\ starts' = starts + 1
  BY DEF Start
<1>3. starts' \in Nat \ {0} /\ starts' # 1
  BY <1>2 DEF Types, ControlTypes
<1>4. LogInv' /\ LogTypes' /\ WriteTypes'
      /\ (\A n : Records(n)' = Records(n))
      /\ Known' = Known
      /\ \A k \in Keys : Logged(k, DOMAIN logs)' <=> Logged(k, DOMAIN logs)
  BY <1>1, KeptLogs DEF LogsKept
<1>5. TablesKept
  <2>1. Extends(writes, writes')
    BY <1>1, ExtendsSame
  <2>2. QED
    BY <1>1, <1>2, <2>1 DEF TablesKept, Loaded
<1>6. TableInv' /\ TableTypes'
  BY <1>5, KeptTables, TablesKeptTypes
<1>7. Types'
  <2>1. ControlTypes'
    BY <1>1, <1>2, <1>3 DEF Types, ControlTypes
  <2>2. QED
    BY <1>4, <1>6, <2>1 DEF Types
<1>8. FreshInv'
  BY <1>1, <1>2 DEF FreshInv, Fresh
<1>9. DownInv'
  BY <1>1, <1>2, <1>4 DEF DownInv, Fresh
<1>10. DiskInv' /\ ~Live'
  BY <1>2 DEF DiskInv, Live
<1>11. QED
  BY <1>4, <1>6, <1>7, <1>8, <1>9, <1>10, QuietAll

LEMMA RecoverTablesStep ==
  ASSUME AllInv, RecoverTables
  PROVE  AllInv'
<1> USE DEF AllInv, FileInvs, MemInvs
<1>1. /\ UNCHANGED <<logs, writer, wal_files, active, memtable, file, filepath, buffer, wal_log_counter, flusher>>
      /\ UNCHANGED <<sstables, merge, awake, doomed, unlinked, flush_num, writes, lost, trusted, starts>>
  BY DEF RecoverTables, disk, memVars, walVars, flushVars, mergeVars, lives
<1>2. phase = "tables" /\ phase' \in {"failed", "logs"} /\ trusted /\ starts # 1
  BY DEF RecoverTables, Types, ControlTypes
<1>3. phase' = "logs" => \A t \in DOMAIN sstables : sstables[t].finished
  BY DEF RecoverTables
<1>4. LogInv' /\ LogTypes' /\ WriteTypes'
      /\ (\A n : Records(n)' = Records(n))
      /\ Known' = Known
      /\ \A k \in Keys : Logged(k, DOMAIN logs)' <=> Logged(k, DOMAIN logs)
  BY <1>1, KeptLogs DEF LogsKept
<1>5. TableInv' /\ TableTypes'
  BY RecoverTablesTables
<1>6. Types'
  <2>1. ControlTypes'
    BY <1>1, <1>2 DEF Types, ControlTypes
  <2>2. QED
    BY <1>4, <1>5, <2>1 DEF Types
<1>7. FreshInv'
  BY <1>1, <1>2 DEF FreshInv, Fresh
<1>8. DownInv'
  <2>1. SUFFICES ASSUME phase' = "logs"
                 PROVE  DownInv'
    BY <1>2 DEF DownInv, Fresh
  <2>2. QED
    BY <1>1, <1>2, <1>3, <1>4, <2>1 DEF DownInv, Fresh
<1>9. DiskInv' /\ ~Live'
  BY <1>2 DEF DiskInv, Live
<1>10. QED
  BY <1>4, <1>5, <1>6, <1>7, <1>8, <1>9, QuietAll

(* A log without a broken record is read as what it holds.                 *)
LEMMA ReplayedIs ==
  ASSUME Types, LogInv, NEW n \in DOMAIN logs, \A i \in DOMAIN logs[n] : logs[n][i] > 0,
         NEW m \in Replayed(n)
  PROVE  m \in [Keys -> 0..Len(writes)] /\ \A k \in Keys : m[k] = NewestIn(writes, k, Records(n))
<1>1. PICK L \in Seq(-1..Len(writes)) : L = logs[n]
  BY DEF Types, LogTypes
<1>2. \A i \in 1..Len(L) : L[i] > 0 /\ L[i] \in Int
  BY <1>1, ElementOfSeq, KnownFacts
<1>3. SelectInSeq(logs[n], LAMBDA r : r <= 0) = 0
  <2>1. {i \in 1..Len(L) : L[i] <= 0} = {}
    BY <1>2
  <2>2. QED
    BY <1>1, <2>1 DEF SelectInSeq
<1>4. m = [k \in Keys |-> NewestOf(k, ToSet(logs[n]))]
  BY <1>3 DEF Replayed
<1>5. Records(n) = ToSet(logs[n])
  <2>1. \A r \in ToSet(logs[n]) : r > 0
    BY <1>1, <1>2 DEF ToSet
  <2>2. QED
    BY <2>1 DEF Records
<1>6. \A k \in Keys : NewestOf(k, ToSet(logs[n])) = NewestIn(writes, k, Records(n))
  BY <1>5 DEF NewestOf, NewestIn
<1>7. \A k \in Keys : NewestIn(writes, k, Records(n)) \in 0..Len(writes)
  BY KnownFacts, RecFacts, NewestFacts
<1>8. QED
  BY <1>4, <1>6, <1>7

(* What a recovery finds when it has opened the tables.                    *)
LEMMA BeforeLogs ==
  ASSUME AllInv, phase = "logs"
  PROVE  /\ Fresh /\ Loaded /\ trusted /\ starts # 1
         /\ writer = "run" /\ active = 0 /\ flusher = "idle" /\ wal_log_counter = 1
         /\ memtable[0] = Empty /\ memtable[1] = Empty
         /\ \A i \in Slots : file[i] = NULL /\ filepath[i] = NULL /\ buffer[i] = <<>>
         /\ \A n : Rec(n) = Records(n)
         /\ Unpublished = {}
         /\ \A k \in Keys : ~Logged(k, DOMAIN logs) =>
              ListedFrom(0, k) = AnswerIn(writes, NewestIn(writes, k, Known))
<1> USE DEF AllInv
<1>1. Fresh /\ Loaded /\ trusted /\ starts # 1
  BY DEF Fresh, Loaded, Types, ControlTypes
<1>2. PICK F : F = [l \in MergeLevels |-> Idle]
  OBVIOUS
<1>3. /\ writer = "run" /\ active = 0 /\ flusher = "idle" /\ wal_log_counter = 1
      /\ memtable = [i \in Slots |-> Empty]
      /\ file = [i \in Slots |-> NULL] /\ filepath = [i \in Slots |-> NULL]
      /\ buffer = [i \in Slots |-> <<>>] /\ merge = F /\ doomed = {}
  BY <1>1, <1>2 DEF FreshInv
<1>4. 0 \in Slots /\ 1 \in Slots
  BY Constants_
<1>5. /\ memtable[0] = Empty /\ memtable[1] = Empty
      /\ \A i \in Slots : file[i] = NULL /\ filepath[i] = NULL /\ buffer[i] = <<>>
  BY <1>3, <1>4
<1>6. \A i \in Slots : ToSet(buffer[i]) = {}
  BY <1>5, NoRecords
<1>7. \A n : Rec(n) = Records(n)
  <2>1. \A n, r : r \in Rec(n) <=> r \in Records(n)
    BY <1>4, <1>6, RecIs
  <2>2. QED
    BY <2>1
<1>8. Unpublished = {}
  <2>1. \A r : r \notin Unpublished
    BY <1>4, <1>6, UnpublishedIs
  <2>2. QED
    BY <2>1
<1>9. Listed = DOMAIN sstables
  <2>1. ASSUME NEW t \in DOMAIN sstables
        PROVE  t \in Listed
    <3>1. \A l \in MergeLevels : ~Merging(l)
      BY <1>2, <1>3 DEF Merging, Idle
    <3>2. t \notin doomed /\ ~Writing
      BY <1>3 DEF Writing
    <3>3. QED
      BY <1>1, <3>1, <3>2 DEF TableInv, ListInv
  <2>2. Listed \subseteq DOMAIN sstables
    BY DEF TableInv, ListInv
  <2>3. QED
    BY <2>1, <2>2
<1>10. Deeper(Listed, 0) = DOMAIN sstables
  <2>1. \A t \in Listed : t[1] >= 0
    BY AllTablesFacts DEF Listed
  <2>2. QED
    BY <1>9, <2>1 DEF Deeper
<1>11. ASSUME NEW k \in Keys, ~Logged(k, DOMAIN logs)
       PROVE  ListedFrom(0, k) = AnswerIn(writes, NewestIn(writes, k, Known))
  <2>1. AnswerIn(writes, EntryIn(sstables, DOMAIN sstables, k)) = AnswerIn(writes, NewestIn(writes, k, Known))
    BY <1>1, <1>11 DEF DownInv
  <2>2. QED
    BY <1>10, <2>1 DEF ListedFrom
<1>12. QED
  BY <1>1, <1>3, <1>5, <1>7, <1>8, <1>11

(* The first, or only, log is read.                                        *)
FirstRead(d) ==
  /\ phase = "logs" /\ phase' \in {"up", "log2"} /\ d \in DOMAIN logs /\ ReadLog(d)
  /\ UNCHANGED <<disk, active, filepath, buffer, flushVars, tableVars, mergeVars, writes, lives>>

LEMMA FirstLogRead ==
  ASSUME AllInv, NEW d \in DOMAIN logs, FirstRead(d)
  PROVE  /\ memtable' \in [Slots -> [Keys -> 0..Len(writes)]] /\ memtable'[1] = Empty
         /\ \A k \in Keys : memtable'[0][k] = NewestIn(writes, k, Records(d))
         /\ file' \in [Slots -> Nat \union {NULL, Closed}] /\ file'[0] = d /\ file'[1] = NULL
         /\ TableInv' /\ TableTypes' /\ SameAnswers
         /\ LogInv' /\ FileInv' /\ MemInv' /\ DurableInv' /\ FirstInv'
         /\ \A n : Records(n)' = Records(n)
         /\ Known' = Known
<1> USE DEF AllInv, FileInvs, MemInvs
<1>1. UNCHANGED <<logs, sstables, active, filepath, buffer, flusher, flush_num, readers_at_level, sstable_counter,
                  curr_max_level, merge, awake, doomed, unlinked, writes, lost, trusted, starts, crashes>>
      /\ phase = "logs" /\ phase' \in {"up", "log2"}
  BY DEF FirstRead, disk, flushVars, tableVars, mergeVars, lives
<1>2. /\ Fresh /\ Loaded /\ trusted /\ starts # 1
      /\ writer = "run" /\ active = 0 /\ flusher = "idle" /\ wal_log_counter = 1
      /\ memtable[0] = Empty /\ memtable[1] = Empty
      /\ \A i \in Slots : file[i] = NULL /\ filepath[i] = NULL /\ buffer[i] = <<>>
      /\ \A n : Rec(n) = Records(n)
      /\ Unpublished = {}
      /\ \A k \in Keys : ~Logged(k, DOMAIN logs) =>
           ListedFrom(0, k) = AnswerIn(writes, NewestIn(writes, k, Known))
  BY <1>1, BeforeLogs
<1>3. 0 \in Slots /\ 1 \in Slots /\ \A i \in Slots : i = 0 \/ i = 1
  BY Constants_
<1>4. \A i \in DOMAIN logs[d] : logs[d][i] > 0
  BY <1>2 DEF DownInv
<1>5. PICK m \in Replayed(d) : memtable' = [memtable EXCEPT ![0] = m]
  BY <1>2 DEF FirstRead, ReadLog
<1>6. m \in [Keys -> 0..Len(writes)] /\ \A k \in Keys : m[k] = NewestIn(writes, k, Records(d))
  BY <1>4, ReplayedIs
<1>7. /\ memtable' \in [Slots -> [Keys -> 0..Len(writes)]] /\ memtable'[0] = m /\ memtable'[1] = Empty
  <2>1. memtable \in [Slots -> [Keys -> 0..Len(writes)]]
    BY DEF Types, LogTypes
  <2>2. QED
    BY <1>2, <1>3, <1>5, <1>6, <2>1
<1>8. d \in Nat
  BY DEF Types, LogTypes
<1>9. /\ file' \in [Slots -> Nat \union {NULL, Closed}] /\ file'[0] = d /\ file'[1] = NULL
  <2>1. file \in [Slots -> Nat \union {NULL, Closed}] /\ file' = [file EXCEPT ![0] = d]
    BY <1>2 DEF Types, LogTypes, FirstRead, ReadLog
  <2>2. QED
    BY <1>2, <1>3, <1>8, <2>1
<1>10. TablesKept
  <2>1. Extends(writes, writes')
    BY <1>1, ExtendsSame
  <2>2. QED
    BY <1>1, <1>2, <2>1 DEF TablesKept
<1>11. TableInv' /\ TableTypes' /\ SameAnswers
  BY <1>10, KeptTables, TablesKeptTypes
<1>12. (\A n : Records(n)' = Records(n)) /\ Known' = Known
  BY <1>1 DEF Records, Known
<1>13. \A i \in Slots : ToSet(buffer[i]) = {} /\ buffer'[i] = <<>>
  BY <1>1, <1>2, NoRecords
<1>14. \A n : Rec(n)' = Records(n)
  <2>1. \A n, r : r \in Rec(n)' <=> r \in Records(n)
    BY <1>1, <1>3, <1>12, <1>13, RecIs
  <2>2. QED
    BY <2>1
<1>15. LogInv'
  BY <1>1, <1>2, <1>12, <1>14 DEF LogInv
<1>16. FileInv'
  BY <1>1, <1>3, <1>8, <1>9, <1>13 DEF FileInv, NULL
<1>17. MemInv'
  <2>1. Held(0)' = Records(d)
    BY <1>8, <1>9, <1>14 DEF Held
  <2>2. ~Filling' /\ active' = 0 /\ 1 - active' = 1
    BY <1>1, <1>2 DEF Filling
  <2>3. \A k \in Keys : memtable'[1][k] = 0
    BY <1>7 DEF Empty
  <2>4. QED
    BY <1>1, <1>6, <1>7, <2>1, <2>2, <2>3 DEF MemInv
<1>18. DurableInv'
  <2>1. Clearing' = {} /\ Unpublished' = {}
    <3>1. \A r : r \notin Unpublished'
      BY <1>1, <1>3, <1>13, UnpublishedIs
    <3>2. Unpublished' = {}
      BY <3>1
    <3>3. QED
      BY <1>1, <1>2, <3>2 DEF Clearing
  <2>2. DOMAIN logs' \ Clearing' = DOMAIN logs /\ Known' \ Unpublished' = Known
    BY <1>1, <1>12, <2>1
  <2>3. \A k \in Keys : Logged(k, DOMAIN logs) => Logged(k, DOMAIN logs \ Clearing)'
    BY <1>1, <1>12, <2>2 DEF Logged
  <2>4. QED
    BY <1>1, <1>2, <1>11, <2>2, <2>3 DEF DurableInv, SameAnswers
<1>19. FirstInv'
  BY <1>1, <1>2 DEF FirstInv
<1>20. QED
  BY <1>6, <1>7, <1>9, <1>11, <1>12, <1>15, <1>16, <1>17, <1>18, <1>19

(* A write that is newer than the newest that log d has of its key is in   *)
(* another log.                                                            *)
LEMMA NewerInOther ==
  ASSUME AllInv, phase = "logs", NEW d \in DOMAIN logs, NEW k \in Keys, NEW x \in Known, writes[x].key = k,
         NewestIn(writes, k, Records(d)) # 0, x > NewestIn(writes, k, Records(d))
  PROVE  \E e \in DOMAIN logs : e # d /\ x \in Records(e)
<1> USE DEF AllInv, FileInvs
<1>1. Fresh /\ trusted
  BY BeforeLogs
<1>2. PICK e \in DOMAIN logs : x \in Records(e)
  BY <1>1 DEF DownInv
<1>3. PICK n \in Nat : n = Len(writes)
  BY KnownFacts
<1>4. \A r \in Records(d) : r \in 1..n
  BY <1>3, RecFacts
<1>5. PICK w \in 0..n : w = NewestIn(writes, k, Records(d))
  BY <1>4, NewestFacts
<1>6. x \in Records(d) => x <= w
  <2>1. \A r \in Records(d) : writes[r].key = k => r <= NewestIn(writes, k, Records(d)) /\ NewestIn(writes, k, Records(d)) # 0
    BY <1>4, NewestFacts
  <2>2. QED
    BY <1>5, <2>1
<1>7. x \in 1..n
  BY <1>3, KnownFacts
<1>8. QED
  BY <1>2, <1>5, <1>6, <1>7

(* A write of a key that is the newest of a log and newer than those of    *)
(* the others is the newest of all.                                        *)
LEMMA NewestOfAll ==
  ASSUME AllInv, phase = "logs", NEW d \in DOMAIN logs, NEW k \in Keys,
         NewestIn(writes, k, Records(d)) # 0,
         \A e \in DOMAIN logs : e # d => \A x \in Records(e) : writes[x].key = k => x < NewestIn(writes, k, Records(d))
  PROVE  NewestIn(writes, k, Known) = NewestIn(writes, k, Records(d))
<1> USE DEF AllInv, FileInvs
<1>1. PICK n \in Nat : n = Len(writes)
  BY KnownFacts
<1>2. (\A r \in Records(d) : r \in 1..n) /\ \A x \in Known : x \in 1..n
  BY <1>1, RecFacts, KnownFacts
<1>3. PICK w \in 0..n : w = NewestIn(writes, k, Records(d))
  BY <1>2, NewestFacts
<1>4. PICK v \in 0..n : v = NewestIn(writes, k, Known)
  BY <1>2, NewestFacts
<1>5. w \in Records(d) /\ writes[w].key = k /\ w \in Known
  <2>1. w \in Records(d) /\ writes[w].key = k
    BY <1>2, <1>3, NewestFacts
  <2>2. QED
    BY <2>1, RecFacts
<1>6. w <= v /\ v # 0
  <2>1. \A r \in Known : writes[r].key = k => r <= NewestIn(writes, k, Known) /\ NewestIn(writes, k, Known) # 0
    BY <1>2, NewestFacts
  <2>2. QED
    BY <1>4, <1>5, <2>1
<1>7. v \in Known /\ writes[v].key = k
  BY <1>2, <1>4, <1>6, NewestFacts
<1>8. ASSUME v > w
      PROVE  FALSE
  <2>1. PICK e \in DOMAIN logs : e # d /\ v \in Records(e)
    BY <1>3, <1>7, <1>8, NewerInOther
  <2>2. v < w
    BY <1>3, <1>7, <2>1
  <2>3. QED
    BY <1>8, <2>2
<1>9. QED
  BY <1>3, <1>4, <1>6, <1>8

LEMMA OneLog ==
  ASSUME AllInv, phase = "logs", NEW n \in DOMAIN logs, DOMAIN logs = {n}, FirstRead(n), phase' = "up",
         wal_log_counter' = n + 1, UNCHANGED <<writer, wal_files>>
  PROVE  AllInv'
<1> USE DEF AllInv, FileInvs, MemInvs
<1>1. UNCHANGED <<logs, sstables, active, filepath, buffer, flusher, writes, lost, trusted, starts>>
  BY DEF FirstRead, disk, flushVars, lives
<1>2. /\ Fresh /\ trusted /\ starts # 1
      /\ writer = "run" /\ active = 0 /\ flusher = "idle"
      /\ \A i \in Slots : file[i] = NULL /\ filepath[i] = NULL /\ buffer[i] = <<>>
      /\ \A k \in Keys : ~Logged(k, DOMAIN logs) =>
           ListedFrom(0, k) = AnswerIn(writes, NewestIn(writes, k, Known))
  BY BeforeLogs
<1>3. 0 \in Slots /\ 1 \in Slots /\ \A i \in Slots : i = 0 \/ i = 1
  BY Constants_
<1>4. /\ memtable' \in [Slots -> [Keys -> 0..Len(writes)]] /\ memtable'[1] = Empty
      /\ \A k \in Keys : memtable'[0][k] = NewestIn(writes, k, Records(n))
      /\ file' \in [Slots -> Nat \union {NULL, Closed}] /\ file'[0] = n /\ file'[1] = NULL
      /\ TableInv' /\ TableTypes' /\ SameAnswers
      /\ LogInv' /\ FileInv' /\ MemInv' /\ DurableInv' /\ FirstInv'
      /\ \A d : Records(d)' = Records(d)
      /\ Known' = Known
  BY FirstLogRead
<1>5. n \in Nat
  BY RecFacts
<1>6. Live' /\ Works'
  BY DEF Live, Works
<1>7. Types'
  <2>1. LogTypes' /\ WriteTypes'
    BY <1>1, <1>4, <1>5 DEF Types, LogTypes, WriteTypes
  <2>2. ControlTypes'
    BY <1>1, <1>2 DEF Types, ControlTypes
  <2>3. QED
    BY <1>4, <2>1, <2>2 DEF Types
<1>8. PathInv'
  <2>1. /\ writer' = "run" /\ active' = 0 /\ 1 - active' = 1 /\ flusher' = "idle" /\ \A i \in Slots : filepath'[i] = -1
        /\ file'[0] = n /\ file'[1] = -1
    BY <1>1, <1>2, <1>4 DEF NULL
  <2>2. /\ \A d \in DOMAIN logs' : d = n
        /\ \A i \in Slots : filepath'[i] \notin DOMAIN logs'
    BY <1>1, <1>5, <2>1
  <2>3. \A i \in Slots : file'[1 - i] >= 0 => filepath'[i] # file'[1 - i]
    BY <2>1
  <2>4. -1 < n + 1 /\ n < n + 1 /\ n <= n /\ ~(n < 0)
    BY <1>5
  <2>5. QED
    BY <2>1, <2>2, <2>3, <2>4 DEF PathInv
<1>9. Log2Inv'
  BY DEF Log2Inv
<1>10. Pending' = {}
  BY DEF Pending
<1>11. \A k \in Keys : memtable'[1][k] = 0
  BY <1>4 DEF Empty
<1>12. ServeInv'
  <2>1. \A k \in Keys : NewestIn(writes, k, Pending') = 0
    BY <1>10, KnownFacts, NewestNone
  <2>2. ASSUME NEW k \in Keys, memtable'[0][k] # 0
        PROVE  NewestIn(writes, k, Known) = memtable'[0][k]
    <3>1. NewestIn(writes, k, Records(n)) # 0
      BY <1>4, <2>2
    <3>2. QED
      BY <1>4, <3>1, NewestOfAll
  <2>3. ASSUME NEW k \in Keys, memtable'[0][k] = 0
        PROVE  ListedFrom(0, k)' = AnswerIn(writes, NewestIn(writes, k, Known))
    <3>1. \A r \in Records(n) : r \in 1..Len(writes)
      BY RecFacts
    <3>2. \A r \in Records(n) : writes[r].key # k
      BY <1>4, <2>3, <3>1, KnownFacts, NewestFacts
    <3>3. ~Logged(k, DOMAIN logs)
      BY <3>2 DEF Logged
    <3>4. QED
      BY <1>2, <1>4, <3>3 DEF SameAnswers
  <2>4. active' = 0 /\ 1 - active' = 1
    BY <1>1, <1>2
  <2>5. QED
    BY <1>1, <1>4, <1>11, <2>1, <2>2, <2>3, <2>4 DEF ServeInv
<1>13. NextInv'
  BY <1>1, <1>2, <1>11 DEF NextInv
<1>14. QED
  BY <1>4, <1>6, <1>7, <1>8, <1>9, <1>12, <1>13, LiveAll

LEMMA TwoLogs ==
  ASSUME AllInv, phase = "logs", NEW m \in DOMAIN logs, NEW n \in DOMAIN logs, DOMAIN logs = {m, n}, SortsBefore(m, n),
         FirstRead(m), phase' = "log2", wal_files' = <<n>>, writer' = "full", UNCHANGED wal_log_counter
  PROVE  AllInv'
<1> USE DEF AllInv, FileInvs, MemInvs
<1>1. UNCHANGED <<logs, sstables, active, filepath, buffer, flusher, writes, lost, trusted, starts>>
  BY DEF FirstRead, disk, flushVars, lives
<1>2. /\ Fresh /\ trusted /\ starts # 1 /\ wal_log_counter = 1
      /\ writer = "run" /\ active = 0 /\ flusher = "idle"
      /\ \A i \in Slots : file[i] = NULL /\ filepath[i] = NULL /\ buffer[i] = <<>>
      /\ \A d : Rec(d) = Records(d)
      /\ \A k \in Keys : ~Logged(k, DOMAIN logs) =>
           ListedFrom(0, k) = AnswerIn(writes, NewestIn(writes, k, Known))
  BY BeforeLogs
<1>3. 0 \in Slots /\ 1 \in Slots /\ \A i \in Slots : i = 0 \/ i = 1
  BY Constants_
<1>4. /\ memtable' \in [Slots -> [Keys -> 0..Len(writes)]] /\ memtable'[1] = Empty
      /\ \A k \in Keys : memtable'[0][k] = NewestIn(writes, k, Records(m))
      /\ file' \in [Slots -> Nat \union {NULL, Closed}] /\ file'[0] = m /\ file'[1] = NULL
      /\ TableInv' /\ TableTypes' /\ SameAnswers
      /\ LogInv' /\ FileInv' /\ MemInv' /\ DurableInv' /\ FirstInv'
      /\ \A d : Records(d)' = Records(d)
      /\ Known' = Known
  BY FirstLogRead
<1>5. m \in Nat /\ n \in Nat
  BY RecFacts
<1>6. m < n /\ m # 1 /\ n > 1
  <2>1. m # n
    BY <1>5, SortsBeforeIsStrict
  <2>2. ~(n < m)
    <3>1. n < m => SortsBefore(n, m)
      BY <1>2 DEF DownInv
    <3>2. QED
      BY <1>5, <3>1, SortsBeforeIsStrict
  <2>3. m < n
    BY <1>5, <2>1, <2>2
  <2>4. m # 1 /\ n # 1
    BY <1>2, <2>3 DEF DownInv
  <2>5. QED
    BY <1>5, <2>3, <2>4
<1>7. Live' /\ Works'
  BY DEF Live, Works
<1>8. Types'
  <2>1. LogTypes' /\ WriteTypes'
    <3>1. wal_files' \in Seq(Nat)
      BY <1>5
    <3>2. QED
      BY <1>1, <1>4, <3>1 DEF Types, LogTypes, WriteTypes
  <2>2. ControlTypes'
    BY <1>1, <1>2 DEF Types, ControlTypes
  <2>3. QED
    BY <1>4, <2>1, <2>2 DEF Types
<1>9. PathInv'
  <2>1. /\ writer' = "full" /\ active' = 0 /\ 1 - active' = 1 /\ flusher' = "idle" /\ \A i \in Slots : filepath'[i] = -1
        /\ file'[0] = m /\ file'[1] = -1 /\ wal_log_counter' = 1
    BY <1>1, <1>2, <1>4 DEF NULL
  <2>2. \A i \in Slots : filepath'[i] \notin DOMAIN logs'
    BY <1>1, <1>5, <2>1
  <2>3. \A i \in Slots : file'[1 - i] >= 0 => filepath'[i] # file'[1 - i]
    BY <2>1
  <2>4. ~(m < 0)
    BY <1>5
  <2>5. QED
    BY <2>1, <2>2, <2>3, <2>4 DEF PathInv
<1>10. Second' = n
  BY DEF Second
<1>11. Log2Inv'
  <2>1. Len(wal_files') = 1
    BY <1>5
  <2>2. \A d \in DOMAIN logs : d <= n
    BY <1>5, <1>6
  <2>3. \A i \in DOMAIN logs[n] : logs[n][i] > 0
    BY <1>2 DEF DownInv
  <2>4. m \in DOMAIN logs \ {1, n} /\ 1 \notin DOMAIN logs
    BY <1>5, <1>6
  <2>5. \A i \in Slots : buffer'[i] = <<>>
    BY <1>1, <1>2
  <2>6. QED
    BY <1>1, <1>2, <1>3, <1>4, <1>6, <1>10, <2>1, <2>2, <2>3, <2>4, <2>5 DEF Log2Inv
<1>12. Pending' = Records(n)
  BY <1>4, <1>10 DEF Pending
<1>13. \A k \in Keys : memtable'[1][k] = 0
  BY <1>4 DEF Empty
<1>14. (\A r \in Records(m) : r \in 1..Len(writes)) /\ (\A r \in Records(n) : r \in 1..Len(writes)) /\ Len(writes) \in Nat
  BY RecFacts, KnownFacts
<1>15. active' = 0 /\ 1 - active' = 1
  BY <1>1, <1>2
<1>16. ServeInv'
  <2>1. ASSUME NEW k \in Keys, NewestIn(writes, k, Records(n)) # 0
        PROVE  NewestIn(writes, k, Known) = NewestIn(writes, k, Records(n))
    <3>1. NewestIn(writes, k, Records(n)) \in Records(n)
      BY <1>14, <2>1, NewestFacts
    <3>2. \A r \in Records(m), s \in Records(n) : r < s
      BY <1>2, <1>6 DEF LogInv
    <3>3. \A e \in DOMAIN logs : e # n => \A x \in Records(e) : writes[x].key = k => x < NewestIn(writes, k, Records(n))
      BY <3>1, <3>2
    <3>4. QED
      BY <2>1, <3>3, NewestOfAll
  <2>2. ASSUME NEW k \in Keys, NewestIn(writes, k, Records(n)) = 0, memtable'[0][k] # 0
        PROVE  NewestIn(writes, k, Known) = memtable'[0][k]
    <3>1. NewestIn(writes, k, Records(m)) # 0
      BY <1>4, <2>2
    <3>2. \A x \in Records(n) : writes[x].key # k
      BY <1>14, <2>2, NewestFacts
    <3>3. \A e \in DOMAIN logs : e # m => \A x \in Records(e) : writes[x].key = k => x < NewestIn(writes, k, Records(m))
      BY <3>2
    <3>4. QED
      BY <1>4, <3>1, <3>3, NewestOfAll
  <2>3. ASSUME NEW k \in Keys, NewestIn(writes, k, Records(n)) = 0, memtable'[0][k] = 0
        PROVE  ListedFrom(0, k)' = AnswerIn(writes, NewestIn(writes, k, Known))
    <3>1. \A r \in Records(m) : writes[r].key # k
      BY <1>4, <1>14, <2>3, NewestFacts
    <3>2. \A r \in Records(n) : writes[r].key # k
      BY <1>14, <2>3, NewestFacts
    <3>3. ~Logged(k, DOMAIN logs)
      BY <3>1, <3>2 DEF Logged
    <3>4. QED
      BY <1>2, <1>4, <3>3 DEF SameAnswers
  <2>4. QED
    BY <1>1, <1>4, <1>12, <1>13, <1>15, <2>1, <2>2, <2>3 DEF ServeInv
<1>17. NextInv'
  <2>1. ASSUME NEW k \in Keys, NEW x \in Known, writes[x].key = k, memtable'[0][k] # 0, x > memtable'[0][k]
        PROVE  x \in Records(n)
    <3>1. NewestIn(writes, k, Records(m)) # 0 /\ x > NewestIn(writes, k, Records(m))
      BY <1>4, <2>1
    <3>2. QED
      BY <2>1, <3>1, NewerInOther
  <2>2. QED
    BY <1>1, <1>4, <1>12, <1>13, <1>15, <2>1 DEF NextInv
<1>18. QED
  BY <1>4, <1>7, <1>8, <1>9, <1>11, <1>16, <1>17, LiveAll

LEMMA RecoverLogsStep ==
  ASSUME AllInv, RecoverLogs
  PROVE  AllInv'
<1>1. phase = "logs"
  BY DEF RecoverLogs
<1>2. CASE /\ phase' = "failed"
           /\ UNCHANGED <<memtable, file, wal_log_counter, writer, wal_files>>
  <2>1. /\ UNCHANGED <<logs, writer, wal_files, active, memtable, file, filepath, buffer, wal_log_counter, flusher>>
        /\ UNCHANGED <<sstables, merge, awake, doomed, unlinked, flush_num, writes, lost, trusted>>
        /\ UNCHANGED <<readers_at_level, sstable_counter, curr_max_level, starts>>
    BY <1>2 DEF RecoverLogs, disk, flushVars, tableVars, mergeVars, lives
  <2>2. LogInv' /\ LogTypes' /\ WriteTypes'
    BY <2>1, KeptLogs DEF LogsKept
  <2>3. TablesKept
    <3>1. Extends(writes, writes')
      BY <2>1, ExtendsSame DEF AllInv
    <3>2. QED
      BY <1>2, <2>1, <3>1 DEF TablesKept, Loaded
  <2>4. TableInv' /\ TableTypes'
    BY <2>3, KeptTables, TablesKeptTypes DEF AllInv
  <2>5. starts # 1
    BY <1>1, BeforeLogs
  <2>6. Types'
    <3>1. ControlTypes'
      BY <1>2, <2>1, <2>5 DEF AllInv, Types, ControlTypes
    <3>2. QED
      BY <2>2, <2>4, <3>1 DEF Types
  <2>7. FreshInv' /\ DownInv' /\ DiskInv' /\ ~Live'
    BY <1>2 DEF FreshInv, DownInv, DiskInv, Live, Fresh
  <2>8. QED
    BY <2>2, <2>4, <2>6, <2>7, QuietAll
<1>3. CASE \E n \in DOMAIN logs : /\ DOMAIN logs = {n} /\ ReadLog(n) /\ wal_log_counter' = NextNumber(n)
                                  /\ phase' = "up" /\ UNCHANGED <<writer, wal_files>>
  <2>1. PICK n \in DOMAIN logs : /\ DOMAIN logs = {n} /\ ReadLog(n) /\ wal_log_counter' = NextNumber(n)
                                 /\ phase' = "up" /\ UNCHANGED <<writer, wal_files>>
    BY <1>3
  <2>2. FirstRead(n)
    BY <1>1, <2>1 DEF FirstRead, RecoverLogs
  <2>3. wal_log_counter' = n + 1
    BY <2>1 DEF NextNumber
  <2>4. QED
    BY <1>1, <2>1, <2>2, <2>3, OneLog
<1>4. CASE \E m, n \in DOMAIN logs : /\ DOMAIN logs = {m, n} /\ SortsBefore(m, n) /\ ReadLog(m)
                                     /\ wal_files' = <<n>> /\ phase' = "log2" /\ writer' = "full"
                                     /\ UNCHANGED wal_log_counter
  <2>1. PICK m \in DOMAIN logs, n \in DOMAIN logs :
          /\ DOMAIN logs = {m, n} /\ SortsBefore(m, n) /\ ReadLog(m)
          /\ wal_files' = <<n>> /\ phase' = "log2" /\ writer' = "full"
          /\ UNCHANGED wal_log_counter
    BY <1>4
  <2>2. FirstRead(m)
    BY <1>1, <2>1 DEF FirstRead, RecoverLogs
  <2>3. QED
    BY <1>1, <2>1, <2>2, TwoLogs
<1>5. QED
  BY <1>2, <1>3, <1>4 DEF RecoverLogs

LEMMA RecoverSecondStep ==
  ASSUME AllInv, RecoverSecond
  PROVE  AllInv'
<1> USE DEF AllInv, FileInvs, MemInvs
<1>1. UNCHANGED <<logs, sstables, writer, active, filepath, buffer, flusher, flush_num, readers_at_level, sstable_counter,
                  curr_max_level, merge, awake, doomed, unlinked, writes, lost, trusted, starts>>
  BY DEF RecoverSecond, disk, flushVars, tableVars, mergeVars, lives
<1>2. /\ phase = "log2" /\ phase' = "up" /\ writer = "run" /\ wal_files' = <<>>
      /\ wal_log_counter' = Second + 1 /\ ReadLog(Second)
  BY DEF RecoverSecond, Second, NextNumber
<1>3. Works /\ Works' /\ Live /\ Live'
  BY <1>2, WorksIsLoaded DEF Works, Live
<1>4. starts # 1 /\ trusted
  BY <1>2 DEF Types, ControlTypes
<1>5. PICK s \in DOMAIN logs : s = Second /\ s \in Nat /\ s > 1
  BY <1>2, RecFacts DEF Log2Inv
<1>6. /\ \A n \in DOMAIN logs : n <= s
      /\ \A i \in DOMAIN logs[s] : logs[s][i] > 0
      /\ file[0] \in {Closed} \union (DOMAIN logs \ {1, s}) /\ filepath[0] = NULL
      /\ \A i \in Slots : buffer[i] = <<>>
      /\ active = 1 /\ file[1] = 1 /\ filepath[1] = 1 /\ wal_log_counter = 2 /\ logs[1] = <<>>
      /\ memtable[1] = Empty
  BY <1>2, <1>5 DEF Log2Inv
<1>7. 0 \in Slots /\ 1 \in Slots /\ \A i \in Slots : i = 0 \/ i = 1
  BY Constants_
<1>8. PICK m \in Replayed(s) : memtable' = [memtable EXCEPT ![1] = m]
  BY <1>2, <1>5, <1>6 DEF ReadLog
<1>9. m \in [Keys -> 0..Len(writes)] /\ \A k \in Keys : m[k] = NewestIn(writes, k, Records(s))
  BY <1>6, ReplayedIs
<1>10. memtable' \in [Slots -> [Keys -> 0..Len(writes)]] /\ memtable'[0] = memtable[0] /\ memtable'[1] = m
  <2>1. memtable \in [Slots -> [Keys -> 0..Len(writes)]]
    BY DEF Types, LogTypes
  <2>2. QED
    BY <1>7, <1>8, <1>9, <2>1
<1>11. file' \in [Slots -> Nat \union {NULL, Closed}] /\ file'[0] = file[0] /\ file'[1] = s
  <2>1. file \in [Slots -> Nat \union {NULL, Closed}] /\ file' = [file EXCEPT ![1] = s]
    BY <1>2, <1>5, <1>6 DEF Types, LogTypes, ReadLog
  <2>2. QED
    BY <1>5, <1>7, <2>1
<1>12. TablesKept
  <2>1. Extends(writes, writes')
    BY <1>1, ExtendsSame
  <2>2. memtable'[1 - active'] = memtable[1 - active]
    BY <1>1, <1>6, <1>10
  <2>3. QED
    BY <1>1, <1>2, <2>1, <2>2 DEF TablesKept, Loaded
<1>13. TableInv' /\ TableTypes' /\ SameAnswers
  BY <1>12, KeptTables, TablesKeptTypes
<1>14. Types'
  <2>1. wal_log_counter' \in Nat /\ wal_files' \in Seq(Nat)
    BY <1>2, <1>5
  <2>2. LogTypes' /\ WriteTypes'
    BY <1>1, <1>10, <1>11, <2>1 DEF Types, LogTypes, WriteTypes
  <2>3. ControlTypes'
    BY <1>1, <1>2, <1>4 DEF Types, ControlTypes
  <2>4. QED
    BY <1>13, <2>2, <2>3 DEF Types
<1>15. (\A n : Records(n)' = Records(n)) /\ Known' = Known
  BY <1>1 DEF Records, Known
<1>16. \A i \in Slots : ToSet(buffer[i]) = {} /\ buffer'[i] = <<>>
  BY <1>1, <1>6, NoRecords
<1>17. (\A n : Rec(n)' = Records(n)) /\ (\A n : Rec(n) = Records(n))
  <2>1. \A n, r : (r \in Rec(n)' <=> r \in Records(n)) /\ (r \in Rec(n) <=> r \in Records(n))
    BY <1>1, <1>7, <1>15, <1>16, RecIs
  <2>2. QED
    BY <2>1
<1>18. LogInv'
  BY <1>1, <1>15, <1>17 DEF LogInv
<1>19. FileInv'
  <2>1. \A i \in Slots : file'[i] >= 0 => file'[i] \in DOMAIN logs
    BY <1>3, <1>7, <1>11 DEF FileInv
  <2>2. file'[0] # file'[1]
    BY <1>5, <1>6, <1>11 DEF Closed
  <2>3. QED
    BY <1>1, <1>2, <1>16, <2>1, <2>2 DEF FileInv
<1>20. PathInv'
  <2>1. 1 - active = 0 /\ 1 - active' = 0 /\ active' = 1
    BY <1>1, <1>6
  <2>2. writer' = "open" <=> file'[active'] < 0
    BY <1>1, <1>2, <1>5, <1>11, <2>1
  <2>3. flusher' \in {"idle", "remove"} <=> file'[1 - active'] < 0
    BY <1>1, <1>3, <1>11, <2>1 DEF PathInv
  <2>4. \A n \in DOMAIN logs : n <= s /\ n < s + 1
    BY <1>5, <1>6, RecFacts
  <2>5. \A i \in Slots : file'[1 - i] >= 0 => filepath[i] # file'[1 - i]
    <3>1. filepath[0] # file'[1]
      BY <1>5, <1>6, <1>11 DEF NULL
    <3>2. file'[0] >= 0 => filepath[1] # file'[0]
      BY <1>6, <1>11 DEF Closed
    <3>3. 1 - 0 = 1 /\ 1 - 1 = 0
      OBVIOUS
    <3>4. QED
      BY <1>7, <3>1, <3>2, <3>3
  <2>6. \A i \in Slots : filepath[i] < s + 1
    BY <1>5, <1>6, <1>7 DEF NULL
  <2>7. \A i \in Slots : file'[i] >= 0 /\ filepath[i] \in DOMAIN logs => filepath[i] = file'[i] \/ logs[filepath[i]] = <<>>
    <3>1. filepath[0] \notin DOMAIN logs
      BY <1>6, RecFacts DEF NULL
    <3>2. logs[filepath[1]] = <<>>
      BY <1>6
    <3>3. QED
      BY <1>7, <3>1, <3>2
  <2>8. QED
    BY <1>1, <1>2, <1>5, <1>11, <2>1, <2>2, <2>3, <2>4, <2>5, <2>6, <2>7 DEF PathInv
<1>21. Log2Inv'
  BY <1>2 DEF Log2Inv
<1>22. Pending = Records(s) /\ Pending' = {}
  BY <1>2, <1>5 DEF Pending
<1>23. Held(1)' = Records(s) /\ Held(0)' = Held(0) /\ Held(1) = {}
  <2>1. Held(1)' = Records(s)
    BY <1>5, <1>11, <1>17 DEF Held
  <2>2. Held(0)' = Held(0)
    BY <1>11, <1>17 DEF Held
  <2>3. Records(1) = {}
    BY <1>6, NoRecords DEF Records
  <2>4. Held(1) = {}
    BY <1>6, <1>17, <2>3 DEF Held
  <2>5. QED
    BY <2>1, <2>2, <2>4
<1>24. active = 1 /\ active' = 1 /\ 1 - active = 0 /\ 1 - active' = 0
  BY <1>1, <1>6
<1>25. MemInv'
  <2>1. Filling' <=> Filling
    BY <1>1 DEF Filling
  <2>2. \A k \in Keys : /\ Filling => memtable[0][k] = NewestIn(writes, k, Held(0))
                        /\ ~Filling => memtable[0][k] = 0
    BY <1>3, <1>24 DEF MemInv
  <2>3. QED
    BY <1>1, <1>9, <1>10, <1>23, <1>24, <2>1, <2>2 DEF MemInv
<1>26. ServeInv'
  <2>1. ASSUME NEW k \in Keys
        PROVE  \/ NewestIn(writes, k, Pending') # 0 /\ NewestIn(writes, k, Known) = NewestIn(writes, k, Pending')
               \/ /\ NewestIn(writes, k, Pending') = 0
                  /\ m[k] # 0 => NewestIn(writes, k, Known) = m[k]
                  /\ m[k] = 0 /\ memtable[0][k] # 0 =>
                       NewestIn(writes, k, Known) = memtable[0][k]
                  /\ m[k] = 0 /\ memtable[0][k] = 0 =>
                       ListedFrom(0, k)' = AnswerIn(writes, NewestIn(writes, k, Known))
    <3>1. memtable[1][k] = 0
      BY <1>6 DEF Empty
    <3>2. \/ NewestIn(writes, k, Pending) # 0 /\ NewestIn(writes, k, Known) = NewestIn(writes, k, Pending)
          \/ /\ NewestIn(writes, k, Pending) = 0
             /\ memtable[0][k] # 0 =>
                  NewestIn(writes, k, Known) = memtable[0][k]
             /\ memtable[0][k] = 0 =>
                  ListedFrom(0, k) = AnswerIn(writes, NewestIn(writes, k, Known))
      BY <1>3, <1>24, <3>1 DEF ServeInv
    <3>3. m[k] = NewestIn(writes, k, Pending)
      BY <1>9, <1>22
    <3>4. NewestIn(writes, k, Pending') = 0
      BY <1>22, KnownFacts, NewestNone
    <3>5. QED
      BY <1>13, <3>2, <3>3, <3>4 DEF SameAnswers
  <2>2. QED
    BY <1>1, <1>10, <1>15, <1>24, <2>1 DEF ServeInv
<1>27. NextInv'
  <2>1. \A k \in Keys, x \in Known : writes[x].key = k /\ memtable[0][k] # 0 /\ x > memtable[0][k] => x \in Records(s)
    BY <1>3, <1>22, <1>23, <1>24 DEF NextInv
  <2>2. QED
    BY <1>1, <1>2, <1>10, <1>15, <1>23, <1>24, <2>1 DEF NextInv
<1>28. DurableInv'
  <2>1. Clearing' = Clearing
    BY <1>1 DEF Clearing
  <2>2. Unpublished' = Unpublished
    BY <1>1 DEF Unpublished
  <2>3. \A k \in Keys : Logged(k, DOMAIN logs \ Clearing)' <=> Logged(k, DOMAIN logs \ Clearing)
    BY <1>1, <1>15, <2>1 DEF Logged
  <2>4. QED
    BY <1>1, <1>3, <1>13, <1>15, <2>2, <2>3 DEF DurableInv, SameAnswers
<1>29. FirstInv'
  BY <1>1, <1>4 DEF FirstInv
<1>30. QED
  BY <1>3, <1>13, <1>14, <1>18, <1>19, <1>20, <1>21, <1>25, <1>26, <1>27, <1>28, <1>29, LiveAll

-----------------------------------------------------------------------------
(* The end of a life.                                                      *)

(* What a recovery will find in the tables, when all are finished and the  *)
(* merged ones were unlinked from the oldest on: a merged table and the    *)
(* inputs of one answer alike, and one that was just written is first.     *)
LEMMA AllFound ==
  ASSUME Types, TableInv, Loaded, \A t \in DOMAIN sstables : sstables[t].finished,
         \A t \in doomed : t[2] > unlinked[t[1]], NEW k \in Keys
  PROVE  AnswerIn(writes, EntryIn(sstables, DOMAIN sstables, k)) =
           IF flusher = "publish" /\ memtable[1 - active][k] # 0
           THEN AnswerIn(writes, memtable[1 - active][k]) ELSE ListedFrom(0, k)
<1> USE DEF TableInv
<1>1. PICK N \in Nat : \A t \in DOMAIN sstables : t[2] <= N
  BY Bounded
<1>2. PICK D, P, M : /\ D = DOMAIN sstables /\ P = Published
                     /\ M = {t \in D : \E l \in MergeLevels : merge[l].at = "add" /\ t = MergeTable(l)}
  OBVIOUS
<1>3. D \subseteq AllTables /\ P \subseteq D /\ Listed \subseteq P /\ \A t \in Listed \union doomed : t \in P
  <2>1. \A t \in doomed : t \in Published
    BY DEF Published
  <2>2. D \subseteq AllTables
    BY <1>2 DEF Types, TableTypes, FileTypes
  <2>3. QED
    BY <1>2, <2>1, <2>2, ListedFacts
<1>4. \A t \in P : t \in Listed \union doomed
  BY <1>2 DEF Published
<1>5. AnswerIn(writes, EntryIn(sstables, P, k)) = ListedFrom(0, k)
  <2>1. \A t \in P : t[1] >= 0
    BY <1>3, AllTablesFacts
  <2>2. Deeper(P, 0) = P
    BY <2>1 DEF Deeper
  <2>3. 0 \in 0..(MAX_LEVEL + 1)
    BY Constants_
  <2>4. PublishedFrom(0, k) = ListedFrom(0, k)
    BY <2>3 DEF DoomedInv
  <2>5. QED
    BY <1>2, <2>2, <2>4 DEF PublishedFrom
<1>6. EntryIn(sstables, P \union M, k) = EntryIn(sstables, P, k)
  <2>1. ASSUME NEW t \in M, sstables[t].data[k] # 0
        PROVE  \E u \in P : sstables[u].data[k] # 0 /\ Before(u, t)
    <3>1. PICK l \in MergeLevels : merge[l].at = "add" /\ t = MergeTable(l)
      BY <1>2, <2>1
    <3>2. PICK X, e : X = InputTables(l) /\ e = EntryIn(sstables, X, k)
      OBVIOUS
    <3>3. sstables[MergeTable(l)].data[k] = PurgedIn(writes, merge[l].purge, e) /\ Len(readers_at_level[l]) >= COMPACTION_TRIGGER
      BY <3>1, <3>2 DEF OutputInv, MergeOutput
    <3>4. e # 0
      BY <2>1, <3>1, <3>3 DEF PurgedIn
    <3>5. X \subseteq P /\ X \subseteq AllTables /\ \A u \in X : u[2] <= N
      BY <1>1, <1>2, <1>3, <3>2, <3>3, InputsListed
    <3>6. Holders(sstables, X, k) # {}
      BY <3>2, <3>4 DEF EntryIn
    <3>7. PICK u \in X : IsTop(sstables, X, k, u)
      BY <3>5, <3>6, TopExists
    <3>8. sstables[u].data[k] # 0 /\ u[1] = l
      BY <3>2, <3>7 DEF IsTop, Holders, InputTables
    <3>9. t[1] = l + 1 /\ l \in Nat
      BY <3>1, MergeLevelsFacts DEF MergeTable
    <3>10. Before(u, t)
      BY <3>8, <3>9 DEF Before
    <3>11. QED
      BY <3>5, <3>8, <3>10
  <2>2. M \subseteq AllTables /\ P \subseteq AllTables /\ \A u \in P : u[2] <= N
    BY <1>1, <1>2, <1>3
  <2>3. QED
    BY <2>1, <2>2, AddShadowed
<1>7. D = P \union M \/ (flusher = "publish" /\ D = (P \union M) \union {FlushTable})
  <2>1. ASSUME NEW t \in D
        PROVE  t \in P \/ t \in M \/ (flusher = "publish" /\ t = FlushTable)
    <3>1. \/ t \in Listed \/ t \in doomed \/ (Writing /\ t = FlushTable)
          \/ \E l \in MergeLevels : Merging(l) /\ t = MergeTable(l)
      BY <1>2, <2>1 DEF ListInv
    <3>2. sstables[t].finished
      BY <1>2, <2>1
    <3>3. Writing /\ t = FlushTable => flusher = "publish"
      BY <3>2 DEF Writing, OutputInv, FlushOutput
    <3>4. ASSUME NEW l \in MergeLevels, Merging(l), t = MergeTable(l)
          PROVE  merge[l].at = "add"
      BY <3>2, <3>4 DEF Merging, OutputInv, MergeOutput
    <3>5. QED
      BY <1>2, <1>3, <2>1, <3>1, <3>3, <3>4
  <2>2. P \subseteq D /\ M \subseteq D
    BY <1>2, <1>3
  <2>3. flusher = "publish" => FlushTable \in D
    BY <1>2 DEF Writing, OutputInv, FlushOutput
  <2>4. QED
    BY <2>1, <2>2, <2>3
<1>8. CASE flusher = "publish"
  <2>1. PICK t : t = FlushTable
    OBVIOUS
  <2>2. /\ t \in D /\ sstables[t].data[k] = memtable[1 - active][k] /\ t[1] = 0 /\ t[2] = flush_num
        /\ \A u \in Listed \union doomed : u[1] = 0 => u[2] < flush_num
    BY <1>2, <1>8, <2>1 DEF Writing, OutputInv, FlushOutput, FlushTable
  <2>3. PICK X, Y : X = P \union M /\ Y = X \union {t}
    OBVIOUS
  <2>4. \A u \in X : u[1] = t[1] => u[2] < t[2]
    <3>1. ASSUME NEW u \in M
          PROVE  u[1] # 0
      <4>1. PICK l \in MergeLevels : u = MergeTable(l)
        BY <1>2, <3>1
      <4>2. u[1] = l + 1 /\ l \in Nat
        BY <4>1, MergeLevelsFacts DEF MergeTable
      <4>3. QED
        BY <4>2
    <3>2. QED
      BY <1>4, <2>2, <2>3, <3>1
  <2>5. X \subseteq AllTables /\ t \in AllTables /\ \A u \in X : u[2] <= N
    BY <1>1, <1>2, <1>3, <2>2, <2>3
  <2>6. FirstAdded(sstables, X, Y, t, k, 0)
    BY <2>3, <2>4, <2>5, AddFirst
  <2>7. Deeper(X, 0) = X /\ Deeper(Y, 0) = Y
    <3>1. \A u \in Y : u[1] >= 0
      BY <2>3, <2>5, AllTablesFacts
    <3>2. QED
      BY <2>3, <3>1 DEF Deeper
  <2>8. D = Y
    BY <1>7, <2>1, <2>2, <2>3
  <2>9. CASE sstables[t].data[k] = 0
    <3>1. EntryIn(sstables, Y, k) = EntryIn(sstables, X, k)
      BY <2>6, <2>7, <2>9 DEF FirstAdded
    <3>2. QED
      BY <1>2, <1>5, <1>6, <2>2, <2>3, <2>8, <2>9, <3>1
  <2>10. CASE sstables[t].data[k] # 0
    <3>1. \A u \in X : ~(0 <= u[1] /\ u[1] < 0)
      BY <2>5, AllTablesFacts
    <3>2. EntryIn(sstables, Y, k) = sstables[t].data[k]
      BY <2>2, <2>6, <2>7, <2>10, <3>1 DEF FirstAdded
    <3>3. QED
      BY <1>2, <1>8, <2>2, <2>8, <2>10, <3>2
  <2>11. QED
    BY <2>9, <2>10
<1>9. CASE flusher # "publish"
  BY <1>2, <1>5, <1>6, <1>7, <1>9
<1>10. QED
  BY <1>8, <1>9

(* The logs ls are what a life leaves of its logs, and the writes gone are *)
(* lost with it or before.                                                 *)
Left(ls, gone) ==
  /\ DOMAIN ls = DOMAIN logs
  /\ \A n \in DOMAIN logs : ls[n] \in Seq(-1..Len(writes))
  /\ \A n \in DOMAIN logs : \A r \in Positive(ls, n) : r \in Rec(n) /\ r \notin gone
  /\ \A w \in gone : w \in 1..Len(writes)

Leaves(ls, gone) ==
  /\ Left(ls, gone)
  /\ \A n \in DOMAIN logs : \A r \in Records(n) : r \in Positive(ls, n)
  /\ \A w \in lost : w \in gone
  /\ \A w \in gone : w \in lost \/ w \in OnlyBuffered
  /\ \A w \in OnlyBuffered : w \in gone \/ \E n \in DOMAIN logs \ Clearing : w \in Positive(ls, n)

(* What answers for key k when the logs have nothing of it.                *)
TablesAnswer(k, gone) ==
  IF flusher = "publish" /\ memtable[1 - active][k] # 0
  THEN NewestIn(writes, k, (DOMAIN writes) \ gone) = memtable[1 - active][k]
  ELSE ListedFrom(0, k) = AnswerIn(writes, NewestIn(writes, k, (DOMAIN writes) \ gone))

LEMMA NotLogged ==
  ASSUME AllInv, Live, NEW ls, NEW gone, Leaves(ls, gone), NEW k \in Keys,
         \A n \in DOMAIN logs \ Clearing : \A r \in Positive(ls, n) : writes[r].key # k
  PROVE  TablesAnswer(k, gone)
<1> USE DEF AllInv, FileInvs, MemInvs
<1>1. PICK n \in Nat : n = Len(writes)
  BY KnownFacts
<1>2. PICK Y, Z : Y = (DOMAIN writes) \ gone /\ Z = Known \ OnlyBuffered
  OBVIOUS
<1>3. DOMAIN writes = 1..n
  BY <1>1 DEF Types, WriteTypes
<1>4. (\A x \in Y : x \in 1..n) /\ (\A x \in Z : x \in 1..n)
  BY <1>1, <1>2, <1>3, KnownFacts
<1>5. \A x \in 1..n : (x \in Y /\ writes[x].key = k) <=> (x \in Z /\ writes[x].key = k)
  <2>1. ASSUME NEW x \in 1..n, x \in Y, writes[x].key = k
        PROVE  x \in Z
    <3>1. x \notin gone /\ x \notin lost
      BY <1>2, <2>1 DEF Leaves
    <3>2. x \in Known
      BY <1>1, <3>1, KnownFacts
    <3>3. x \notin OnlyBuffered
      BY <2>1, <3>1 DEF Leaves
    <3>4. QED
      BY <1>2, <3>2, <3>3
  <2>2. ASSUME NEW x \in 1..n, x \in Z
        PROVE  x \in Y
    <3>1. x \notin lost /\ x \notin OnlyBuffered
      BY <1>2, <2>2 DEF Known
    <3>2. x \notin gone
      BY <3>1 DEF Leaves
    <3>3. QED
      BY <1>2, <1>3, <3>2
  <2>3. QED
    BY <2>1, <2>2
<1>6. NewestIn(writes, k, Y) = NewestIn(writes, k, Z)
  BY <1>4, <1>5, NewestSame
<1>7. ~Logged(k, DOMAIN logs \ Clearing)
  BY DEF Logged, Leaves
<1>8. (active = 0 /\ 1 - active = 1) \/ (active = 1 /\ 1 - active = 0)
  BY SlotFacts, Constants_
<1>9. CASE flusher = "publish"
  <2>1. Works
    BY <1>9 DEF Works, Live, FileInv
  <2>2. Clearing = {}
    BY <1>9 DEF Clearing
  <2>3. ~Logged(k, DOMAIN logs \ {filepath[1 - active]})
    BY <1>7, <2>2 DEF Logged
  <2>4. PublishedAsNew(k)
    BY <1>9, <2>1, <2>3, PublishedNewest
  <2>5. OnlyBuffered = ToSet(buffer[active])
    <3>1. \A x : x \in OnlyBuffered <=> x \in ToSet(buffer[active])
      BY <1>8, <1>9, OnlyBufferedIs
    <3>2. QED
      BY <3>1
  <2>6. QED
    BY <1>2, <1>6, <1>9, <2>4, <2>5 DEF PublishedAsNew, TablesAnswer
<1>10. CASE flusher # "publish"
  <2>1. Unpublished = OnlyBuffered
    <3>1. \A x : x \in OnlyBuffered <=> x \in Unpublished
      BY <1>8, <1>10, OnlyBufferedIs, UnpublishedIs
    <3>2. QED
      BY <3>1
  <2>2. ListedFrom(0, k) = AnswerIn(writes, NewestIn(writes, k, Z))
    BY <1>2, <1>7, <2>1 DEF DurableInv
  <2>3. QED
    BY <1>2, <1>6, <1>10, <2>2 DEF TablesAnswer
<1>11. QED
  BY <1>9, <1>10

(* What DataOnDisk says of the end of the first life.                      *)
OnDisk(ls, gone, k) ==
  LET w == NewestIn(writes, k, (DOMAIN writes) \ gone) IN
  \/ w = 0 \/ TombstoneIn(writes, w)
  \/ \E n \in DOMAIN logs : w \in ToSet(ls[n])
  \/ \E t \in DOMAIN sstables : sstables[t].finished /\ sstables[t].data[k] = w

LEMMA FirstLife ==
  ASSUME AllInv, Live, starts = 1, NEW ls, NEW gone, Leaves(ls, gone), NEW k \in Keys
  PROVE  OnDisk(ls, gone, k)
<1> USE DEF AllInv, FileInvs, MemInvs
<1>1. PICK n \in Nat : n = Len(writes)
  BY KnownFacts
<1>2. PICK Y : Y = (DOMAIN writes) \ gone
  OBVIOUS
<1>3. DOMAIN writes = 1..n
  BY <1>1 DEF Types, WriteTypes
<1>4. \A x \in Y : x \in 1..n
  BY <1>2, <1>3
<1>5. PICK w \in 0..n : w = NewestIn(writes, k, Y)
  BY <1>4, NewestFacts
<1>6. SUFFICES ASSUME w # 0, ~TombstoneIn(writes, w)
               PROVE  \/ \E d \in DOMAIN logs : w \in ToSet(ls[d])
                      \/ \E t \in DOMAIN sstables : sstables[t].finished /\ sstables[t].data[k] = w
  BY <1>2, <1>5 DEF OnDisk
<1>7. w \in Y /\ writes[w].key = k
  BY <1>4, <1>5, <1>6, NewestFacts
<1>8. \A x \in Y : writes[x].key = k => x <= w
  <2>1. \A x \in Y : writes[x].key = k => x <= NewestIn(writes, k, Y) /\ NewestIn(writes, k, Y) # 0
    BY <1>4, NewestFacts
  <2>2. QED
    BY <1>5, <2>1
<1>9. w \in Known /\ w \notin gone
  BY <1>1, <1>2, <1>3, <1>7, KnownFacts DEF Leaves
<1>10. flusher = "publish" => FlushTable \in DOMAIN sstables /\ sstables[FlushTable].finished
                              /\ sstables[FlushTable].data = memtable[1 - active]
  BY DEF TableInv, OutputInv, FlushOutput, Writing
<1>11. ASSUME NEW d \in DOMAIN logs, w \in Positive(ls, d)
       PROVE  \E e \in DOMAIN logs : w \in ToSet(ls[e])
  BY <1>11 DEF Positive
<1>12. CASE \A d \in DOMAIN logs \ Clearing : \A r \in Positive(ls, d) : writes[r].key # k
  <2>1. TablesAnswer(k, gone)
    BY <1>12, NotLogged
  <2>2. CASE flusher = "publish" /\ memtable[1 - active][k] # 0
    BY <1>2, <1>5, <1>10, <2>1, <2>2 DEF TablesAnswer
  <2>3. CASE ~(flusher = "publish" /\ memtable[1 - active][k] # 0)
    <3>1. ListedFrom(0, k) = AnswerIn(writes, w)
      BY <1>2, <1>5, <2>1, <2>3 DEF TablesAnswer
    <3>2. AnswerIn(writes, w) = w
      BY <1>6 DEF AnswerIn
    <3>3. PICK X, e : X = Deeper(Listed, 0) /\ e = EntryIn(sstables, X, k)
      OBVIOUS
    <3>4. AnswerIn(writes, e) = w
      BY <3>1, <3>2, <3>3 DEF ListedFrom
    <3>5. e = w
      BY <1>6, <3>4 DEF AnswerIn
    <3>6. PICK N \in Nat : \A t \in DOMAIN sstables : t[2] <= N
      BY Bounded
    <3>7. X \subseteq AllTables /\ X \subseteq Listed /\ \A t \in X : t[2] <= N
      BY <3>3, <3>6, ListedFacts DEF Deeper, TableInv
    <3>8. Holders(sstables, X, k) # {}
      BY <1>6, <3>3, <3>5 DEF EntryIn
    <3>9. PICK t \in X : IsTop(sstables, X, k, t)
      BY <3>7, <3>8, TopExists
    <3>10. sstables[t].data[k] = w
      BY <3>3, <3>5, <3>7, <3>9, TopIsEntry
    <3>11. t \in DOMAIN sstables /\ sstables[t].finished
      BY <3>7 DEF TableInv, ListInv
    <3>12. QED
      BY <3>10, <3>11
  <2>4. QED
    BY <2>2, <2>3
<1>13. CASE ~\A d \in DOMAIN logs \ Clearing : \A r \in Positive(ls, d) : writes[r].key # k
  <2>1. PICK d \in DOMAIN logs \ Clearing : \E r \in Positive(ls, d) : writes[r].key = k
    BY <1>13
  <2>2. PICK r \in Positive(ls, d) : writes[r].key = k
    BY <2>1
  <2>3. r \in Rec(d) /\ r \notin gone
    BY DEF Leaves, Left
  <2>4. r \in 1..n /\ r \in Known
    BY <1>1, <2>3, RecFacts
  <2>5. r <= w
    BY <1>2, <1>3, <1>8, <2>2, <2>3, <2>4
  <2>6. CASE r = w
    BY <1>11, <2>6
  <2>7. CASE r # w
    <3>1. w > r
      BY <2>4, <2>5, <2>7
    <3>2. PICK e \in DOMAIN logs \ Clearing : w \in Rec(e)
      BY <1>9, <2>3, <3>1 DEF FirstInv
    <3>3. CASE w \in Records(e)
      BY <1>11, <3>2, <3>3 DEF Leaves
    <3>4. CASE w \in OnlyBuffered
      BY <1>9, <1>11, <3>4 DEF Leaves
    <3>5. CASE w \notin Records(e) /\ w \notin OnlyBuffered
      <4>1. (active = 0 /\ 1 - active = 1) \/ (active = 1 /\ 1 - active = 0)
        BY SlotFacts, Constants_
      <4>2. PICK a \in Slots, b \in Slots : a = active /\ b = 1 - active
        BY SlotFacts
      <4>3. (a = 0 /\ b = 1) \/ (a = 1 /\ b = 0)
        BY <4>1, <4>2
      <4>4. file[b] = e /\ w \in ToSet(buffer[b]) /\ flusher \in {"publish", "close"}
        BY <3>2, <3>5, <4>2, <4>3, RecIs, OnlyBufferedIs
      <4>5. file[b] >= 0 /\ e \in DOMAIN logs
        BY <3>2, <4>4, RecFacts
      <4>6. Works
        BY <4>4 DEF Works, Live, FileInv
      <4>7. flusher = "publish"
        <5>1. filepath[b] = file[b]
          BY <4>5 DEF FirstInv
        <5>2. flusher = "close" => e \in Clearing
          BY <4>2, <4>4, <5>1 DEF Clearing
        <5>3. QED
          BY <3>2, <4>4, <5>2
      <4>8. PICK m : m = memtable[b][k]
        OBVIOUS
      <4>9. m = NewestIn(writes, k, Rec(e))
        BY <4>2, <4>4, <4>5, <4>6, <4>7, <4>8 DEF MemInv, Filling, Held
      <4>10. \A x \in Rec(e) : x \in 1..n
        BY <1>1, <4>5, RecFacts
      <4>11. w <= m /\ m # 0 /\ m \in 0..n
        <5>1. \A x \in Rec(e) : writes[x].key = k => x <= NewestIn(writes, k, Rec(e)) /\ NewestIn(writes, k, Rec(e)) # 0
          BY <4>10, NewestFacts
        <5>2. NewestIn(writes, k, Rec(e)) \in 0..n
          BY <4>10, NewestFacts
        <5>3. QED
          BY <1>7, <3>2, <4>9, <5>1, <5>2
      <4>12. m \in Rec(e) /\ writes[m].key = k
        BY <4>9, <4>10, <4>11, NewestFacts
      <4>13. m \notin gone
        <5>1. m \in Known
          BY <4>5, <4>12, RecFacts
        <5>2. m \notin ToSet(buffer[a])
          <6>1. file[0] >= 0 => file[0] # file[1]
            BY DEF FileInv
          <6>2. file[a] # e
            BY <4>3, <4>4, <4>5, <6>1
          <6>3. m \in Records(e) \/ m \in ToSet(buffer[b])
            BY <4>2, <4>3, <4>12, <6>2, RecIs
          <6>4. m \in Records(e) => m \notin ToSet(buffer[a])
            BY <4>5 DEF LogInv
          <6>5. m \in ToSet(buffer[b]) => m \notin ToSet(buffer[a])
            BY <4>3 DEF LogInv
          <6>6. QED
            BY <6>3, <6>4, <6>5
        <5>3. m \notin OnlyBuffered
          BY <4>2, <4>3, <4>7, <5>2, OnlyBufferedIs
        <5>4. QED
          BY <5>1, <5>3 DEF Known, Leaves
      <4>14. m \in Y
        BY <1>2, <1>3, <4>10, <4>12, <4>13
      <4>15. m = w
        BY <1>8, <4>11, <4>12, <4>14
      <4>16. QED
        BY <1>10, <4>2, <4>7, <4>8, <4>15
    <3>6. QED
      BY <3>3, <3>4, <3>5
  <2>8. QED
    BY <2>6, <2>7
<1>14. QED
  BY <1>12, <1>13

(* What the files answer when a process has read neither.                  *)
FilesAnswer(ls, gone) ==
  (\A t \in DOMAIN sstables : sstables[t].finished) => \A k \in Keys :
    (\A n \in DOMAIN logs : \A r \in Positive(ls, n) : writes[r].key # k) =>
      AnswerIn(writes, EntryIn(sstables, DOMAIN sstables, k)) =
        AnswerIn(writes, NewestIn(writes, k, (DOMAIN writes) \ gone))

LEMMA NewestTable ==
  ASSUME Types, sstables = <<>> \/ <<0, Max(TableNumbers)>> \notin DOMAIN sstables,
         NEW t \in DOMAIN sstables, t[1] = 0
  PROVE  \E u \in DOMAIN sstables : u[2] > t[2]
<1>1. PICK N \in Nat : \A u \in DOMAIN sstables : u[2] <= N
  BY Bounded
<1>2. \A u \in DOMAIN sstables : u = <<u[1], u[2]>> /\ u[2] \in Nat
  BY AllTablesFacts DEF Types, TableTypes, FileTypes
<1>3. PICK S : S = TableNumbers
  OBVIOUS
<1>4. S \subseteq 0..N /\ t[2] \in S
  BY <1>1, <1>2, <1>3 DEF TableNumbers
<1>5. PICK m : m = Max(S)
  OBVIOUS
<1>6. m \in S /\ t[2] <= m
  BY <1>4, <1>5, MaxFacts
<1>7. PICK u \in DOMAIN sstables : u[2] = m
  BY <1>3, <1>6 DEF TableNumbers
<1>8. DOMAIN sstables # {} /\ DOMAIN <<>> = {}
  OBVIOUS
<1>9. <<0, m>> \notin DOMAIN sstables
  BY <1>3, <1>5, <1>8
<1>10. t[2] # m
  BY <1>2, <1>9
<1>11. QED
  BY <1>2, <1>6, <1>7, <1>10

(* The end of a life that leaves the logs ls.                              *)
EndsWith(ls, gone) ==
  /\ phase' = "down" /\ logs' = ls /\ lost' = gone
  /\ trusted' = (trusted /\ InOrder(ls, gone))
  /\ FreshMemory /\ unlinked' = [l \in Levels |-> -1]
  /\ UNCHANGED <<sstables, writes, starts>>

LEMMA EndIs ==
  ASSUME NEW ls, NEW gone, End(ls, gone)
  PROVE  EndsWith(CutShort(ls), gone)
  BY DEF End, EndsWith

LEMMA EndStep ==
  ASSUME AllInv, NEW ls, NEW gone, Left(ls, gone), EndsWith(ls, gone),
         InOrder(ls, gone) /\ trusted => FilesAnswer(ls, gone),
         starts = 1 => \A k \in Keys : OnDisk(ls, gone, k)
  PROVE  AllInv'
<1> USE DEF AllInv, FileInvs, MemInvs
<1>1. /\ phase' = "down" /\ logs' = ls /\ lost' = gone
      /\ (trusted' <=> trusted /\ InOrder(ls, gone)) /\ trusted' \in BOOLEAN
      /\ UNCHANGED <<sstables, writes, starts>>
  BY DEF EndsWith
<1>2. PICK F, U, R : F = [l \in MergeLevels |-> Idle] /\ U = [l \in Levels |-> -1] /\ R = [l \in Levels |-> <<>>]
  OBVIOUS
<1>3. /\ writer' = "run" /\ wal_files' = <<>> /\ active' = 0 /\ memtable' = [i \in Slots |-> Empty]
      /\ file' = [i \in Slots |-> NULL] /\ filepath' = [i \in Slots |-> NULL]
      /\ buffer' = [i \in Slots |-> <<>>] /\ wal_log_counter' = 1
      /\ flusher' = "idle" /\ flush_num' = 0
      /\ readers_at_level' = R
      /\ sstable_counter' = 0 /\ curr_max_level' = 0
      /\ merge' = F /\ awake' = {} /\ doomed' = {} /\ unlinked' = U
  BY <1>2 DEF EndsWith, FreshMemory, MergeLevels
<1>4. PICK n \in Nat : n = Len(writes)
  BY KnownFacts
<1>5. DOMAIN writes = 1..n
  BY <1>4 DEF Types, WriteTypes
<1>6. 0 \in Slots /\ 1 \in Slots /\ \A i \in Slots : i = 0 \/ i = 1
  BY Constants_
<1>7. (\A d : Records(d)' = Positive(ls, d)) /\ (\A d : Rec(d)' = Positive(ls, d)) /\ Known' = (DOMAIN writes) \ gone
  <2>1. \A d : Records(d)' = Positive(ls, d)
    BY <1>1 DEF Records, Positive
  <2>2. \A i \in Slots : ToSet(buffer'[i]) = {}
    BY <1>3, NoRecords
  <2>3. \A d, r : r \in Rec(d)' <=> r \in Positive(ls, d)
    BY <1>6, <2>1, <2>2, RecIs
  <2>4. Known' = (DOMAIN writes) \ gone
    BY <1>1 DEF Known
  <2>5. \A d : Rec(d)' = Positive(ls, d)
    BY <2>3
  <2>6. QED
    BY <2>1, <2>4, <2>5
<1>8. DOMAIN ls = DOMAIN logs /\ \A d \in DOMAIN logs : \A r \in Positive(ls, d) : r \in Rec(d) /\ r \in Known'
  <2>1. \A d \in DOMAIN logs : \A r \in Positive(ls, d) : r \in Rec(d) /\ r \notin gone
    BY DEF Left
  <2>2. \A d \in DOMAIN logs : \A r \in Rec(d) : r \in 1..n
    BY <1>4, RecFacts
  <2>3. QED
    BY <1>5, <1>7, <2>1, <2>2 DEF Left
<1>9. Types'
  <2>1. ControlTypes'
    BY <1>1, <1>3, <1>6 DEF Types, ControlTypes
  <2>2. WriteTypes'
    BY <1>1 DEF Types, WriteTypes, Left
  <2>3. LogTypes'
    <3>1. \A d \in DOMAIN logs' : d \in Nat /\ logs'[d] \in Seq(-1..Len(writes'))
      BY <1>1, RecFacts DEF Left
    <3>2. memtable' \in [Slots -> [Keys -> 0..Len(writes')]]
      BY <1>1, <1>3, <1>4 DEF Empty
    <3>3. /\ file' \in [Slots -> Nat \union {NULL, Closed}] /\ filepath' \in [Slots -> Nat \union {NULL}]
          /\ buffer' \in [Slots -> Seq(1..Len(writes'))]
      BY <1>3
    <3>4. QED
      BY <1>3, <3>1, <3>2, <3>3 DEF LogTypes
  <2>4. FileTypes'
    BY <1>1 DEF Types, TableTypes, FileTypes
  <2>5. ListTypes'
    <3>1. R \in [Levels -> Seq(Nat)] /\ U \in [Levels -> Int]
      BY <1>2
    <3>2. F \in [MergeLevels -> Merges]
      BY <1>2 DEF Idle, Merges
    <3>3. 0 \in Levels /\ 0 \in Nat
      BY Constants_
    <3>4. QED
      BY <1>3, <3>1, <3>2, <3>3 DEF ListTypes
  <2>6. QED
    BY <2>1, <2>2, <2>3, <2>4, <2>5 DEF Types, TableTypes
<1>10. FreshInv'
  BY <1>2, <1>3 DEF FreshInv
<1>11. TableInv'
  <2>1. Listed' = {} /\ Published' = {}
    <3>1. \A t \in AllTables : ~InList(t)'
      <4>1. \A l \in Levels : DOMAIN R[l] = {}
        BY <1>2
      <4>2. \A t \in AllTables : t[1] \in Levels
        BY AllTablesFacts, Constants_
      <4>3. QED
        BY <1>3, <4>1, <4>2 DEF InList
    <3>2. QED
      BY <1>3, <3>1 DEF Listed, Published
  <2>2. ~Loaded' /\ ~Writing' /\ flusher' # "publish" /\ flusher' # "write"
    BY <1>1, <1>3 DEF Loaded, Writing
  <2>3. \A l \in MergeLevels : merge'[l].at = "idle"
    BY <1>2, <1>3 DEF Idle
  <2>4. \A l \in Levels : DOMAIN readers_at_level'[l] = {} /\ readers_at_level'[l] = <<>>
    BY <1>2, <1>3
  <2>5. CounterInv'
    BY <2>2 DEF CounterInv
  <2>6. ListInv'
    BY <1>3, <2>1, <2>2, <2>4 DEF ListInv
  <2>7. OutputInv'
    BY <2>2, <2>3 DEF OutputInv, FlushOutput, MergeOutput, Merging
  <2>8. PurgeInv'
    BY <1>3, <2>2, <2>3, <2>4 DEF PurgeInv, Merging
  <2>9. DoomedInv'
    BY <2>1 DEF DoomedInv, PublishedFrom, ListedFrom
  <2>10. RemovedInv'
    BY <2>3 DEF RemovedInv
  <2>11. QED
    BY <2>5, <2>6, <2>7, <2>8, <2>9, <2>10 DEF TableInv
<1>12. LogInv'
  <2>1. \A d \in DOMAIN logs' : \A r \in Rec(d)' : d \in DOMAIN logs /\ r \in Rec(d) /\ r \in Known'
    BY <1>1, <1>7, <1>8
  <2>2. \A c, d \in DOMAIN logs' : c < d => \A r \in Rec(c)', s \in Rec(d)' : r < s
    BY <2>1 DEF LogInv
  <2>3. \A i \in Slots : ToSet(buffer'[i]) = {} /\ DOMAIN buffer'[i] = {}
    BY <1>3, NoRecords
  <2>4. QED
    BY <1>6, <2>1, <2>2, <2>3 DEF LogInv
<1>13. DownInv'
  <2>1. SUFFICES ASSUME trusted, InOrder(ls, gone)
                 PROVE  DownInv'
    BY <1>1 DEF DownInv
  <2>2. \A c, d \in DOMAIN ls : c < d => SortsBefore(c, d) /\ c # 1 /\ d # 1
    BY <2>1 DEF InOrder
  <2>3. \A d \in DOMAIN ls : \A i \in DOMAIN ls[d] : ls[d][i] > 0
    BY <2>1 DEF InOrder
  <2>4. ASSUME NEW k \in Keys, NEW d \in DOMAIN ls, NewestIn(writes, k, Positive(ls, d)) # 0,
               NEW x \in Known', writes[x].key = k, x > NewestIn(writes, k, Positive(ls, d))
        PROVE  \E e \in DOMAIN ls : x \in Positive(ls, e)
    <3>1. PICK L, w : L = UNION {ToSet(ls[e]) : e \in DOMAIN ls} /\ w = NewestIn(writes, k, Positive(ls, d))
      OBVIOUS
    <3>2. NewestOf(k, ToSet(ls[d])) = w
      BY <3>1 DEF NewestOf, NewestIn, Positive
    <3>3. \A e \in DOMAIN logs : \A r \in Positive(ls, e) : r \in 1..n
      BY <1>5, <1>7, <1>8
    <3>4. w \in 0..n /\ w > 0
      BY <1>8, <2>4, <3>1, <3>3, NewestFacts
    <3>5. x \in 1..n /\ x \notin gone
      BY <1>5, <1>7, <2>4
    <3>6. w > 0 => \A y \in (w + 1)..Len(writes) : writes[y].key = k => y \in L \union gone
      BY <2>1, <3>1, <3>2 DEF InOrder
    <3>7. x \in (w + 1)..Len(writes)
      BY <1>4, <2>4, <3>1, <3>4, <3>5
    <3>8. x \in L
      BY <2>4, <3>4, <3>5, <3>6, <3>7
    <3>9. x > 0
      BY <3>5
    <3>10. QED
      BY <3>1, <3>8, <3>9 DEF Positive
  <2>5. \A t \in DOMAIN sstables : t[1] = 0 => \E u \in DOMAIN sstables : u[2] > t[2]
    BY <2>1, NewestTable DEF InOrder
  <2>6. ASSUME \A t \in DOMAIN sstables : sstables[t].finished, NEW k \in Keys, ~Logged(k, DOMAIN logs)'
        PROVE  AnswerIn(writes, EntryIn(sstables, DOMAIN sstables, k)) =
                 AnswerIn(writes, NewestIn(writes, k, (DOMAIN writes) \ gone))
    <3>1. \A d \in DOMAIN logs : \A r \in Positive(ls, d) : writes[r].key # k
      BY <1>1, <1>7, <1>8, <2>6 DEF Logged
    <3>2. FilesAnswer(ls, gone)
      BY <2>1
    <3>3. QED
      BY <2>6, <3>1, <3>2 DEF FilesAnswer
  <2>7. QED
    BY <1>1, <1>7, <2>2, <2>3, <2>4, <2>5, <2>6 DEF DownInv
<1>14. DiskInv'
  <2>1. SUFFICES ASSUME starts = 1
                 PROVE  DataOnDisk'
    BY <1>1 DEF DiskInv
  <2>2. OnlyBuffered' = {}
    <3>1. \A i \in Slots : ToSet(buffer'[i]) = {}
      BY <1>3, NoRecords
    <3>2. QED
      BY <3>1 DEF OnlyBuffered
  <2>3. ASSUME NEW k \in Keys
        PROVE  LET w == NewestIn(writes, k, (DOMAIN writes) \ gone) IN
               \/ w = 0 \/ TombstoneIn(writes, w)
               \/ \E d \in DOMAIN ls : Contains(ls[d], w)
               \/ \E t \in DOMAIN sstables : sstables[t].finished /\ sstables[t].data[k] = w
    <3>1. PICK w : w = NewestIn(writes, k, (DOMAIN writes) \ gone)
      OBVIOUS
    <3>2. OnDisk(ls, gone, k)
      BY <2>1
    <3>3. ASSUME NEW d \in DOMAIN logs, w \in ToSet(ls[d])
          PROVE  d \in DOMAIN ls /\ Contains(ls[d], w)
      <4>1. ls[d] \in Seq(-1..Len(writes))
        BY DEF Left
      <4>2. DOMAIN ls[d] = 1..Len(ls[d])
        BY <4>1
      <4>3. QED
        BY <1>8, <3>3, <4>2 DEF ToSet, Contains
    <3>4. QED
      BY <3>1, <3>2, <3>3 DEF OnDisk
  <2>4. QED
    BY <1>1, <2>2, <2>3 DEF DataOnDisk, NewestOf, NewestIn, IsTombstone, TombstoneIn
<1>15. ~Live'
  BY <1>1 DEF Live
<1>16. QED
  BY <1>9, <1>10, <1>11, <1>12, <1>13, <1>14, <1>15, QuietAll

LEMMA LiveEndStep ==
  ASSUME AllInv, Live, NEW ls, NEW gone, Leaves(ls, gone), EndsWith(ls, gone)
  PROVE  AllInv'
<1>1. ASSUME InOrder(ls, gone)
      PROVE  FilesAnswer(ls, gone)
  <2>1. ASSUME \A t \in DOMAIN sstables : sstables[t].finished, NEW k \in Keys,
               \A n \in DOMAIN logs : \A r \in Positive(ls, n) : writes[r].key # k
        PROVE  AnswerIn(writes, EntryIn(sstables, DOMAIN sstables, k)) =
                 AnswerIn(writes, NewestIn(writes, k, (DOMAIN writes) \ gone))
    <3>1. TablesAnswer(k, gone)
      BY <2>1, NotLogged
    <3>2. \A t \in doomed : t[2] > unlinked[t[1]]
      BY <1>1 DEF InOrder
    <3>3. Loaded
      BY DEF Live, Loaded
    <3>4. AnswerIn(writes, EntryIn(sstables, DOMAIN sstables, k)) =
            IF flusher = "publish" /\ memtable[1 - active][k] # 0
            THEN AnswerIn(writes, memtable[1 - active][k]) ELSE ListedFrom(0, k)
      BY <2>1, <3>2, <3>3, AllFound DEF AllInv
    <3>5. QED
      BY <3>1, <3>4 DEF TablesAnswer
  <2>2. QED
    BY <2>1 DEF FilesAnswer
<1>2. starts = 1 => \A k \in Keys : OnDisk(ls, gone, k)
  BY FirstLife
<1>3. Left(ls, gone)
  BY DEF Leaves
<1>4. QED
  BY <1>1, <1>2, <1>3, EndStep

(* Logs with the records that they have now, and the buffers lost.         *)
LEMMA SameRecords ==
  ASSUME AllInv, NEW ls, DOMAIN ls = DOMAIN logs, \A n \in DOMAIN logs : ls[n] \in Seq(-1..Len(writes)),
         \A n \in DOMAIN logs : \A r : r \in Positive(ls, n) <=> r \in Records(n)
  PROVE  Leaves(ls, lost \union OnlyBuffered)
<1> USE DEF AllInv, FileInvs
<1>1. \A r \in OnlyBuffered : \E i \in Slots : r \in ToSet(buffer[i])
  BY DEF OnlyBuffered
<1>2. \A r \in OnlyBuffered : r \in Known
  BY <1>1, RecFacts
<1>3. \A n \in DOMAIN logs : \A r \in Records(n) : r \in Rec(n) /\ r \notin lost /\ r \notin OnlyBuffered
  <2>1. \A n \in DOMAIN logs : \A r \in Records(n) : r \in Rec(n) /\ r \in Known
    BY RecFacts
  <2>2. \A n \in DOMAIN logs, i \in Slots : \A r \in Records(n) : r \notin ToSet(buffer[i])
    BY DEF LogInv
  <2>3. QED
    BY <1>1, <2>1, <2>2 DEF Known
<1>4. \A w \in lost \union OnlyBuffered : w \in 1..Len(writes)
  BY <1>2, KnownFacts DEF Types, WriteTypes
<1>5. Left(ls, lost \union OnlyBuffered)
  BY <1>3, <1>4 DEF Left
<1>6. QED
  BY <1>3, <1>5 DEF Leaves

(* A record that is there in part was none.                                *)
LEMMA CutShortFacts ==
  ASSUME NEW ls, NEW N \in Nat, NEW n \in DOMAIN ls, ls[n] \in Seq(-1..N)
  PROVE  /\ CutShort(ls)[n] \in Seq(-1..N)
         /\ \A r : r \in Positive(CutShort(ls), n) <=> r \in Positive(ls, n)
<1>1. PICK L \in Seq(-1..N) : L = ls[n]
  OBVIOUS
<1>2. PICK c \in Nat : c = Len(L) /\ DOMAIN L = 1..c
  OBVIOUS
<1>3. PICK M : M = [i \in 1..c |-> IF L[i] = 0 THEN -1 ELSE L[i]]
  OBVIOUS
<1>4. M = CutShort(ls)[n]
  BY <1>1, <1>2, <1>3 DEF CutShort, Torn, Junk
<1>5. \A i \in 1..c : L[i] \in -1..N /\ M[i] \in -1..N
  BY <1>1, <1>2, <1>3, ElementOfSeq
<1>6. M \in Seq(-1..N)
  BY <1>3, <1>5
<1>7. DOMAIN M = 1..c /\ \A i \in 1..c : \A r : r > 0 => (M[i] = r <=> L[i] = r)
  BY <1>3, <1>5
<1>8. \A r : r > 0 => (r \in ToSet(M) <=> r \in ToSet(L))
  BY <1>2, <1>7 DEF ToSet
<1>9. QED
  BY <1>1, <1>4, <1>6, <1>8 DEF Positive

LEMMA CutShortLeaves ==
  ASSUME AllInv, NEW ls, NEW gone, Leaves(ls, gone)
  PROVE  Leaves(CutShort(ls), gone)
<1>1. PICK N \in Nat : N = Len(writes)
  BY KnownFacts DEF AllInv
<1>2. PICK cs : cs = CutShort(ls)
  OBVIOUS
<1>3. DOMAIN ls = DOMAIN logs /\ DOMAIN cs = DOMAIN logs
  BY <1>2 DEF Leaves, Left, CutShort
<1>4. \A n \in DOMAIN logs : /\ cs[n] \in Seq(-1..N)
                            /\ \A r : r \in Positive(cs, n) <=> r \in Positive(ls, n)
  BY <1>1, <1>2, <1>3, CutShortFacts DEF Leaves, Left
<1>5. Left(cs, gone)
  BY <1>1, <1>3, <1>4 DEF Leaves, Left
<1>6. \A w \in OnlyBuffered : w \in gone \/ \E n \in DOMAIN logs \ Clearing : w \in Positive(cs, n)
  BY <1>4 DEF Leaves
<1>7. QED
  BY <1>2, <1>4, <1>5, <1>6 DEF Leaves

LEMMA CrashStep ==
  ASSUME AllInv, Crash
  PROVE  AllInv'
<1>1. PICK ls : ls = CutShort(logs)
  OBVIOUS
<1>2. PICK N \in Nat : N = Len(writes)
  BY KnownFacts DEF AllInv
<1>3. DOMAIN ls = DOMAIN logs
  BY <1>1 DEF CutShort
<1>4. ASSUME NEW n \in DOMAIN logs
      PROVE  ls[n] \in Seq(-1..N) /\ \A r : r \in Positive(ls, n) <=> r \in Records(n)
  <2>1. logs[n] \in Seq(-1..N)
    BY <1>2 DEF AllInv, Types, LogTypes
  <2>2. \A r : r \in Positive(logs, n) <=> r \in Records(n)
    BY DEF Positive, Records
  <2>3. QED
    BY <1>1, <1>2, <2>1, <2>2, CutShortFacts
<1>5. PICK gone : gone = lost \union OnlyBuffered
  OBVIOUS
<1>6. Leaves(ls, gone)
  BY <1>2, <1>3, <1>4, <1>5, SameRecords
<1>7. EndsWith(ls, gone)
  BY <1>1, <1>5, EndIs DEF Crash
<1>8. CASE Live
  BY <1>6, <1>7, <1>8, LiveEndStep
<1>9. CASE ~Live
  <2>1. phase \in {"tables", "logs"} /\ Fresh /\ starts # 1 /\ trusted
    BY <1>9 DEF AllInv, Types, ControlTypes, Live, Crash, Up, Fresh
  <2>2. \A i \in Slots : ToSet(buffer[i]) = {}
    <3>1. \A i \in Slots : buffer[i] = <<>>
      BY <2>1 DEF AllInv, FreshInv
    <3>2. QED
      BY <3>1, NoRecords
  <2>3. gone = lost
    <3>1. OnlyBuffered = {}
      BY <2>2 DEF OnlyBuffered
    <3>2. QED
      BY <1>5, <3>1
  <2>4. FilesAnswer(ls, gone)
    <3>1. ASSUME \A t \in DOMAIN sstables : sstables[t].finished, NEW k \in Keys,
                 \A n \in DOMAIN logs : \A r \in Positive(ls, n) : writes[r].key # k
          PROVE  AnswerIn(writes, EntryIn(sstables, DOMAIN sstables, k)) =
                   AnswerIn(writes, NewestIn(writes, k, (DOMAIN writes) \ gone))
      <4>1. ~Logged(k, DOMAIN logs)
        BY <1>4, <3>1 DEF Logged
      <4>2. QED
        BY <2>1, <2>3, <3>1, <4>1 DEF AllInv, DownInv, Known
    <3>2. QED
      BY <3>1 DEF FilesAnswer
  <2>5. Left(ls, gone)
    BY <1>6 DEF Leaves
  <2>6. QED
    BY <1>7, <2>1, <2>4, <2>5, EndStep
<1>10. QED
  BY <1>8, <1>9

LEMMA KilledStep ==
  ASSUME AllInv, Live, End(logs, lost \union OnlyBuffered)
  PROVE  AllInv'
<1>1. \A n \in DOMAIN logs : logs[n] \in Seq(-1..Len(writes))
  BY DEF AllInv, Types, LogTypes
<1>2. \A n \in DOMAIN logs : \A r : r \in Positive(logs, n) <=> r \in Records(n)
  BY DEF Positive, Records
<1>3. PICK ls, gone : ls = logs /\ gone = lost \union OnlyBuffered
  OBVIOUS
<1>4. Leaves(ls, gone)
  BY <1>1, <1>2, <1>3, SameRecords
<1>5. PICK cs : cs = CutShort(ls)
  OBVIOUS
<1>6. Leaves(cs, gone)
  BY <1>4, <1>5, CutShortLeaves
<1>7. EndsWith(cs, gone)
  BY <1>3, <1>5, EndIs
<1>8. QED
  BY <1>6, <1>7, LiveEndStep

LEMMA BufferRange ==
  ASSUME Types, NEW i \in Slots
  PROVE  buffer[i] \in Seq(0..Len(writes)) /\ \A r \in ToSet(buffer[i]) : r > 0
<1>1. buffer[i] \in Seq(1..Len(writes)) /\ Len(writes) \in Nat
  BY KnownFacts DEF Types, LogTypes
<1>2. (1..Len(writes)) \subseteq (0..Len(writes))
  BY <1>1
<1>3. buffer[i] \in Seq(0..Len(writes))
  BY <1>1, <1>2, SeqMonotonic
<1>4. \A r \in ToSet(buffer[i]) : r \in 1..Len(writes)
  BY <1>1, SetOfSeq
<1>5. QED
  BY <1>3, <1>4

LEMMA LastLogStep ==
  ASSUME AllInv, phase = "closing", End(Arrived(file[0], buffer[0]), lost)
  PROVE  AllInv'
<1> USE DEF AllInv, FileInvs
<1>1. Live
  BY DEF Live
<1>2. 0 \in Slots /\ 1 \in Slots
  BY Constants_
<1>3. flusher \in {"idle", "pending"} /\ file[1] < 0 /\ buffer[1] = <<>>
  BY <1>1, <1>2 DEF FileInv, Closed
<1>4. Clearing = {} /\ ToSet(buffer[1]) = {}
  BY <1>3, NoRecords DEF Clearing
<1>5. ToSet(buffer[0]) # {} => file[0] \in DOMAIN logs
  <2>1. CASE file[0] < 0
    <3>1. buffer[0] = <<>>
      BY <1>1, <1>2, <2>1 DEF FileInv
    <3>2. QED
      BY <3>1, NoRecords
  <2>2. CASE ~(file[0] < 0)
    BY <1>1, <1>2, <2>2, LogNumbers DEF FileInv
  <2>3. QED
    BY <2>1, <2>2
<1>6. PICK rs \in Seq(0..Len(writes)) : rs = buffer[0] /\ \A r \in ToSet(rs) : r > 0
  BY <1>2, BufferRange
<1>7. PICK f, ls : f = file[0] /\ ls = Arrived(f, rs)
  OBVIOUS
<1>8. /\ DOMAIN ls = DOMAIN logs
      /\ \A m \in DOMAIN logs : ls[m] \in Seq(-1..Len(writes))
      /\ \A m \in DOMAIN logs : \A r :
           r \in Positive(ls, m) <=> r \in Records(m) \/ (m = f /\ r \in ToSet(rs) /\ r > 0)
  BY <1>7, ArrivedFacts
<1>9. \A n \in DOMAIN logs : \A r \in Rec(n) : r \in Known
  BY RecFacts
<1>10. \A m \in DOMAIN logs : \A r \in Positive(ls, m) : r \in Rec(m) /\ r \notin lost
  <2>1. \A m \in DOMAIN logs : \A r \in Positive(ls, m) : r \in Rec(m)
    BY <1>6, <1>7, <1>8, RecIs
  <2>2. QED
    BY <1>9, <2>1 DEF Known
<1>11. Left(ls, lost)
  BY <1>8, <1>10 DEF Left, Types, WriteTypes
<1>12. \A w \in OnlyBuffered : w \in ToSet(rs)
  BY <1>4, <1>6, OnlyBufferedIs
<1>13. Leaves(ls, lost)
  BY <1>4, <1>5, <1>6, <1>7, <1>8, <1>11, <1>12 DEF Leaves
<1>14. PICK cs, gone : cs = CutShort(ls) /\ gone = lost
  OBVIOUS
<1>15. Leaves(cs, gone)
  BY <1>13, <1>14, CutShortLeaves
<1>16. EndsWith(cs, gone)
  BY <1>6, <1>7, <1>14, EndIs
<1>17. QED
  BY <1>1, <1>15, <1>16, LiveEndStep

LEMMA FirstLogStep ==
  ASSUME AllInv, phase = "stopping", flusher \in {"idle", "pending"},
         phase' = "closing", logs' = Arrived(file[1], buffer[1]),
         file' = [file EXCEPT ![1] = Closed], buffer' = [buffer EXCEPT ![1] = <<>>],
         UNCHANGED <<sstables, writer, wal_files, memVars, filepath, wal_log_counter,
                     flushVars, tableVars, mergeVars, writes, lost, trusted, starts>>
  PROVE  AllInv'
<1> USE DEF AllInv, FileInvs, MemInvs
<1>1. UNCHANGED <<sstables, wal_files, writer, active, memtable, filepath, wal_log_counter, flusher, flush_num,
                  readers_at_level, sstable_counter, curr_max_level, merge, awake, doomed, unlinked, writes, lost,
                  trusted, starts>>
  BY DEF memVars, flushVars, tableVars, mergeVars
<1>2. Live /\ Live' /\ ~Works'
  BY DEF Live, Works
<1>3. 0 \in Slots /\ 1 \in Slots /\ \A i \in Slots : i = 0 \/ i = 1
  BY Constants_
<1>4. ToSet(buffer[1]) # {} => file[1] \in DOMAIN logs
  <2>1. CASE file[1] < 0
    <3>1. buffer[1] = <<>>
      BY <1>2, <1>3, <2>1 DEF FileInv
    <3>2. QED
      BY <3>1, NoRecords
  <2>2. CASE ~(file[1] < 0)
    BY <1>2, <1>3, <2>2, LogNumbers DEF FileInv
  <2>3. QED
    BY <2>1, <2>2
<1>5. PICK N \in Nat : N = Len(writes)
  BY KnownFacts
<1>6. /\ file'[1] = Closed /\ buffer'[1] = <<>> /\ file'[0] = file[0] /\ buffer'[0] = buffer[0]
      /\ file' \in [Slots -> Nat \union {NULL, Closed}] /\ buffer' \in [Slots -> Seq(1..N)]
  <2>1. buffer \in [Slots -> Seq(1..N)] /\ file \in [Slots -> Nat \union {NULL, Closed}]
    BY <1>5 DEF Types, LogTypes
  <2>2. QED
    BY <1>3, <2>1
<1>7. PICK f, S : f = file[1] /\ S = ToSet(buffer[1])
  OBVIOUS
<1>8. /\ DOMAIN logs' = DOMAIN logs
      /\ \A m \in DOMAIN logs : logs'[m] \in Seq(-1..N)
      /\ \A m \in DOMAIN logs : \A r : r \in Records(m)' <=> r \in Records(m) \/ (m = f /\ r \in S)
  <2>1. PICK rs \in Seq(0..N) : rs = buffer[1] /\ \A r \in ToSet(rs) : r > 0
    BY <1>3, <1>5, BufferRange
  <2>2. logs' = Arrived(f, rs)
    BY <1>7, <2>1
  <2>3. /\ DOMAIN logs' = DOMAIN logs
        /\ \A m \in DOMAIN logs : logs'[m] \in Seq(-1..N)
        /\ \A m \in DOMAIN logs : \A r :
             r \in Positive(logs', m) <=> r \in Records(m) \/ (m = f /\ r \in ToSet(rs) /\ r > 0)
    BY <1>5, <2>2, ArrivedFacts
  <2>4. QED
    BY <1>7, <2>1, <2>3, RecordsIs
<1>9. Moved(1, S)
  <2>1. Distinct(buffer'[1]) /\ ToSet(buffer'[1]) = {}
    BY <1>6, NoRecords DEF Distinct
  <2>2. \A j \in Slots : file'[j] = file[j] \/ (j = 1 /\ file'[1] = Closed /\ ToSet(buffer'[1]) = {})
    BY <1>3, <1>6, <2>1
  <2>3. 1 - 1 = 0
    OBVIOUS
  <2>4. QED
    BY <1>1, <1>4, <1>5, <1>6, <1>7, <1>8, <2>1, <2>2, <2>3 DEF Moved
<1>10. TablesKept
  BY <1>1, <1>2, ExtendsSame DEF TablesKept, Loaded
<1>11. TableInv' /\ SameAnswers /\ TableTypes'
  BY <1>10, KeptTables, TablesKeptTypes
<1>12. Types'
  <2>1. LogTypes' /\ WriteTypes'
    BY <1>1, <1>3, <1>9, MovedTypes
  <2>2. ControlTypes'
    BY <1>1, <1>2 DEF Types, ControlTypes
  <2>3. QED
    BY <1>11, <2>1, <2>2 DEF Types
<1>13. LogInv'
  BY <1>3, <1>9, MovedRecords
<1>14. FileInv'
  <2>1. \A i \in Slots : file'[i] < 0 => buffer'[i] = <<>>
    BY <1>2, <1>3, <1>6 DEF FileInv
  <2>2. \A i \in Slots : file'[i] >= 0 => file'[i] \in DOMAIN logs'
    BY <1>2, <1>3, <1>6, <1>8 DEF FileInv, Closed
  <2>3. file'[0] >= 0 => file'[0] # file'[1]
    BY <1>6 DEF Closed
  <2>4. QED
    BY <1>1, <1>6, <2>1, <2>2, <2>3 DEF FileInv
<1>15. PathInv' /\ Log2Inv' /\ MemInv' /\ ServeInv' /\ NextInv'
  BY <1>2 DEF PathInv, Log2Inv, MemInv, ServeInv, NextInv
<1>16. Clearing = {} /\ Clearing' = {}
  BY <1>1 DEF Clearing
<1>17. DurableInv'
  <2>1. \A x : x \in Unpublished' <=> x \in ToSet(buffer[0])
    BY <1>1, <1>6, NoRecords, UnpublishedIs
  <2>2. \A x : x \in Unpublished <=> x \in ToSet(buffer[0]) \/ x \in S
    BY <1>7, UnpublishedIs
  <2>3. QED
    BY <1>2, <1>3, <1>9, <1>11, <1>16, <2>1, <2>2, MovedDurable
<1>18. FirstInv'
  BY <1>1, <1>2, <1>3, <1>9, <1>16, MovedFirst
<1>19. QED
  BY <1>2, <1>11, <1>12, <1>13, <1>14, <1>15, <1>17, <1>18, LiveAll

LEMMA DestroyStep ==
  ASSUME AllInv, Destroy
  PROVE  AllInv'
<1>1. CASE phase = "stopping" /\ flusher \in {"idle", "pending"} /\ DestroyLog(1)
  <2>1. Live
    BY <1>1 DEF Live
  <2>2. CASE End(logs, lost \union OnlyBuffered)
    BY <2>1, <2>2, KilledStep
  <2>3. CASE ~End(logs, lost \union OnlyBuffered)
    <3>1. /\ phase' = "closing" /\ logs' = Arrived(file[1], buffer[1])
          /\ file' = [file EXCEPT ![1] = Closed] /\ buffer' = [buffer EXCEPT ![1] = <<>>]
          /\ UNCHANGED <<sstables, writer, wal_files, memVars, filepath, wal_log_counter,
                         flushVars, tableVars, mergeVars, writes, lost, trusted, starts>>
      BY <1>1, <2>3 DEF DestroyLog
    <3>2. QED
      BY <1>1, <3>1, FirstLogStep
  <2>4. QED
    BY <2>2, <2>3
<1>2. CASE phase = "closing" /\ DestroyLog(0)
  <2>1. Live
    BY <1>2 DEF Live
  <2>2. CASE End(logs, lost \union OnlyBuffered)
    BY <2>1, <2>2, KilledStep
  <2>3. CASE ~End(logs, lost \union OnlyBuffered)
    <3>1. End(Arrived(file[0], buffer[0]), lost)
      BY <1>2, <2>3 DEF DestroyLog
    <3>2. QED
      BY <1>2, <3>1, LastLogStep
  <2>4. QED
    BY <2>2, <2>3
<1>3. QED
  BY <1>1, <1>2 DEF Destroy

-----------------------------------------------------------------------------
(* The invariant holds.                                                    *)

LEMMA InitialState ==
  ASSUME Init
  PROVE  IInv
<1>1. /\ logs = [n \in {0} |-> <<>>] /\ sstables = <<>>
      /\ phase = "up" /\ writer = "run" /\ wal_files = <<>> /\ active = 0 /\ memtable = [i \in Slots |-> Empty]
      /\ file = [i \in Slots |-> IF i = 0 THEN 0 ELSE NULL]
      /\ filepath = [i \in Slots |-> IF i = 0 THEN 0 ELSE NULL]
      /\ buffer = [i \in Slots |-> <<>>] /\ wal_log_counter = 1
      /\ flusher = "idle" /\ flush_num = 0
      /\ readers_at_level = [l \in Levels |-> <<>>]
      /\ sstable_counter = 0 /\ curr_max_level = 0
      /\ merge = [l \in MergeLevels |-> Idle] /\ awake = {} /\ doomed = {}
      /\ writes = <<>> /\ lost = {} /\ unlinked = [l \in Levels |-> -1]
      /\ trusted = TRUE /\ starts = 1
  BY DEF Init, MergeLevels
<1>2. 0 \in Slots /\ 1 \in Slots /\ (\A i \in Slots : i = 0 \/ i = 1) /\ 1 - active = 1
  BY <1>1, Constants_
<1>3. Live /\ ~Fresh
  BY <1>1 DEF Live, Fresh
<1>4. Len(writes) = 0 /\ DOMAIN writes = {} /\ DOMAIN sstables = {} /\ DOMAIN logs = {0} /\ logs[0] = <<>>
  BY <1>1
<1>5. \A i \in Slots : ToSet(buffer[i]) = {} /\ buffer[i] = <<>> /\ DOMAIN buffer[i] = {}
  BY <1>1, NoRecords
<1>6. file[0] = 0 /\ file[1] = -1 /\ filepath[0] = 0 /\ filepath[1] = -1
  BY <1>1, <1>2 DEF NULL
<1>7. Types
  <2>1. ControlTypes
    BY <1>1, <1>2 DEF ControlTypes
  <2>2. WriteTypes
    BY <1>1, <1>4, Constants_ DEF WriteTypes
  <2>3. LogTypes
    <3>1. \A n \in DOMAIN logs : n \in Nat /\ logs[n] \in Seq(-1..Len(writes))
      BY <1>4
    <3>2. memtable \in [Slots -> [Keys -> 0..Len(writes)]]
      BY <1>1, <1>4 DEF Empty
    <3>3. file \in [Slots -> Nat \union {NULL, Closed}] /\ filepath \in [Slots -> Nat \union {NULL}]
      BY <1>1
    <3>4. buffer \in [Slots -> Seq(1..Len(writes))] /\ wal_log_counter \in Nat /\ wal_files \in Seq(Nat)
      BY <1>1
    <3>5. QED
      BY <3>1, <3>2, <3>3, <3>4 DEF LogTypes
  <2>4. FileTypes
    <3>1. \A t \in DOMAIN sstables : t[2] <= 0
      BY <1>4
    <3>2. \A t \in DOMAIN sstables : /\ t \in AllTables /\ sstables[t].finished \in BOOLEAN
                                     /\ sstables[t].data \in [Keys -> 0..Len(writes)]
      BY <1>4
    <3>3. 0 \in Nat
      OBVIOUS
    <3>4. QED
      BY <3>1, <3>2, <3>3 DEF FileTypes
  <2>5. ListTypes
    <3>1. readers_at_level \in [Levels -> Seq(Nat)] /\ unlinked \in [Levels -> Int]
      BY <1>1
    <3>2. merge \in [MergeLevels -> Merges]
      BY <1>1 DEF Idle, Merges
    <3>3. 0 \in Levels
      BY Constants_
    <3>4. QED
      BY <1>1, <3>1, <3>2, <3>3 DEF ListTypes
  <2>6. QED
    BY <2>1, <2>2, <2>3, <2>4, <2>5 DEF Types, TableTypes
<1>8. Listed = {} /\ Published = {}
  <2>1. \A t \in AllTables : ~InList(t)
    <3>1. \A l \in Levels : DOMAIN readers_at_level[l] = {}
      BY <1>1
    <3>2. \A t \in AllTables : t[1] \in Levels
      BY AllTablesFacts, Constants_
    <3>3. QED
      BY <3>1, <3>2 DEF InList
  <2>2. QED
    BY <1>1, <2>1 DEF Listed, Published
<1>9. \A l \in MergeLevels : merge[l].at = "idle"
  BY <1>1 DEF Idle
<1>10. \A l \in Levels : DOMAIN readers_at_level[l] = {} /\ readers_at_level[l] = <<>> /\ unlinked[l] = -1
  BY <1>1
<1>11. TableInv
  <2>1. ~Writing /\ \A l \in MergeLevels : ~Merging(l)
    BY <1>1, <1>9 DEF Writing, Merging
  <2>2. CounterInv
    BY <1>1, <1>4, <1>10 DEF CounterInv
  <2>3. ListInv
    BY <1>1, <1>4, <1>8, <1>10 DEF ListInv
  <2>4. OutputInv
    BY <1>1, <1>9, <2>1 DEF OutputInv, FlushOutput, MergeOutput
  <2>5. PurgeInv
    BY <1>1, <1>9, <1>10, <2>1 DEF PurgeInv
  <2>6. DoomedInv
    BY <1>8 DEF DoomedInv, PublishedFrom, ListedFrom
  <2>7. RemovedInv
    BY <1>9 DEF RemovedInv
  <2>8. QED
    BY <2>2, <2>3, <2>4, <2>5, <2>6, <2>7 DEF TableInv
<1>12. Records(0) = {} /\ Rec(0) = {}
  <2>1. Records(0) = {}
    BY <1>4, NoRecords DEF Records
  <2>2. \A r : r \notin Rec(0)
    BY <1>2, <1>5, <2>1, RecIs
  <2>3. QED
    BY <2>1, <2>2
<1>13. Known = {} /\ Pending = {} /\ Held(0) = {} /\ Held(1) = {}
  BY <1>1, <1>4, <1>6, <1>12 DEF Known, Pending, Held
<1>14. \A k \in Keys : NewestIn(writes, k, {}) = 0 /\ AnswerIn(writes, 0) = 0
  <2>1. 0 \in Nat
    OBVIOUS
  <2>2. QED
    BY <2>1, NewestNone DEF AnswerIn, TombstoneIn
<1>15. \A k \in Keys : ListedFrom(0, k) = 0
  <2>1. Deeper(Listed, 0) = {}
    BY <1>8 DEF Deeper
  <2>2. \A k \in Keys : EntryIn(sstables, {}, k) = 0
    BY NoHolder
  <2>3. QED
    BY <1>14, <2>1, <2>2 DEF ListedFrom
<1>16. FileInvs
  <2>1. LogInv
    BY <1>2, <1>4, <1>5, <1>12 DEF LogInv
  <2>2. FileInv
    BY <1>1, <1>2, <1>4, <1>5, <1>6 DEF FileInv
  <2>3. PathInv
    <3>1. /\ writer # "open" /\ ~(file[active] < 0) /\ file[1 - active] < 0
          /\ \A n \in DOMAIN logs : n <= file[active] /\ n < wal_log_counter
      BY <1>1, <1>2, <1>4, <1>6
    <3>2. \A i \in Slots : file[1 - i] >= 0 => filepath[i] # file[1 - i]
      BY <1>2, <1>6
    <3>3. \A i \in Slots : filepath[i] < wal_log_counter /\ filepath[i] = file[i]
      BY <1>1, <1>2, <1>6
    <3>4. QED
      BY <1>1, <3>1, <3>2, <3>3 DEF PathInv
  <2>4. Log2Inv
    BY <1>1 DEF Log2Inv
  <2>5. QED
    BY <2>1, <2>2, <2>3, <2>4 DEF FileInvs
<1>17. MemInvs
  <2>1. \A i \in Slots, k \in Keys : memtable[i][k] = 0
    BY <1>1 DEF Empty
  <2>2. MemInv
    BY <1>1, <1>2, <1>13, <1>14, <2>1 DEF MemInv, Filling
  <2>3. ServeInv
    BY <1>1, <1>2, <1>13, <1>14, <1>15, <2>1 DEF ServeInv
  <2>4. NextInv
    BY <1>13 DEF NextInv
  <2>5. DurableInv
    BY <1>13, <1>14, <1>15 DEF DurableInv
  <2>6. FirstInv
    <3>1. Clearing = {}
      BY <1>1 DEF Clearing
    <3>2. QED
      BY <1>2, <1>4, <1>6, <1>12, <3>1 DEF FirstInv
  <2>7. QED
    BY <2>2, <2>3, <2>4, <2>5, <2>6 DEF MemInvs
<1>18. FreshInv /\ DownInv /\ DiskInv
  BY <1>1, <1>3 DEF FreshInv, DownInv, DiskInv
<1>19. AllInv
  BY <1>7, <1>11, <1>16, <1>17, <1>18 DEF AllInv
<1>20. QED
  BY <1>1, <1>19 DEF IInv

LEMMA StutterStep ==
  ASSUME AllInv, UNCHANGED vars
  PROVE  AllInv'
<1> USE DEF AllInv, FileInvs, MemInvs
<1>1. /\ UNCHANGED <<logs, writer, wal_files, active, memtable, file, filepath, buffer, wal_log_counter, flusher>>
      /\ UNCHANGED <<sstables, merge, awake, doomed, unlinked, flush_num, writes, lost, trusted>>
      /\ UNCHANGED <<readers_at_level, sstable_counter, curr_max_level, phase, starts, crashes>>
  BY DEF vars, disk, memVars, walVars, flushVars, tableVars, mergeVars, lives
<1>2. LogInv' /\ LogTypes' /\ WriteTypes'
      /\ (\A n : Records(n)' = Records(n))
      /\ Known' = Known
      /\ \A k \in Keys : Logged(k, DOMAIN logs)' <=> Logged(k, DOMAIN logs)
  BY <1>1, KeptLogs DEF LogsKept
<1>3. TablesKept
  <2>1. Extends(writes, writes')
    BY <1>1, ExtendsSame
  <2>2. QED
    BY <1>1, <2>1 DEF TablesKept, Loaded
<1>4. TableInv' /\ TableTypes' /\ SameAnswers
  BY <1>3, KeptTables, TablesKeptTypes
<1>5. CASE Works
  <2>1. FilesKept
    BY <1>1, <1>5 DEF FilesKept
  <2>2. QED
    BY <1>4, <2>1, KeptFiles
<1>6. CASE ~Works
  <2>1. Types'
    <3>1. ControlTypes'
      BY <1>1 DEF Types, ControlTypes
    <3>2. QED
      BY <1>2, <1>4, <3>1 DEF Types
  <2>2. FreshInv'
    BY <1>1 DEF FreshInv, Fresh
  <2>3. DownInv'
    BY <1>1, <1>2 DEF DownInv, Fresh
  <2>4. DiskInv'
    <3>1. DataOnDisk' <=> DataOnDisk
      BY <1>1 DEF DataOnDisk, OnlyBuffered, NewestOf, IsTombstone
    <3>2. QED
      BY <1>1, <3>1 DEF DiskInv
  <2>5. FileInv'
    BY <1>1 DEF FileInv, Live
  <2>6. ~Works' /\ phase' # "log2"
    BY <1>1, <1>6 DEF Works
  <2>7. PathInv' /\ Log2Inv' /\ MemInv' /\ ServeInv' /\ NextInv'
    BY <2>6 DEF PathInv, Log2Inv, MemInv, ServeInv, NextInv
  <2>8. Clearing' = Clearing /\ Unpublished' = Unpublished /\ \A n : Rec(n)' = Rec(n)
    BY <1>1, <1>2 DEF Clearing, Unpublished, Rec
  <2>9. DurableInv'
    <3>1. \A k \in Keys : Logged(k, DOMAIN logs \ Clearing)' <=> Logged(k, DOMAIN logs \ Clearing)
      BY <1>1, <1>2, <2>8 DEF Logged
    <3>2. QED
      BY <1>1, <1>2, <1>4, <2>8, <3>1 DEF DurableInv, SameAnswers, Live
  <2>10. FirstInv'
    BY <1>1, <1>2, <2>8 DEF FirstInv, Live
  <2>11. QED
    BY <1>2, <1>4, <2>1, <2>2, <2>3, <2>4, <2>5, <2>7, <2>9, <2>10
<1>7. QED
  BY <1>5, <1>6

LEMMA StartsKept ==
  ASSUME [Next]_vars
  PROVE  (starts' = starts \/ Start) /\ (trusted' => trusted)
<1>1. CASE UNCHANGED vars
  BY <1>1 DEF vars, lives
<1>2. ASSUME NEW k \in Keys, NEW tombstone \in BOOLEAN, Write(k, tombstone)
      PROVE  starts' = starts /\ (trusted' => trusted)
  BY <1>2 DEF Write, lives
<1>3. CASE Swap \/ OpenLog
  BY <1>3 DEF Swap, OpenLog, lives
<1>4. CASE Flusher
  BY <1>4 DEF Flusher, CreateTable, FinishTable, AddTable, CloseLog, RemoveLog, lives
<1>5. ASSUME NEW i \in Slots, Spill(i)
      PROVE  starts' = starts /\ (trusted' => trusted)
  BY <1>5 DEF Spill, lives
<1>6. ASSUME NEW l, Compactor(l)
      PROVE  starts' = starts /\ (trusted' => trusted)
  BY <1>6 DEF Compactor, StartMerge, FinishMerge, AddMerged, RemoveInputs, lives
<1>7. ASSUME NEW t, Unlink(t)
      PROVE  starts' = starts /\ (trusted' => trusted)
  BY <1>7 DEF Unlink, lives
<1>8. CASE Crash
  BY <1>8 DEF Crash, End
<1>9. CASE Stop
  BY <1>9 DEF Stop, lives
<1>10. CASE Destroy
  BY <1>10 DEF Destroy, DestroyLog, End
<1>11. CASE RecoverTables \/ RecoverLogs \/ RecoverSecond
  BY <1>11 DEF RecoverTables, RecoverLogs, RecoverSecond, lives
<1>12. CASE Terminated
  BY <1>12 DEF Terminated, vars, lives
<1>13. CASE Start
  BY <1>13 DEF Start
<1>14. QED
  BY <1>1, <1>2, <1>3, <1>4, <1>5, <1>6, <1>7, <1>8, <1>9, <1>10, <1>11, <1>12, <1>13 DEF Next

LEMMA NextStep ==
  ASSUME AllInv, [Next]_vars, Start => trusted
  PROVE  AllInv'
<1>1. CASE UNCHANGED vars
  BY <1>1, StutterStep
<1>2. ASSUME NEW k \in Keys, NEW tombstone \in BOOLEAN, Write(k, tombstone)
      PROVE  AllInv'
  BY <1>2, WriteStep
<1>3. CASE Swap
  BY <1>3, SwapStep
<1>4. CASE OpenLog
  BY <1>4, OpenLogStep
<1>5. CASE Flusher
  BY <1>5, CreateTableStep, FinishTableStep, AddTableStep, CloseLogStep, RemoveLogStep DEF Flusher
<1>6. ASSUME NEW i \in Slots, Spill(i)
      PROVE  AllInv'
  BY <1>6, SpillStep
<1>7. ASSUME NEW l \in DOMAIN merge, Compactor(l)
      PROVE  AllInv'
  <2>1. l \in MergeLevels
    BY DEF AllInv, Types, TableTypes, ListTypes
  <2>2. QED
    BY <1>7, <2>1, StartMergeStep, FinishMergeStep, AddMergedStep, RemoveInputsStep DEF Compactor
<1>8. ASSUME NEW t \in doomed, Unlink(t)
      PROVE  AllInv'
  BY <1>8, UnlinkStep
<1>9. CASE Crash
  BY <1>9, CrashStep
<1>10. CASE Stop
  BY <1>10, StopStep
<1>11. CASE Destroy
  BY <1>11, DestroyStep
<1>12. CASE Start
  BY <1>12, StartStep
<1>13. CASE RecoverTables
  BY <1>13, RecoverTablesStep
<1>14. CASE RecoverLogs
  BY <1>14, RecoverLogsStep
<1>15. CASE RecoverSecond
  BY <1>15, RecoverSecondStep
<1>16. CASE Terminated
  BY <1>16, StutterStep DEF Terminated
<1>17. QED
  BY <1>1, <1>2, <1>3, <1>4, <1>5, <1>6, <1>7, <1>8, <1>9, <1>10, <1>11, <1>12, <1>13, <1>14, <1>15, <1>16 DEF Next

(* IInv is inductive.                                                      *)
LEMMA InvariantStep ==
  ASSUME IInv, [Next]_vars
  PROVE  IInv'
<1>1. starts \in Nat \ {0}
  BY DEF IInv
<1>2. starts' = starts \/ (Start /\ starts' = starts + 1)
  BY StartsKept DEF Start
<1>3. starts' \in Nat \ {0}
  BY <1>1, <1>2
<1>4. trusted' => trusted
  BY StartsKept
<1>5. ASSUME trusted' \/ starts' = 1
      PROVE  AllInv'
  <2>1. Start => starts' = starts + 1 /\ starts + 1 # 1
    BY <1>1 DEF Start
  <2>2. trusted \/ starts = 1
    BY <1>2, <1>4, <1>5, <2>1
  <2>3. AllInv
    BY <2>2 DEF IInv
  <2>4. Start => trusted
    BY <1>4, <1>5, <2>1
  <2>5. QED
    BY <2>3, <2>4, NextStep
<1>6. QED
  BY <1>3, <1>5 DEF IInv

(* At every moment, and over any number of crashes, orderly ends and       *)
(* recoveries, AllInv holds of a store whose files were InOrder whenever a *)
(* life ended, or that is in its first life.                               *)
THEOREM Invariance == Spec => []IInv
<1>1. Init => IInv
  BY InitialState
<1>2. IInv /\ [Next]_vars => IInv'
  BY InvariantStep
<1>3. QED
  BY <1>1, <1>2, PTL DEF Spec

-----------------------------------------------------------------------------
(* What the invariant says.                                                *)

(* DB::search finds the entry of the top table of the lists.               *)
LEMMA InTablesIs ==
  ASSUME Types, ListInv, NEW k \in Keys
  PROVE  InTables(k) = EntryIn(sstables, Listed, k)
<1>1. PICK N \in Nat : \A t \in DOMAIN sstables : t[2] <= N
  BY Bounded
<1>2. Listed \subseteq AllTables /\ \A t \in Listed : t[2] <= N
  BY <1>1, ListedFacts
<1>3. \A l \in Levels : DOMAIN readers_at_level[l] \subseteq Nat /\ \A i \in DOMAIN readers_at_level[l] : readers_at_level[l][i] \in Nat
  <2>1. \A l \in Levels : readers_at_level[l] \in Seq(Nat)
    BY DEF Types, TableTypes, ListTypes
  <2>2. QED
    BY <2>1, ElementOfSeq
<1>4. ASSUME NEW l \in Levels, NEW i \in DOMAIN readers_at_level[l]
      PROVE  <<l, readers_at_level[l][i]>> \in Listed
  <2>1. PICK t : t = <<l, readers_at_level[l][i]>>
    OBVIOUS
  <2>2. t \in AllTables /\ t[1] = l /\ t[2] = readers_at_level[l][i]
    BY <1>3, <2>1, TableName
  <2>3. QED
    BY <2>1, <2>2 DEF Listed, InList
<1>5. \A l \in Levels : \A i \in DOMAIN readers_at_level[l] :
         Data(<<l, readers_at_level[l][i]>>) = sstables[<<l, readers_at_level[l][i]>>].data
  BY <1>4 DEF Data, ListInv
<1>6. ASSUME NEW q \in Found(k)
      PROVE  \E l \in Levels : \E i \in DOMAIN readers_at_level[l] :
               q = <<l, i>> /\ sstables[<<l, readers_at_level[l][i]>>].data[k] # 0
  BY <1>5, <1>6 DEF Found
<1>7. CASE Holders(sstables, Listed, k) = {}
  <2>1. ASSUME NEW q \in Found(k)
        PROVE  FALSE
    <3>1. PICK l \in Levels : \E i \in DOMAIN readers_at_level[l] :
            q = <<l, i>> /\ sstables[<<l, readers_at_level[l][i]>>].data[k] # 0
      BY <1>6, <2>1
    <3>2. PICK i \in DOMAIN readers_at_level[l] : sstables[<<l, readers_at_level[l][i]>>].data[k] # 0
      BY <3>1
    <3>3. QED
      BY <1>4, <1>7, <3>2 DEF Holders
  <2>2. Found(k) = {}
    BY <2>1
  <2>3. QED
    BY <1>7, <2>2 DEF InTables, EntryIn
<1>8. CASE Holders(sstables, Listed, k) # {}
  <2>1. PICK t \in Listed : IsTop(sstables, Listed, k, t)
    BY <1>2, <1>8, TopExists
  <2>2. t \in AllTables /\ t = <<t[1], t[2]>> /\ t[1] \in Levels
    BY <1>2, AllTablesFacts, Constants_
  <2>3. PICK i \in DOMAIN readers_at_level[t[1]] : readers_at_level[t[1]][i] = t[2]
    BY DEF Listed, InList
  <2>4. PICK l \in Levels : l = t[1]
    BY <2>2
  <2>5. i \in DOMAIN readers_at_level[l] /\ t = <<l, readers_at_level[l][i]>> /\ l \in Nat /\ i \in Nat
    BY <1>3, <2>2, <2>3, <2>4, LevelsFacts
  <2>6. sstables[t].data[k] # 0 /\ \A u \in Holders(sstables, Listed, k) : u = t \/ Before(t, u)
    BY <2>1 DEF IsTop, Holders
  <2>7. <<l, i>> \in Found(k)
    BY <1>5, <2>5, <2>6 DEF Found
  <2>8. ASSUME NEW q \in Found(k)
        PROVE  /\ q = <<q[1], q[2]>> /\ q[1] \in Nat /\ q[2] \in Nat
               /\ l < q[1] \/ (l = q[1] /\ i >= q[2])
    <3>1. PICK m \in Levels : \E j \in DOMAIN readers_at_level[m] :
            q = <<m, j>> /\ sstables[<<m, readers_at_level[m][j]>>].data[k] # 0
      BY <1>6, <2>8
    <3>2. PICK j \in DOMAIN readers_at_level[m] : q = <<m, j>> /\ sstables[<<m, readers_at_level[m][j]>>].data[k] # 0
      BY <3>1
    <3>3. PICK u : u = <<m, readers_at_level[m][j]>>
      OBVIOUS
    <3>4. u \in Holders(sstables, Listed, k)
      BY <1>4, <3>2, <3>3 DEF Holders
    <3>5. m \in Nat /\ j \in Nat
      BY <1>3, LevelsFacts
    <3>6. u = t \/ l < m \/ (l = m /\ readers_at_level[l][i] > readers_at_level[m][j])
      BY <2>4, <2>5, <2>6, <3>3, <3>4 DEF Before
    <3>7. ASSUME l = m, i < j
          PROVE  FALSE
      <4>1. readers_at_level[l][i] < readers_at_level[l][j]
        BY <2>5, <3>2, <3>7 DEF ListInv
      <4>2. readers_at_level[l][i] \in Nat /\ readers_at_level[l][j] \in Nat
        BY <1>3, <2>5, <3>2, <3>7
      <4>3. readers_at_level[l][i] # readers_at_level[l][j]
        BY <4>1, <4>2
      <4>4. u # t
        BY <2>5, <3>3, <3>7, <4>3
      <4>5. QED
        BY <3>5, <3>6, <3>7, <4>1, <4>2, <4>4
    <3>8. u = t => l = m
      BY <2>5, <3>3
    <3>9. QED
      BY <2>5, <3>2, <3>5, <3>6, <3>7, <3>8
  <2>9. PICK c : c = CHOOSE p \in Found(k) : \A q \in Found(k) : p[1] < q[1] \/ (p[1] = q[1] /\ p[2] >= q[2])
    OBVIOUS
  <2>10. PICK r : r = <<l, i>>
    OBVIOUS
  <2>11. r \in Found(k) /\ r[1] = l /\ r[2] = i
    BY <2>7, <2>10
  <2>12. \A q \in Found(k) : r[1] < q[1] \/ (r[1] = q[1] /\ r[2] >= q[2])
    BY <2>8, <2>11
  <2>13. c \in Found(k) /\ \A q \in Found(k) : c[1] < q[1] \/ (c[1] = q[1] /\ c[2] >= q[2])
    BY <2>9, <2>11, <2>12
  <2>14. c[1] = l /\ c[2] = i
    <3>1. c[1] < l \/ (c[1] = l /\ c[2] >= i)
      BY <2>11, <2>13
    <3>2. /\ c[1] \in Nat /\ c[2] \in Nat
          /\ l < c[1] \/ (l = c[1] /\ i >= c[2])
      BY <2>8, <2>13
    <3>3. QED
      BY <2>5, <3>1, <3>2
  <2>15. InTables(k) = Data(<<c[1], readers_at_level[c[1]][c[2]]>>)[k]
    BY <2>7, <2>9 DEF InTables
  <2>16. InTables(k) = sstables[t].data[k]
    BY <1>5, <2>5, <2>14, <2>15
  <2>17. QED
    BY <1>2, <2>1, <2>16, TopIsEntry
<1>9. QED
  BY <1>7, <1>8

LEMMA TypesAreOK ==
  ASSUME AllInv
  PROVE  TypeOK
<1> USE DEF AllInv
<1>1. PICK n \in Nat : n = Len(writes) /\ n <= MaxWrites
  BY KnownFacts DEF Types, WriteTypes
<1>2. (-1..n) \subseteq Entries /\ (0..n) \subseteq Entries /\ (1..n) \subseteq 1..MaxWrites
  BY <1>1, Constants_ DEF Entries
<1>3. /\ phase \in {"down", "tables", "logs", "log2", "up", "stopping", "closing", "failed"}
      /\ writer \in {"run", "full", "open"} /\ active \in Slots
      /\ flusher \in {"idle", "pending", "write", "publish", "close", "remove"}
  BY DEF Types, ControlTypes
<1>4. \A d \in DOMAIN logs : d \in Nat /\ logs[d] \in Seq(Entries)
  <2>1. \A d \in DOMAIN logs : d \in Nat /\ logs[d] \in Seq(-1..n)
    BY <1>1 DEF Types, LogTypes
  <2>2. QED
    BY <1>2, <2>1, SeqMonotonic
<1>5. \A t \in DOMAIN sstables : t[1] \in Levels /\ t[2] \in Nat /\ sstables[t].data \in [Keys -> Entries]
  <2>1. \A t \in DOMAIN sstables : t \in AllTables /\ sstables[t].data \in [Keys -> 0..n]
    BY <1>1 DEF Types, TableTypes, FileTypes
  <2>2. \A t \in DOMAIN sstables : t[1] \in Levels /\ t[2] \in Nat
    BY <2>1, AllTablesFacts, Constants_
  <2>3. QED
    BY <1>2, <2>1, <2>2
<1>6. memtable \in [Slots -> [Keys -> Entries]]
  <2>1. memtable \in [Slots -> [Keys -> 0..n]]
    BY <1>1 DEF Types, LogTypes
  <2>2. QED
    BY <1>2, <2>1
<1>7. /\ file \in [Slots -> Nat \union {NULL, Closed}] /\ filepath \in [Slots -> Nat \union {NULL}]
      /\ buffer \in [Slots -> Seq(1..MaxWrites)]
  <2>1. buffer \in [Slots -> Seq(1..n)]
    BY <1>1 DEF Types, LogTypes
  <2>2. \A i \in Slots : buffer[i] \in Seq(1..MaxWrites)
    BY <1>2, <2>1, SeqMonotonic
  <2>3. QED
    BY <2>1, <2>2 DEF Types, LogTypes
<1>8. \A l \in DOMAIN merge : merge[l].at \in {"write", "add"} => <<l + 1, merge[l].num>> \in DOMAIN sstables
  <2>1. DOMAIN merge = MergeLevels
    BY DEF Types, TableTypes, ListTypes
  <2>2. QED
    BY <2>1 DEF TableInv, OutputInv, MergeOutput, Merging, MergeTable
<1>9. \A l \in Levels : \A i \in DOMAIN readers_at_level[l] : <<l, readers_at_level[l][i]>> \in DOMAIN sstables
  <2>1. ASSUME NEW l \in Levels, NEW i \in DOMAIN readers_at_level[l]
        PROVE  <<l, readers_at_level[l][i]>> \in DOMAIN sstables
    <3>1. readers_at_level[l] \in Seq(Nat)
      BY DEF Types, TableTypes, ListTypes
    <3>2. PICK m \in Nat : m = readers_at_level[l][i]
      BY <3>1, ElementOfSeq
    <3>3. PICK t : t = <<l, m>>
      OBVIOUS
    <3>4. t \in AllTables /\ t[1] = l /\ t[2] = m
      BY <3>3, TableName
    <3>5. t \in Listed
      BY <3>2, <3>4 DEF Listed, InList
    <3>6. QED
      BY <3>2, <3>3, <3>5 DEF TableInv, ListInv
  <2>2. QED
    BY <2>1
<1>10. doomed \subseteq DOMAIN sstables /\ awake \subseteq Levels
  BY DEF Types, TableTypes, ListTypes
<1>11. \A l \in Levels : \A i \in DOMAIN readers_at_level[l] :
         <<l, readers_at_level[l][i]>> \in DOMAIN sstables \union DOMAIN mapped
  BY <1>9
<1>12. QED
  BY <1>3, <1>4, <1>5, <1>6, <1>7, <1>8, <1>9, <1>10, <1>11 DEF TypeOK

(* DB::search in a store that serves: the memtables and then the lists.    *)
LEMMA SearchIsNewest ==
  ASSUME AllInv
  PROVE  ServesNewest
<1> USE DEF AllInv
<1>1. SUFFICES ASSUME phase \in {"up", "stopping"}, NEW k \in Keys
               PROVE  Answer(Lookup(k)) = Answer(NewestOf(k, (DOMAIN writes) \ lost))
  BY DEF ServesNewest
<1>2. PICK e, w : e = EntryIn(sstables, Listed, k) /\ w = NewestIn(writes, k, Known)
  OBVIOUS
<1>3. NewestOf(k, (DOMAIN writes) \ lost) = w
  BY <1>2 DEF NewestOf, NewestIn, Known
<1>4. \A x : Answer(x) = AnswerIn(writes, x)
  BY DEF Answer, AnswerIn, IsTombstone, TombstoneIn
<1>5. ListedFrom(0, k) = AnswerIn(writes, e)
  <2>1. \A t \in Listed : t[1] \in Nat
    BY AllTablesFacts DEF Listed
  <2>2. Deeper(Listed, 0) = Listed
    BY <2>1 DEF Deeper
  <2>3. QED
    BY <1>2, <2>2 DEF ListedFrom
<1>6. /\ memtable[active][k] # 0 => w = memtable[active][k]
      /\ memtable[active][k] = 0 /\ memtable[1 - active][k] # 0 => w = memtable[1 - active][k]
      /\ memtable[active][k] = 0 /\ memtable[1 - active][k] = 0 => ListedFrom(0, k) = AnswerIn(writes, w)
  <2>1. Works /\ phase # "log2"
    BY <1>1 DEF Works
  <2>2. Pending = {}
    BY <2>1 DEF Pending
  <2>3. NewestIn(writes, k, Pending) = 0
    BY <2>2, NewestNone
  <2>4. QED
    BY <1>2, <2>1, <2>3 DEF MemInvs, ServeInv
<1>7. InTables(k) = e
  BY <1>2, InTablesIs DEF TableInv
<1>8. CASE memtable[active][k] # 0
  BY <1>3, <1>6, <1>8 DEF Lookup
<1>9. CASE memtable[active][k] = 0 /\ memtable[1 - active][k] # 0
  BY <1>3, <1>6, <1>9 DEF Lookup
<1>10. CASE memtable[active][k] = 0 /\ memtable[1 - active][k] = 0
  <2>1. Lookup(k) = e
    BY <1>7, <1>10 DEF Lookup
  <2>2. QED
    BY <1>3, <1>4, <1>5, <1>6, <1>10, <2>1
<1>11. QED
  BY <1>8, <1>9, <1>10

(* The files of the first life, whose buffers a crash would lose.          *)
LEMMA FilesHoldNewest ==
  ASSUME AllInv
  PROVE  DataOnDisk
<1> USE DEF AllInv
<1>1. SUFFICES ASSUME starts = 1
               PROVE  DataOnDisk
  BY DEF DataOnDisk
<1>2. CASE phase = "down"
  BY <1>1, <1>2 DEF DiskInv
<1>3. CASE Live
  <2>1. PICK gone : gone = lost \union OnlyBuffered
    OBVIOUS
  <2>2. \A d \in DOMAIN logs : logs[d] \in Seq(-1..Len(writes))
    BY DEF Types, LogTypes
  <2>3. Leaves(logs, gone)
    <3>1. \A d \in DOMAIN logs : \A r : r \in Positive(logs, d) <=> r \in Records(d)
      BY RecordsIs
    <3>2. PICK ls : ls = logs
      OBVIOUS
    <3>3. Leaves(ls, lost \union OnlyBuffered)
      BY <2>2, <3>1, <3>2, SameRecords
    <3>4. QED
      BY <2>1, <3>2, <3>3
  <2>4. ASSUME NEW k \in Keys
        PROVE  LET w == NewestIn(writes, k, (DOMAIN writes) \ gone) IN
               \/ w = 0 \/ TombstoneIn(writes, w)
               \/ \E d \in DOMAIN logs : Contains(logs[d], w)
               \/ \E t \in DOMAIN sstables : sstables[t].finished /\ sstables[t].data[k] = w
    <3>1. PICK w : w = NewestIn(writes, k, (DOMAIN writes) \ gone)
      OBVIOUS
    <3>2. PICK ls : ls = logs
      OBVIOUS
    <3>3. OnDisk(ls, gone, k)
      BY <1>1, <1>3, <2>3, <3>2, FirstLife
    <3>4. ASSUME NEW d \in DOMAIN logs, w \in ToSet(logs[d])
          PROVE  Contains(logs[d], w)
      <4>1. DOMAIN logs[d] = 1..Len(logs[d])
        BY <2>2
      <4>2. QED
        BY <3>4, <4>1 DEF ToSet, Contains
    <3>5. QED
      BY <3>1, <3>2, <3>3, <3>4 DEF OnDisk
  <2>5. QED
    BY <2>1, <2>4 DEF DataOnDisk, NewestOf, NewestIn, IsTombstone, TombstoneIn
<1>4. QED
  BY <1>1, <1>2, <1>3 DEF Types, ControlTypes, Live

(* Numbers, entries and files are what the code takes them for, in the     *)
(* first life and as long as every recovery found the files InOrder; a     *)
(* table that is in a list, is written by a merge or waits to be unlinked  *)
(* has its file (the readers of DB::compactor).                            *)
THEOREM TypesHold == Spec => [](trusted \/ starts = 1 => TypeOK)
<1>1. IInv => (trusted \/ starts = 1 => TypeOK)
  BY TypesAreOK DEF IInv
<1>2. QED
  BY <1>1, Invariance, PTL

(* A store answers each search with the newest write of the key but for    *)
(* those that only a stdio buffer held in a crash: in its first life, and  *)
(* after any number of recoveries that found the files InOrder. The other  *)
(* recoveries are steps of Spec too, and the theorem promises nothing      *)
(* after one (DB::recover, WAL::recover, DB::search).                      *)
THEOREM NewestIsServed == Spec => []ServesNewest
<1>1. IInv => ServesNewest
  <2>1. ~trusted => ServesNewest
    BY DEF ServesNewest
  <2>2. QED
    BY <2>1, SearchIsNewest DEF IInv
<1>2. QED
  BY <1>1, Invariance, PTL

(* In the first life the files alone have the newest of the writes of a    *)
(* key that stdio has passed on, at every moment, and after a crash or an  *)
(* orderly end at any moment: no flush or merge removes a log or a table   *)
(* before another file has what is in it.                                  *)
THEOREM DataStaysOnDisk == Spec => []DataOnDisk
<1>1. IInv => DataOnDisk
  <2>1. starts # 1 => DataOnDisk
    BY DEF DataOnDisk
  <2>2. QED
    BY <2>1, FilesHoldNewest DEF IInv
<1>2. QED
  BY <1>1, Invariance, PTL
=============================================================================
