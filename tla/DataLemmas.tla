------------------------------ MODULE DataLemmas ------------------------------
(***************************************************************************)
(* Facts about numbers that the proofs about data structures rest on: the  *)
(* greatest and the least number of a set, induction, and what is left by  *)
(* a division.  Nothing here is about the code.                            *)
(*                                                                         *)
(* Induction is stated for a set and not for a predicate: to show P of     *)
(* every number up to n, take the set of the numbers of which P holds.     *)
(***************************************************************************)
EXTENDS Integers, FiniteSets, FiniteSetTheorems, WellFoundedInduction, TLAPS

-----------------------------------------------------------------------------
(* A set of natural numbers has a least one.                               *)
LEMMA LeastExists ==
  ASSUME NEW S, S \subseteq Nat, S # {}
  PROVE  \E x \in S : \A y \in S : x <= y
<1>1. IsWellFoundedOn({p \in Nat \X Nat : p[1] < p[2]}, Nat)
  BY NatLessThanWellFounded DEF OpToRel
<1>2. PICK x \in S : \A y \in S : <<y, x>> \notin {p \in Nat \X Nat : p[1] < p[2]}
  BY <1>1, WFMin
<1>3. \A y \in S : ~(y < x)
  BY <1>2
<1>4. QED
  BY <1>3

(* One up to n has a greatest one.                                         *)
LEMMA GreatestExists ==
  ASSUME NEW n \in Nat, NEW S, S \subseteq 0..n, S # {}
  PROVE  \E x \in S : \A y \in S : y <= x
<1> DEFINE Bounds == {b \in Nat : \A y \in S : y <= b}
<1>1. n \in Bounds
  OBVIOUS
<1>2. PICK b \in Bounds : \A c \in Bounds : b <= c
  BY <1>1, LeastExists
<1>3. ASSUME b \notin S
      PROVE  FALSE
  <2>1. PICK x \in S : TRUE
    OBVIOUS
  <2>2. x \in Nat /\ x <= b /\ x # b /\ b - 1 \in Nat
    BY <2>1, <1>2, <1>3
  <2>3. b - 1 \in Bounds
    BY <2>2, <1>3, <1>2
  <2>4. QED
    BY <1>2, <2>2, <2>3
<1>4. QED
  BY <1>2, <1>3

-----------------------------------------------------------------------------
(* Induction up to n.                                                      *)
LEMMA InductionTo ==
  ASSUME NEW n \in Nat, NEW S, 0 \in S, \A m \in 0..(n - 1) : m \in S => m + 1 \in S
  PROVE  0..n \subseteq S
<1> DEFINE T == (0..n) \ S
<1>1. SUFFICES ASSUME T # {}
               PROVE  FALSE
  OBVIOUS
<1>2. PICK m \in T : \A y \in T : m <= y
  <2>1. T \subseteq Nat
    OBVIOUS
  <2>2. QED
    BY <1>1, <2>1, LeastExists
<1>3. m # 0 /\ m - 1 \in 0..(n - 1) /\ m - 1 \notin T
  BY <1>2
<1>4. QED
  BY <1>2, <1>3

(* Induction from n down to 0.                                             *)
LEMMA InductionDown ==
  ASSUME NEW n \in Nat, NEW S, n \in S, \A m \in 0..(n - 1) : m + 1 \in S => m \in S
  PROVE  0..n \subseteq S
<1> DEFINE T == (0..n) \ S
<1>1. SUFFICES ASSUME T # {}
               PROVE  FALSE
  OBVIOUS
<1>2. PICK m \in T : \A y \in T : y <= m
  BY <1>1, GreatestExists
<1>3. m # n /\ m + 1 \in 0..n /\ m + 1 \notin T
  BY <1>2
<1>4. QED
  BY <1>2, <1>3

-----------------------------------------------------------------------------
(* What is left by a division does not depend on the multiples.            *)
LEMMA ModParts ==
  ASSUME NEW m \in Nat \ {0}, NEW x \in Int
  PROVE  \E q \in Int : x = m * q + (x % m) /\ x % m \in 0..(m - 1)
<1>1. x = m * (x \div m) + (x % m) /\ x % m \in 0..(m - 1) /\ x \div m \in Int
  OBVIOUS
<1>2. QED
  BY <1>1

LEMMA ModMultiple ==
  ASSUME NEW m \in Nat \ {0}, NEW p \in Int, NEW c \in Int
  PROVE  (m * p + c) % m = c % m
<1>0. PICK x \in Int : x = m * p + c
  OBVIOUS
<1>1. PICK q \in Int : c = m * q + (c % m) /\ c % m \in 0..(m - 1)
  BY ModParts
<1>2. PICK r \in 0..(m - 1) : r = c % m
  BY <1>1
<1>3. x = m * (p + q) + r
  <2>1. m * (p + q) = m * p + m * q
    OBVIOUS
  <2>2. PICK u \in Int, v \in Int : u = m * p /\ v = m * q
    OBVIOUS
  <2>3. x = u + c /\ c = v + r /\ m * (p + q) = u + v
    BY <1>0, <1>1, <1>2, <2>1, <2>2
  <2>4. x = (u + v) + r
    BY ONLY <2>3, x \in Int, c \in Int, u \in Int, v \in Int, r \in 0..(m - 1), m \in Nat
  <2>5. QED
    BY <2>3, <2>4
<1>4. PICK k \in Int : k = p + q
  OBVIOUS
<1>5. x % m = r
  <2>1. x = m * k + r
    BY <1>3, <1>4
  <2>2. (m * k + r) % m = r
    OBVIOUS
  <2>3. QED
    BY <2>1, <2>2
<1>6. QED
  BY <1>0, <1>2, <1>5

LEMMA ModAdd ==
  ASSUME NEW m \in Nat \ {0}, NEW a \in Int, NEW b \in Int
  PROVE  /\ ((a % m) + b) % m = (a + b) % m
         /\ (b - (a % m)) % m = (b - a) % m
<1>1. PICK p \in Int : a = m * p + (a % m) /\ a % m \in 0..(m - 1)
  BY ModParts
<1>2. PICK r \in Int : r = a % m
  BY <1>1
<1>3. PICK u \in Int : u = m * p
  OBVIOUS
<1>4. a = u + r
  BY <1>1, <1>2, <1>3
<1>5. a + b = u + (r + b) /\ b - r = u + (b - a)
  BY <1>4
<1>6. (a + b) % m = (r + b) % m
  <2>1. PICK s \in Int, t \in Int : s = a + b /\ t = r + b
    OBVIOUS
  <2>3. s = m * p + t
    BY <1>3, <1>5, <2>1
  <2>4. s % m = t % m
    <3>1. (m * p + t) % m = t % m
      BY ModMultiple
    <3>2. QED
      BY <2>3, <3>1
  <2>5. QED
    BY <2>1, <2>4
<1>7. (b - r) % m = (b - a) % m
  <2>1. PICK s \in Int, t \in Int : s = b - r /\ t = b - a
    OBVIOUS
  <2>3. s = m * p + t
    BY <1>3, <1>5, <2>1
  <2>4. s % m = t % m
    <3>1. (m * p + t) % m = t % m
      BY ModMultiple
    <3>2. QED
      BY <2>3, <3>1
  <2>5. QED
    BY <2>1, <2>4
<1>8. QED
  BY <1>2, <1>6, <1>7

(* A number is found again from what a division makes of it.               *)
LEMMA DivParts ==
  ASSUME NEW m \in Nat \ {0}, NEW x \in Nat
  PROVE  /\ x \div m \in Nat /\ x % m \in 0..(m - 1)
         /\ x = (x \div m) * m + (x % m)
         /\ \A n \in Nat : n % m = 0 /\ x < n => x \div m < n \div m
<1>1. PICK q \in Int, r \in Int : q = x \div m /\ r = x % m
  OBVIOUS
<1>2. x = m * q + r /\ r \in 0..(m - 1)
  BY <1>1
<1>3. q >= 0
  BY <1>2
<1>4. ASSUME NEW n \in Nat, n % m = 0, x < n
      PROVE  x \div m < n \div m
  <2>1. PICK p \in Int : p = n \div m
    OBVIOUS
  <2>2. n = m * p + 0
    BY <1>4, <2>1
  <2>3. SUFFICES ASSUME p <= q
                 PROVE  FALSE
    BY <1>1, <2>1
  <2>4. m * p <= m * q
    BY <2>3
  <2>5. QED
    BY <1>2, <1>4, <2>2, <2>4
<1>5. QED
  BY <1>1, <1>2, <1>3, <1>4
=============================================================================
