------------------------------ MODULE HkNumbers ------------------------------
(***************************************************************************)
(* Facts about natural numbers that the other proofs share: a smallest     *)
(* element, which is how they reason by induction; counting modulo a       *)
(* number, as the frame counters do; division that rounds up, which says   *)
(* how many fragments or frames there are.                                 *)
(***************************************************************************)
EXTENDS Integers, FiniteSets, FiniteSetsExt, FiniteSetTheorems, TLAPS

\* Strict inclusion of the intervals 1..n is well-founded, so there is a smallest n.
LEMMA Smallest ==
  ASSUME NEW S \in SUBSET Nat, S # {}
  PROVE  \E m \in S : \A n \in S : m <= n
<1> DEFINE T == {1..n : n \in S}
<1>1. T # {} /\ T \subseteq FiniteSubsetsOf(Nat)
  <2>1. \A n \in S : 1..n \in SUBSET Nat /\ IsFiniteSet(1..n)
    BY FS_Interval
  <2> QED
    BY <2>1 DEF FiniteSubsetsOf
<1>2. PICK x \in T : \A y \in T : <<y, x>> \notin StrictSubsetOrdering(Nat)
  <2> HIDE DEF T
  <2> QED
    BY <1>1, FS_StrictSubsetOrderingWellFounded, WFMin
<1>3. PICK m \in S : x = 1..m
  BY <1>2
<1>4. ASSUME NEW n \in S, n < m
      PROVE  FALSE
  <2>1. 1..n \subseteq 1..m /\ 1..n # 1..m /\ 1..n \in T
    <3>1. n \in Nat /\ m \in Nat /\ m \in 1..m /\ m \notin 1..n
      BY <1>4
    <3> QED
      BY <3>1
  <2>2. <<1..n, 1..m>> \in StrictSubsetOrdering(Nat)
    BY <2>1, <1>1 DEF StrictSubsetOrdering, FiniteSubsetsOf
  <2> QED
    BY <1>2, <1>3, <2>1, <2>2
<1> QED
  BY <1>4

\* Induction over a set: one that has 0 and with each number the next has all.
LEMMA Induction ==
  ASSUME NEW S \in SUBSET Nat, 0 \in S, \A n \in S : n + 1 \in S
  PROVE  S = Nat
<1>1. SUFFICES ASSUME Nat \ S # {} PROVE FALSE
  OBVIOUS
<1>2. PICK m \in Nat \ S : \A n \in Nat \ S : m <= n
  BY <1>1, Smallest
<1>3. m - 1 \in Nat /\ ~(m <= m - 1)
  BY <1>2
<1>4. m - 1 \in S /\ (m - 1) + 1 = m
  BY <1>2, <1>3
<1> QED
  BY <1>2, <1>4

LEMMA InductionUpTo ==
  ASSUME NEW N \in Nat, NEW S \in SUBSET (0..N), 0 \in S, \A n \in S : n < N => n + 1 \in S
  PROVE  S = 0..N
<1> DEFINE T == {n \in Nat : n \in S \/ n > N}
<1>1. T \in SUBSET Nat /\ 0 \in T /\ \A n \in T : n + 1 \in T
  OBVIOUS
<1>2. T = Nat
  <2> HIDE DEF T
  <2> QED
    BY <1>1, Induction
<1>3. \A n \in 0..N : n \in T
  <2> HIDE DEF T
  <2> QED
    BY <1>2
<1>4. \A n \in 0..N : n \in S
  BY <1>3
<1> QED
  BY <1>4

LEMMA Factor ==
  ASSUME NEW a \in Int, NEW b \in Int, NEW m \in Nat \ {0}, a < b
  PROVE  a * m + m <= b * m
<1>1. a + 1 <= b
  OBVIOUS
<1>2. (a + 1) * m <= b * m
  BY <1>1
<1> QED
  BY <1>2

LEMMA Remainder ==
  ASSUME NEW a \in Int, NEW m \in Nat \ {0}
  PROVE  a % m \in 0..(m - 1) /\ a \div m \in Int /\ a = ((a \div m) * m) + (a % m)
OBVIOUS

LEMMA RemainderUnique ==
  ASSUME NEW a \in Int, NEW m \in Nat \ {0}, NEW q \in Int, NEW r \in 0..(m - 1), a = q * m + r
  PROVE  a % m = r /\ a \div m = q
<1> DEFINE p == a \div m
           s == a % m
<1>1. p \in Int /\ s \in 0..(m - 1) /\ p * m + s = q * m + r
  BY Remainder
<1>2. p * m \in Int /\ q * m \in Int
  BY <1>1
<1> HIDE DEF p, s
<1>3. CASE p < q
  <2>1. p * m + m <= q * m
    BY <1>1, <1>3, Factor
  <2> QED
    BY <1>1, <1>2, <2>1
<1>4. CASE q < p
  <2>1. q * m + m <= p * m
    BY <1>1, <1>4, Factor
  <2> QED
    BY <1>1, <1>2, <2>1
<1>5. CASE p = q
  <2>1. s = r
    BY <1>1, <1>2, <1>5
  <2> QED
    BY <1>5, <2>1 DEF p, s
<1> QED
  BY <1>1, <1>3, <1>4, <1>5

\* A counter that is advanced modulo m counts modulo m.
LEMMA RemainderOfSum ==
  ASSUME NEW a \in Int, NEW b \in Int, NEW m \in Nat \ {0}
  PROVE  ((a % m) + b) % m = (a + b) % m
<1> DEFINE q == a \div m
           r == a % m
           p == (r + b) \div m
           s == (r + b) % m
<1>1. q \in Int /\ r \in 0..(m - 1) /\ a = (q * m) + r
  BY Remainder
<1>2. p \in Int /\ s \in 0..(m - 1) /\ r + b = (p * m) + s
  <2>1. r + b \in Int
    BY <1>1
  <2> HIDE DEF r
  <2> QED
    BY <2>1, Remainder
<1> HIDE DEF q, r, p, s
<1>3. q * m \in Int /\ p * m \in Int /\ (q + p) * m = (q * m) + (p * m)
  BY <1>1, <1>2
<1>4. q + p \in Int /\ a + b \in Int /\ a + b = ((q + p) * m) + s
  BY <1>1, <1>2, <1>3
<1>5. (a + b) % m = s
  BY <1>2, <1>4, RemainderUnique
<1> QED
  BY <1>5 DEF s, r

LEMMA SmallRemainder ==
  ASSUME NEW m \in Nat \ {0}, NEW a \in 0..(m - 1)
  PROVE  a % m = a
<1>1. a = (0 * m) + a
  OBVIOUS
<1> QED
  BY <1>1, RemainderUnique

\* How many pieces of at most m there are: none of nothing, else as many as needed.
LEMMA RoundedUp ==
  ASSUME NEW a \in Nat, NEW m \in Nat \ {0}
  PROVE  /\ (a + m - 1) \div m \in Nat
         /\ (a + m - 1) \div m = 0 <=> a = 0
         /\ a <= ((a + m - 1) \div m) * m
         /\ ((a + m - 1) \div m) * m < a + m
<1> DEFINE q == (a + m - 1) \div m
           r == (a + m - 1) % m
<1>1. q \in Int /\ r \in 0..(m - 1) /\ a + m - 1 = (q * m) + r
  <2>1. a + m - 1 \in Int
    OBVIOUS
  <2> QED
    BY <2>1, Remainder
<1> HIDE DEF q, r
<1>2. q * m \in Int /\ a <= q * m /\ q * m < a + m
  BY <1>1
<1>3. q >= 0
  <2>1. CASE q < 0
    <3>1. (q * m) + m <= 0 * m
      BY <1>1, <2>1, Factor
    <3> QED
      BY <1>2, <3>1
  <2> QED
    BY <1>1, <2>1
<1>4. a = 0 => q = 0
  <2>1. CASE 0 < q
    <3>1. (0 * m) + m <= q * m
      BY <1>1, <2>1, Factor
    <3> QED
      BY <1>2, <3>1
  <2> QED
    BY <1>1, <1>3, <2>1
<1>5. q = 0 => a = 0
  BY <1>2
<1> QED
  BY <1>1, <1>2, <1>3, <1>4, <1>5 DEF q

\* The largest element of an interval, and what is left without it.
LEMMA LastIndex ==
  ASSUME NEW n \in Nat
  PROVE  Max(1..(n + 1)) = n + 1 /\ (1..(n + 1)) \ {n + 1} = 1..n
<1>1. \A x \in 1..(n + 1) : (\A y \in 1..(n + 1) : x >= y) <=> x = n + 1
  OBVIOUS
<1> QED
  BY <1>1 DEF Max

LEMMA WithoutLargest ==
  ASSUME NEW n \in Nat, NEW t \in SUBSET (1..(n + 1)), t # {}
  PROVE  t \ {Max(t)} \in SUBSET (1..n)
<1>1. CASE n + 1 \in t
  <2>1. \A x \in t : (\A y \in t : x >= y) <=> x = n + 1
    BY <1>1
  <2>2. Max(t) = n + 1
    BY <1>1, <2>1 DEF Max
  <2> QED
    BY <2>2
<1>2. CASE n + 1 \notin t
  <2>1. \A x \in t : x \in 1..n
    BY <1>2
  <2> QED
    BY <2>1
<1> QED
  BY <1>1, <1>2

=============================================================================
