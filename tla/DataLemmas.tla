------------------------------ MODULE DataLemmas ------------------------------
(***************************************************************************)
(* Lemmas about numbers, sums, sequences and finite sets that the proofs   *)
(* about the components share.                                             *)
(*                                                                         *)
(* Induction is stated of sets: to show that P(k) holds for every natural  *)
(* k, form the set of the k that satisfy P and show that it holds 0 and is *)
(* closed under successor.                                                 *)
(***************************************************************************)
EXTENDS Integers, Sequences, FiniteSets, SequencesExt, FiniteSetTheorems,
        SequenceTheorems, WellFoundedInduction, TLAPS

-------------------------------------------------------------------------------
(* Induction.                                                              *)

Less == {pair \in Nat \X Nat : pair[1] < pair[2]}

\* A set that holds 0, and the successor of each natural it holds, holds all.
LEMMA InductionOnSet ==
  ASSUME NEW S, 0 \in S, \A n \in Nat : n \in S => n + 1 \in S
  PROVE  Nat \subseteq S
<1>1. IsWellFoundedOn(Less, Nat)
  BY NatLessThanWellFounded DEF OpToRel, Less
<1>2. SUFFICES ASSUME Nat \ S # {} PROVE FALSE
  OBVIOUS
<1>3. PICK x \in Nat \ S : \A y \in Nat \ S : ~ (<<y, x>> \in Less)
  BY <1>1, <1>2, WFMin
<1>4. x - 1 \in Nat /\ x - 1 < x /\ x = (x - 1) + 1
  OBVIOUS
<1>5. x - 1 \in S
  BY <1>3, <1>4 DEF Less
<1>6. QED
  BY <1>4, <1>5

\* The same up to n.
LEMMA IntervalInduction ==
  ASSUME NEW n \in Nat, NEW S, 0 \in S,
         \A k \in 0 .. n - 1 : k \in S => k + 1 \in S
  PROVE  0 .. n \subseteq S
<1> DEFINE T == S \cup {k \in Nat : k > n}
<1>1. 0 \in T
  OBVIOUS
<1>2. \A k \in Nat : k \in T => k + 1 \in T
  OBVIOUS
<1>3. Nat \subseteq T
  <2> HIDE DEF T
  <2>1. QED
    BY <1>1, <1>2, InductionOnSet
<1>4. QED
  BY <1>3

LEMMA LeastExists ==
  ASSUME NEW S, S \subseteq Nat, S # {}
  PROVE  \E x \in S : \A y \in S : x <= y
<1>1. IsWellFoundedOn(Less, Nat)
  BY NatLessThanWellFounded DEF OpToRel, Less
<1>2. PICK x \in S : \A y \in S : ~ (<<y, x>> \in Less)
  BY <1>1, WFMin
<1>3. ASSUME NEW y \in S
      PROVE  x <= y
  <2>1. x \in Nat /\ y \in Nat
    OBVIOUS
  <2>2. ~ (y < x)
    BY <1>2, <2>1 DEF Less
  <2>3. QED
    BY <2>1, <2>2
<1>4. QED
  BY <1>3

-------------------------------------------------------------------------------
(* Division.                                                               *)

LEMMA DivIs ==
  ASSUME NEW a \in Nat, NEW b \in Nat \ {0}
  PROVE  /\ a \div b \in Nat
         /\ a % b \in 0 .. b - 1
         /\ a = b * (a \div b) + (a % b)
  OBVIOUS

LEMMA ProductMonotonic ==
  ASSUME NEW a \in Nat, NEW b \in Nat, NEW c \in Nat, a <= b
  PROVE  a * c <= b * c
  OBVIOUS

\* Numbers less than m apart have different remainders.
LEMMA SameRemainder ==
  ASSUME NEW a \in Nat, NEW b \in Nat, NEW m \in Nat \ {0},
         a <= b, b - a < m, a % m = b % m
  PROVE  a = b
<1> DEFINE p == a \div m
           q == b \div m
           r == a % m
<1>1. p \in Nat /\ q \in Nat /\ r \in Nat /\ a = m * p + r /\ b = m * q + r
  <2>1. q \in Nat /\ b = m * q + (b % m)
    BY DivIs
  <2>2. p \in Nat /\ a % m \in 0 .. m - 1 /\ a = m * p + (a % m)
    BY DivIs
  <2> HIDE DEF p, q
  <2>3. QED
    BY <2>1, <2>2
<1> HIDE DEF p, q, r
<1>2. ~ (q >= p + 1)
  <2>1. SUFFICES ASSUME q >= p + 1 PROVE FALSE
    OBVIOUS
  <2>2. (p + 1) * m <= q * m
    BY <1>1, <2>1, ProductMonotonic
  <2>3. QED
    BY <1>1, <2>2
<1>3. ~ (p >= q + 1)
  <2>1. SUFFICES ASSUME p >= q + 1 PROVE FALSE
    OBVIOUS
  <2>2. (q + 1) * m <= p * m
    BY <1>1, <2>1, ProductMonotonic
  <2>3. QED
    BY <1>1, <2>2
<1>4. QED
  BY <1>1, <1>2, <1>3

\* A part of w is no more of b than b.
LEMMA ShareAtMost ==
  ASSUME NEW a \in Nat, NEW b \in Nat, NEW w \in Nat \ {0}, a <= w
  PROVE  (a * b) \div w \in 0 .. b
<1> DEFINE q == (a * b) \div w
<1>1. a * b <= w * b
  BY ProductMonotonic
<1>2. q \in Nat /\ w * q <= a * b
  <2>1. a * b \in Nat
    OBVIOUS
  <2>2. QED
    BY <2>1, DivIs
<1> HIDE DEF q
<1>3. q <= b
  <2>1. SUFFICES ASSUME q >= b + 1 PROVE FALSE
    BY <1>2
  <2>2. (b + 1) * w <= q * w
    BY <1>2, <2>1, ProductMonotonic
  <2>3. QED
    BY <1>1, <1>2, <2>2
<1>4. QED
  BY <1>2, <1>3 DEF q

LEMMA WholeShare ==
  ASSUME NEW b \in Nat, NEW w \in Nat \ {0}
  PROVE  (w * b) \div w = b
<1> DEFINE q == (w * b) \div w
           r == (w * b) % w
<1>1. q \in 0 .. b
  BY ShareAtMost
<1>2. r \in 0 .. w - 1 /\ w * b = w * q + r
  <2>1. w * b \in Nat
    OBVIOUS
  <2>2. QED
    BY <2>1, DivIs
<1> HIDE DEF q, r
<1>3. ~ (q + 1 <= b)
  <2>1. SUFFICES ASSUME q + 1 <= b PROVE FALSE
    OBVIOUS
  <2>2. (q + 1) * w <= b * w
    BY <1>1, <2>1, ProductMonotonic
  <2>3. QED
    BY <1>1, <1>2, <2>2
<1>4. QED
  BY <1>1, <1>3 DEF q

\* Division that rounds up.
LEMMA RoundedUp ==
  ASSUME NEW a \in Nat, NEW b \in Nat \ {0}
  PROVE  /\ (a + b - 1) \div b \in Nat
         /\ a <= ((a + b - 1) \div b) * b
         /\ ((a + b - 1) \div b) * b <= a + b - 1
         /\ (a + b - 1) \div b = 0 <=> a = 0
<1> DEFINE c == a + b - 1
           q == c \div b
<1>1. c \in Nat
  OBVIOUS
<1>2. q \in Nat /\ b * q <= c /\ c < b * q + b
  <2> HIDE DEF c
  <2>1. q \in Nat /\ c % b \in 0 .. b - 1 /\ c = b * q + (c % b)
    BY <1>1, DivIs
  <2>2. QED
    BY <1>1, <2>1
<1> HIDE DEF q
<1>3. a = 0 => q = 0
  <2>1. SUFFICES ASSUME a = 0, q >= 1 PROVE FALSE
    BY <1>2
  <2>2. 1 * b <= q * b
    BY <1>2, <2>1, ProductMonotonic
  <2>3. QED
    BY <1>2, <2>1, <2>2
<1>4. q = 0 => a = 0
  BY <1>2
<1>5. a <= q * b /\ q * b <= a + b - 1
  BY <1>2
<1>6. QED
  BY <1>2, <1>3, <1>4, <1>5 DEF q

-------------------------------------------------------------------------------
(* Sums of h[1], h[2], ... up to n.                                        *)

IsSum(f, h, n) == f = [k \in 0 .. n |-> IF k = 0 THEN 0 ELSE f[k - 1] + h[k]]

LEMMA SumExists ==
  ASSUME NEW n \in Nat, NEW h
  PROVE  \E f : IsSum(f, h, n)
<1> DEFINE S == {m \in 0 .. n : \E f : IsSum(f, h, m)}
<1>1. 0 \in S
  <2>1. IsSum([k \in 0 .. 0 |-> 0], h, 0)
    BY DEF IsSum
  <2>2. QED
    BY <2>1
<1>2. ASSUME NEW m \in 0 .. n - 1, m \in S
      PROVE  m + 1 \in S
  <2>1. PICK f : IsSum(f, h, m)
    BY <1>2
  <2> DEFINE g == [k \in 0 .. m + 1 |->
                     IF k = m + 1 THEN f[m] + h[m + 1] ELSE f[k]]
  <2>2. ASSUME NEW k \in 0 .. m + 1
        PROVE  g[k] = IF k = 0 THEN 0 ELSE g[k - 1] + h[k]
    <3>1. CASE k = 0
      BY <2>1, <3>1 DEF IsSum
    <3>2. CASE k \in 1 .. m
      <4>1. k - 1 \in 0 .. m /\ k \in 0 .. m /\ k # 0
        BY <3>2
      <4>2. f[k] = f[k - 1] + h[k]
        BY <2>1, <4>1 DEF IsSum
      <4>3. QED
        BY <4>1, <4>2
    <3>3. CASE k = m + 1
      BY <3>3
    <3>4. QED
      BY <3>1, <3>2, <3>3
  <2>3. g = [k \in 0 .. m + 1 |-> g[k]]
    OBVIOUS
  <2> HIDE DEF g
  <2>4. IsSum(g, h, m + 1)
    BY <2>2, <2>3 DEF IsSum
  <2>5. QED
    BY <2>4
<1>3. 0 .. n \subseteq S
  <2> HIDE DEF S
  <2>1. QED
    BY <1>1, <1>2, IntervalInduction
<1>4. QED
  BY <1>3

\* Terms that are no smaller, and one of them larger by d, make a sum that
\* is larger by d at least.
LEMMA SumGrows ==
  ASSUME NEW n \in Nat, NEW f, NEW h, NEW g, NEW e,
         IsSum(f, h, n), IsSum(g, e, n),
         \A k \in 1 .. n : h[k] \in Int /\ e[k] \in Int /\ h[k] <= e[k],
         NEW t \in 1 .. n, NEW d \in Nat, h[t] + d <= e[t]
  PROVE  f[n] \in Int /\ g[n] \in Int /\ f[n] + d <= g[n]
<1> DEFINE S == {k \in 0 .. n :
                   /\ f[k] \in Int /\ g[k] \in Int
                   /\ f[k] + (IF k < t THEN 0 ELSE d) <= g[k]}
<1>1. 0 \in S
  BY DEF IsSum
<1>2. ASSUME NEW k \in 0 .. n - 1, k \in S
      PROVE  k + 1 \in S
  <2>1. k + 1 \in 1 .. n /\ k + 1 \in 0 .. n /\ k + 1 # 0 /\ (k + 1) - 1 = k
    OBVIOUS
  <2>2. f[k + 1] = f[k] + h[k + 1] /\ g[k + 1] = g[k] + e[k + 1]
    BY <2>1 DEF IsSum
  <2>3. /\ f[k] \in Int /\ g[k] \in Int
        /\ f[k] + (IF k < t THEN 0 ELSE d) <= g[k]
    BY <1>2
  <2>4. h[k + 1] \in Int /\ e[k + 1] \in Int /\ h[k + 1] <= e[k + 1]
    BY <2>1
  <2>5. k + 1 = t => h[k + 1] + d <= e[k + 1]
    OBVIOUS
  <2>6. QED
    BY <2>1, <2>2, <2>3, <2>4, <2>5
<1>3. 0 .. n \subseteq S
  <2> HIDE DEF S
  <2>1. QED
    BY <1>1, <1>2, IntervalInduction
<1>4. QED
  BY <1>3

LEMMA SumInt ==
  ASSUME NEW n \in Nat, NEW f, NEW h, IsSum(f, h, n),
         \A k \in 1 .. n : h[k] \in Int
  PROVE  f[n] \in Int
<1> DEFINE S == {k \in 0 .. n : f[k] \in Int}
<1>1. 0 \in S
  BY DEF IsSum
<1>2. ASSUME NEW k \in 0 .. n - 1, k \in S
      PROVE  k + 1 \in S
  <2>1. k + 1 \in 1 .. n /\ k + 1 \in 0 .. n /\ k + 1 # 0 /\ (k + 1) - 1 = k
    OBVIOUS
  <2>2. f[k + 1] = f[k] + h[k + 1]
    BY <2>1 DEF IsSum
  <2>3. QED
    BY <1>2, <2>1, <2>2
<1>3. 0 .. n \subseteq S
  <2> HIDE DEF S
  <2>1. QED
    BY <1>1, <1>2, IntervalInduction
<1>4. QED
  BY <1>3

\* One term more.
LEMMA SumExtends ==
  ASSUME NEW n \in Nat, NEW f, NEW h, NEW g, NEW e,
         IsSum(f, h, n), IsSum(g, e, n + 1),
         \A k \in 1 .. n : h[k] = e[k]
  PROVE  g[n + 1] = f[n] + e[n + 1]
<1> DEFINE S == {k \in 0 .. n : f[k] = g[k]}
<1>1. 0 \in S
  BY DEF IsSum
<1>2. ASSUME NEW k \in 0 .. n - 1, k \in S
      PROVE  k + 1 \in S
  <2>1. k + 1 \in 1 .. n /\ k + 1 \in 0 .. n /\ k + 1 \in 0 .. n + 1
        /\ k + 1 # 0 /\ (k + 1) - 1 = k
    OBVIOUS
  <2>2. f[k + 1] = f[k] + h[k + 1] /\ g[k + 1] = g[k] + e[k + 1]
    BY <2>1 DEF IsSum
  <2>3. QED
    BY <1>2, <2>1, <2>2
<1>3. n \in S
  <2> HIDE DEF S
  <2>1. QED
    BY <1>1, <1>2, IntervalInduction
<1>4. g[n + 1] = g[n] + e[n + 1]
  BY DEF IsSum
<1>5. QED
  BY <1>3, <1>4
-------------------------------------------------------------------------------
(* h[1] + ... + h[n].                                                      *)

Total(h, n) == (CHOOSE f : IsSum(f, h, n))[n]

LEMMA TotalIs ==
  ASSUME NEW h
  PROVE  /\ Total(h, 0) = 0
         /\ \A n \in Nat : Total(h, n + 1) = Total(h, n) + h[n + 1]
<1> DEFINE F(n) == CHOOSE f : IsSum(f, h, n)
<1>1. \A n \in Nat : IsSum(F(n), h, n)
  BY SumExists
<1>2. \A n : Total(h, n) = F(n)[n]
  BY DEF Total
<1> HIDE DEF F
<1>3. Total(h, 0) = 0
  BY <1>1, <1>2 DEF IsSum
<1>4. ASSUME NEW n \in Nat
      PROVE  Total(h, n + 1) = Total(h, n) + h[n + 1]
  <2>1. IsSum(F(n), h, n) /\ IsSum(F(n + 1), h, n + 1)
    BY <1>1
  <2>2. F(n + 1)[n + 1] = F(n)[n] + h[n + 1]
    BY <2>1, SumExtends
  <2>3. QED
    BY <1>2, <2>2
<1>5. QED
  BY <1>3, <1>4

\* Induction: what holds of 0, and of k + 1 when it holds of k, holds up to n.
LEMMA TotalInt ==
  ASSUME NEW n \in Nat, NEW h, \A k \in 1 .. n : h[k] \in Int
  PROVE  \A k \in 0 .. n : Total(h, k) \in Int
<1> DEFINE S == {k \in 0 .. n : Total(h, k) \in Int}
<1>1. 0 \in S
  BY TotalIs
<1>2. ASSUME NEW k \in 0 .. n - 1, k \in S
      PROVE  k + 1 \in S
  <2>1. k \in Nat /\ k + 1 \in 0 .. n /\ h[k + 1] \in Int /\ Total(h, k) \in Int
    BY <1>2
  <2>2. Total(h, k + 1) = Total(h, k) + h[k + 1]
    BY <2>1, TotalIs
  <2>3. QED
    BY <2>1, <2>2
<1>3. 0 .. n \subseteq S
  <2> HIDE DEF S
  <2>1. QED
    BY <1>1, <1>2, IntervalInduction
<1>4. QED
  BY <1>3

\* Terms that are the same have the same sum.
LEMMA TotalSame ==
  ASSUME NEW n \in Nat, NEW g, NEW h, \A k \in 1 .. n : g[k] = h[k]
  PROVE  Total(g, n) = Total(h, n)
<1> DEFINE S == {k \in 0 .. n : Total(g, k) = Total(h, k)}
<1>1. 0 \in S
  BY TotalIs
<1>2. ASSUME NEW k \in 0 .. n - 1, k \in S
      PROVE  k + 1 \in S
  <2>1. k \in Nat /\ k + 1 \in 0 .. n /\ g[k + 1] = h[k + 1]
        /\ Total(g, k) = Total(h, k)
    BY <1>2
  <2>2. /\ Total(g, k + 1) = Total(g, k) + g[k + 1]
        /\ Total(h, k + 1) = Total(h, k) + h[k + 1]
    BY <2>1, TotalIs
  <2>3. QED
    BY <2>1, <2>2
<1>3. 0 .. n \subseteq S
  <2> HIDE DEF S
  <2>1. QED
    BY <1>1, <1>2, IntervalInduction
<1>4. QED
  BY <1>3

\* A sum of sums.
IsLinear(n, c, f, g, h) ==
  \A k \in 1 .. n : f[k] \in Int /\ g[k] \in Int /\ h[k] = f[k] + c * g[k]

LEMMA TotalLinear ==
  ASSUME NEW n \in Nat, NEW c \in Int, NEW f, NEW g, NEW h, IsLinear(n, c, f, g, h)
  PROVE  /\ Total(f, n) \in Int /\ Total(g, n) \in Int
         /\ Total(h, n) = Total(f, n) + c * Total(g, n)
<1> DEFINE S == {k \in 0 .. n : Total(h, k) = Total(f, k) + c * Total(g, k)}
<1>1. /\ \A k \in 0 .. n : Total(f, k) \in Int
      /\ \A k \in 0 .. n : Total(g, k) \in Int
  <2>1. /\ \A k \in 1 .. n : f[k] \in Int
        /\ \A k \in 1 .. n : g[k] \in Int
    BY DEF IsLinear
  <2>2. QED
    BY <2>1, TotalInt
<1>2. 0 \in S
  BY TotalIs
<1>3. ASSUME NEW k \in 0 .. n - 1, k \in S
      PROVE  k + 1 \in S
  <2>1. k \in Nat /\ k + 1 \in 0 .. n /\ k \in 0 .. n
    OBVIOUS
  <2>2. /\ f[k + 1] \in Int /\ g[k + 1] \in Int /\ h[k + 1] = f[k + 1] + c * g[k + 1]
        /\ Total(f, k) \in Int /\ Total(g, k) \in Int
        /\ Total(h, k) = Total(f, k) + c * Total(g, k)
    <3>1. k + 1 \in 1 .. n
      OBVIOUS
    <3>2. f[k + 1] \in Int /\ g[k + 1] \in Int /\ h[k + 1] = f[k + 1] + c * g[k + 1]
      BY <3>1 DEF IsLinear
    <3>3. QED
      BY <1>1, <1>3, <2>1, <3>2
  <2>3. /\ Total(f, k + 1) = Total(f, k) + f[k + 1]
        /\ Total(g, k + 1) = Total(g, k) + g[k + 1]
        /\ Total(h, k + 1) = Total(h, k) + h[k + 1]
    BY <2>1, TotalIs
  <2>4. c * (Total(g, k) + g[k + 1]) = c * Total(g, k) + c * g[k + 1]
    BY <2>2
  <2>5. c * Total(g, k) \in Int /\ c * g[k + 1] \in Int
    BY <2>2
  <2>6. Total(h, k + 1) = Total(f, k + 1) + c * Total(g, k + 1)
    BY <2>2, <2>3, <2>4, <2>5
  <2>7. QED
    BY <2>1, <2>6
<1>4. 0 .. n \subseteq S
  <2> HIDE DEF S
  <2>1. QED
    BY <1>2, <1>3, IntervalInduction
<1>5. QED
  BY <1>1, <1>4

LEMMA TotalPlus ==
  ASSUME NEW n \in Nat, NEW f, NEW g, NEW h,
         \A k \in 1 .. n : f[k] \in Int /\ g[k] \in Int /\ h[k] = f[k] + g[k]
  PROVE  /\ Total(f, n) \in Int /\ Total(g, n) \in Int
         /\ Total(h, n) = Total(f, n) + Total(g, n)
<1>1. PICK c \in Int : c = 1
  OBVIOUS
<1>2. IsLinear(n, c, f, g, h)
  BY <1>1 DEF IsLinear
<1>3. /\ Total(f, n) \in Int /\ Total(g, n) \in Int
      /\ Total(h, n) = Total(f, n) + c * Total(g, n)
  BY <1>2, TotalLinear
<1>4. QED
  BY <1>1, <1>3

LEMMA TotalZero ==
  ASSUME NEW n \in Nat, NEW h, \A k \in 1 .. n : h[k] = 0
  PROVE  Total(h, n) = 0
<1> DEFINE S == {k \in 0 .. n : Total(h, k) = 0}
<1>1. 0 \in S
  BY TotalIs
<1>2. ASSUME NEW k \in 0 .. n - 1, k \in S
      PROVE  k + 1 \in S
  <2>1. k \in Nat /\ k + 1 \in 0 .. n /\ h[k + 1] = 0 /\ Total(h, k) = 0
    BY <1>2
  <2>2. Total(h, k + 1) = Total(h, k) + h[k + 1]
    BY <2>1, TotalIs
  <2>3. QED
    BY <2>1, <2>2
<1>3. 0 .. n \subseteq S
  <2> HIDE DEF S
  <2>1. QED
    BY <1>1, <1>2, IntervalInduction
<1>4. QED
  BY <1>3

\* Fewer terms that are not negative have no larger sum.
LEMMA TotalGrows ==
  ASSUME NEW n \in Nat, NEW h, \A k \in 1 .. n : h[k] \in Nat,
         NEW a \in 0 .. n, NEW b \in 0 .. n, a <= b
  PROVE  Total(h, a) <= Total(h, b)
<1> DEFINE S == {k \in 0 .. n : k >= a => Total(h, a) <= Total(h, k)}
<1>1. \A k \in 0 .. n : Total(h, k) \in Int
  <2>1. \A k \in 1 .. n : h[k] \in Int
    OBVIOUS
  <2>2. QED
    BY <2>1, TotalInt
<1>2. 0 \in S
  BY <1>1, TotalIs
<1>3. ASSUME NEW k \in 0 .. n - 1, k \in S
      PROVE  k + 1 \in S
  <2>1. k \in Nat /\ k + 1 \in 0 .. n /\ h[k + 1] \in Nat
        /\ (k >= a => Total(h, a) <= Total(h, k))
    BY <1>3
  <2>2. Total(h, k + 1) = Total(h, k) + h[k + 1]
    BY <2>1, TotalIs
  <2>3. CASE k + 1 = a
    BY <1>1, <2>1, <2>3
  <2>4. CASE k + 1 # a
    <3>1. Total(h, a) \in Int /\ Total(h, k) \in Int
      BY <1>1
    <3>2. QED
      BY <2>1, <2>2, <2>4, <3>1
  <2>5. QED
    BY <2>3, <2>4
<1>4. 0 .. n \subseteq S
  <2> HIDE DEF S
  <2>1. QED
    BY <1>2, <1>3, IntervalInduction
<1>5. QED
  BY <1>4

-------------------------------------------------------------------------------
(* Sequences that are joined.                                              *)

\* What FlattenSeq computes.
IsJoin(f, s, n) ==
  f = [i \in 1 .. n |-> IF i = 1 THEN s[i] ELSE f[i - 1] \o s[i]]

LEMMA JoinExists ==
  ASSUME NEW n \in Nat, NEW s
  PROVE  \E f : IsJoin(f, s, n)
<1> DEFINE S == {m \in 0 .. n : \E f : IsJoin(f, s, m)}
<1>1. 0 \in S
  <2>1. IsJoin([i \in 1 .. 0 |-> 0], s, 0)
    BY DEF IsJoin
  <2>2. QED
    BY <2>1
<1>2. ASSUME NEW m \in 0 .. n - 1, m \in S
      PROVE  m + 1 \in S
  <2>1. PICK f : IsJoin(f, s, m)
    BY <1>2
  <2> DEFINE g == [i \in 1 .. m + 1 |->
                     IF i = 1 THEN s[1]
                     ELSE IF i = m + 1 THEN f[m] \o s[m + 1] ELSE f[i]]
  <2>2. ASSUME NEW i \in 1 .. m + 1
        PROVE  g[i] = IF i = 1 THEN s[i] ELSE g[i - 1] \o s[i]
    <3>1. CASE i = 1
      BY <3>1
    <3>2. CASE i \in 2 .. m
      <4>1. i - 1 \in 1 .. m /\ i \in 1 .. m /\ i # 1 /\ i # m + 1
            /\ i - 1 \in 1 .. m + 1 /\ i - 1 # m + 1 /\ 1 \in 1 .. m
        BY <3>2
      <4>2. f[i] = f[i - 1] \o s[i]
        BY <2>1, <4>1 DEF IsJoin
      <4>3. g[i] = f[i]
        BY <4>1
      <4>4. g[i - 1] = f[i - 1]
        <5>1. CASE i - 1 = 1
          <6>1. f[1] = s[1]
            BY <2>1, <4>1 DEF IsJoin
          <6>2. QED
            BY <4>1, <5>1, <6>1
        <5>2. CASE i - 1 # 1
          BY <4>1, <5>2
        <5>3. QED
          BY <5>1, <5>2
      <4>5. QED
        BY <4>1, <4>2, <4>3, <4>4
    <3>3. CASE i = m + 1 /\ i # 1
      <4>1. i - 1 = m /\ m \in 1 .. m + 1 /\ m # m + 1 /\ m \in 1 .. m
            /\ 1 \in 1 .. m
        BY <3>3
      <4>2. g[m] = f[m]
        <5>1. CASE m = 1
          <6>1. f[1] = s[1]
            BY <2>1, <4>1 DEF IsJoin
          <6>2. QED
            BY <4>1, <5>1, <6>1
        <5>2. CASE m # 1
          BY <4>1, <5>2
        <5>3. QED
          BY <5>1, <5>2
      <4>3. QED
        BY <3>3, <4>1, <4>2
    <3>4. QED
      BY <3>1, <3>2, <3>3
  <2>3. g = [i \in 1 .. m + 1 |-> g[i]]
    OBVIOUS
  <2> HIDE DEF g
  <2>4. IsJoin(g, s, m + 1)
    BY <2>2, <2>3 DEF IsJoin
  <2>5. QED
    BY <2>4
<1>3. 0 .. n \subseteq S
  <2> HIDE DEF S
  <2>1. QED
    BY <1>1, <1>2, IntervalInduction
<1>4. QED
  BY <1>3

LEMMA FlattenSeqIs ==
  ASSUME NEW s, Len(s) \in Nat, Len(s) # 0
  PROVE  \E f : IsJoin(f, s, Len(s)) /\ FlattenSeq(s) = f[Len(s)]
<1> DEFINE n == Len(s)
           Unfolds(f) == f = [i \in 1 .. n |->
                                IF i = 1 THEN s[i] ELSE f[i - 1] \o s[i]]
<1>1. PICK f : IsJoin(f, s, n)
  BY JoinExists
<1>2. Unfolds(f)
  BY <1>1 DEF IsJoin
<1> DEFINE g == CHOOSE h : Unfolds(h)
<1>3. Unfolds(g)
  <2> HIDE DEF Unfolds
  <2>1. QED
    BY <1>2
<1>4. FlattenSeq(s) = g[n]
  BY Zenon DEF FlattenSeq
<1> HIDE DEF g
<1>5. QED
  BY <1>3, <1>4 DEF IsJoin

\* Pieces of the numbers from 1 on, each beginning where the one before ends.
Runs(n, lo, hi) ==
  [k \in 1 .. n |-> [i \in 1 .. hi[k] - lo[k] |-> lo[k] + i]]

LEMMA FlattenRuns ==
  ASSUME NEW n \in Nat \ {0}, NEW lo, NEW hi,
         \A k \in 1 .. n : lo[k] \in Nat /\ hi[k] \in Nat /\ lo[k] <= hi[k],
         lo[1] = 0, \A k \in 1 .. n - 1 : lo[k + 1] = hi[k]
  PROVE  FlattenSeq(Runs(n, lo, hi)) = [i \in 1 .. hi[n] |-> i]
<1> DEFINE s == Runs(n, lo, hi)
           run(k) == [i \in 1 .. hi[k] |-> i]
<1>1. Len(s) = n
  BY DEF Runs
<1>2. PICK f : IsJoin(f, s, n) /\ FlattenSeq(s) = f[n]
  <2> HIDE DEF s
  <2>1. QED
    BY <1>1, FlattenSeqIs
<1> DEFINE S == {k \in 0 .. n : k = 0 \/ f[k] = run(k)}
<1>3. 0 \in S
  OBVIOUS
<1>4. ASSUME NEW k \in 0 .. n - 1, k \in S
      PROVE  k + 1 \in S
  <2>1. k + 1 \in 1 .. n /\ (k + 1) - 1 = k
    OBVIOUS
  <2>2. f[k + 1] = IF k + 1 = 1 THEN s[k + 1] ELSE f[k] \o s[k + 1]
    <3> HIDE DEF s
    <3>1. QED
      BY <1>2, <2>1 DEF IsJoin
  <2>3. s[k + 1] = [i \in 1 .. hi[k + 1] - lo[k + 1] |-> lo[k + 1] + i]
    BY <2>1 DEF Runs
  <2> DEFINE a == lo[k + 1]
             b == hi[k + 1]
  <2>4. a \in Nat /\ b \in Nat /\ a <= b
    BY <2>1
  <2>5. CASE k = 0
    <3>1. a = 0
      BY <2>5
    <3>2. s[k + 1] = [i \in 1 .. b |-> i]
      <4> HIDE DEF s, a, b
      <4>1. s[k + 1] = [i \in 1 .. b - a |-> a + i]
        BY <2>3 DEF a, b
      <4>2. QED
        BY <2>4, <3>1, <4>1
    <3>3. QED
      BY <2>1, <2>2, <2>5, <3>2
  <2>6. CASE k # 0
    <3>1. f[k] = [i \in 1 .. a |-> i]
      <4>1. k \in 1 .. n - 1 /\ f[k] = run(k)
        BY <1>4, <2>6
      <4>2. a = hi[k]
        BY <4>1
      <4> HIDE DEF a
      <4>3. QED
        BY <4>1, <4>2
    <3>2. f[k + 1] = [i \in 1 .. a |-> i] \o [i \in 1 .. b - a |-> a + i]
      <4>1. f[k + 1] = f[k] \o s[k + 1]
        <5> HIDE DEF s, S
        <5>1. k + 1 # 1
          BY <2>6
        <5>2. QED
          BY <2>2, <5>1
      <4>2. s[k + 1] = [i \in 1 .. b - a |-> a + i]
        BY <2>3
      <4> HIDE DEF s, a, b, S
      <4>3. QED
        BY <3>1, <4>1, <4>2
    <3>3. [i \in 1 .. a |-> i] \o [i \in 1 .. b - a |-> a + i]
          = [i \in 1 .. b |-> i]
      <4> HIDE DEF a, b
      <4>1. QED
        BY <2>4
    <3>4. f[k + 1] = run(k + 1)
      <4>1. run(k + 1) = [i \in 1 .. b |-> i]
        OBVIOUS
      <4> HIDE DEF run, a, b
      <4>2. QED
        BY <3>2, <3>3, <4>1
    <3> HIDE DEF run
    <3>5. QED
      BY <2>1, <3>4
  <2>7. QED
    BY <2>5, <2>6
<1>5. 0 .. n \subseteq S
  <2> HIDE DEF S
  <2>1. QED
    BY <1>3, <1>4, IntervalInduction
<1>6. QED
  BY <1>2, <1>5
===============================================================================
