-------------------------- MODULE DeflateBlockProofs --------------------------
(***************************************************************************)
(* DeflateBlock, for every sequence of items that LZ77 may find: whatever  *)
(* the block holds and whichever trees it takes, an inflater refuses       *)
(* nothing and reads the items that were written.                          *)
(*                                                                         *)
(* A block is a concatenation of pieces P: its header, then one piece for  *)
(* each run length code, then one for each item.  The writer's k-th step   *)
(* in a loop appends a piece; the reader's k-th step in a loop takes one.  *)
(* For each kind of piece a lemma says that a reader who stands where the  *)
(* piece begins comes to where it ends, with what the piece was made of.   *)
(***************************************************************************)
EXTENDS DeflateBlock, HuffmanCodeProofs

-------------------------------------------------------------------------------
(* Reading numbers.                                                        *)

Bit == {0, 1}

LEMMA BitAtIs ==
  ASSUME NEW bits \in Seq(Bit), NEW pos \in Nat
  PROVE  Reader!bit_at(bits, pos) \in Bit
  BY DEF Reader!bit_at, Bit

\* The terms of number().
Worth(bits, pos, n) == [k \in 1 .. n |-> Reader!bit_at(bits, pos + k - 1) * 2 ^ (k - 1)]

LEMMA NumberUnfolds ==
  ASSUME NEW n \in Nat, NEW bits, NEW pos
  PROVE  Reader!number(bits, pos, n) = Total(Worth(bits, pos, n), n)
<1> DEFINE h == Worth(bits, pos, n)
           Unfolds(f) ==
             f = [k \in 0 .. n |->
                    IF k = 0 THEN 0
                    ELSE f[k - 1] + Reader!bit_at(bits, pos + k - 1) * 2 ^ (k - 1)]
<1>1. \E f : IsSum(f, h, n)
  BY SumExists
<1>2. \A f : IsSum(f, h, n) <=> Unfolds(f)
  <2>1. \A k \in 0 .. n : k # 0 => h[k] = Reader!bit_at(bits, pos + k - 1) * 2 ^ (k - 1)
    <3>1. \A k \in 0 .. n : k # 0 => k \in 1 .. n
      OBVIOUS
    <3>2. QED
      BY <3>1 DEF Worth
  <2> HIDE DEF h
  <2>2. QED
    BY <2>1 DEF IsSum
<1>3. Reader!number(bits, pos, n) = (CHOOSE f : Unfolds(f))[n]
  BY Zenon DEF Reader!number
<1> HIDE DEF Unfolds
<1>4. (CHOOSE f : Unfolds(f)) = CHOOSE f : IsSum(f, h, n)
  BY <1>2
<1>5. QED
  BY <1>3, <1>4 DEF Total

LEMMA NumberGrows ==
  ASSUME NEW n \in Nat, NEW bits, NEW pos \in Nat
  PROVE  /\ Reader!number(bits, pos, 0) = 0
         /\ Reader!number(bits, pos, n + 1)
              = Reader!number(bits, pos, n) + Reader!bit_at(bits, pos + n) * 2 ^ n
<1> DEFINE less == Worth(bits, pos, n)
           more == Worth(bits, pos, n + 1)
<1>1. /\ Reader!number(bits, pos, 0) = Total(Worth(bits, pos, 0), 0)
      /\ Reader!number(bits, pos, n) = Total(less, n)
      /\ Reader!number(bits, pos, n + 1) = Total(more, n + 1)
  BY NumberUnfolds
<1>2. Total(Worth(bits, pos, 0), 0) = 0
  BY TotalIs
<1>3. \A k \in 1 .. n : less[k] = more[k]
  BY DEF Worth
<1>4. more[n + 1] = Reader!bit_at(bits, pos + n) * 2 ^ n
  <2>1. n + 1 \in 1 .. n + 1 /\ pos + (n + 1) - 1 = pos + n /\ (n + 1) - 1 = n
    OBVIOUS
  <2>2. more[n + 1] = Reader!bit_at(bits, pos + (n + 1) - 1) * 2 ^ ((n + 1) - 1)
    BY <2>1 DEF Worth
  <2>3. QED
    BY <2>1, <2>2, Zenon
<1> HIDE DEF less, more
<1>5. Total(less, n) = Total(more, n)
  BY <1>3, TotalSame
<1>6. Total(more, n + 1) = Total(more, n) + more[n + 1]
  BY TotalIs
<1>7. QED
  BY <1>1, <1>2, <1>4, <1>5, <1>6

\* Quotient and remainder are what they are said to be.
LEMMA DivUnique ==
  ASSUME NEW d \in Nat \ {0}, NEW q \in Nat, NEW r \in 0 .. d - 1
  PROVE  (d * q + r) \div d = q /\ (d * q + r) % d = r
<1> DEFINE a == d * q + r
           p == a \div d
           s == a % d
<1>1. a \in Nat
  OBVIOUS
<1>2. p \in Nat /\ s \in 0 .. d - 1 /\ a = d * p + s
  <2> HIDE DEF a
  <2>1. QED
    BY <1>1, DivIs
<1>3. a = d * q + r
  OBVIOUS
<1> HIDE DEF a, p, s
<1>4. ~ (p + 1 <= q)
  <2>1. SUFFICES ASSUME p + 1 <= q PROVE FALSE
    OBVIOUS
  <2>2. (p + 1) * d <= q * d
    BY <1>2, <2>1, ProductMonotonic
  <2>3. QED
    BY <1>2, <1>3, <2>2
<1>5. ~ (q + 1 <= p)
  <2>1. SUFFICES ASSUME q + 1 <= p PROVE FALSE
    OBVIOUS
  <2>2. (q + 1) * d <= p * d
    BY <1>2, <2>1, ProductMonotonic
  <2>3. QED
    BY <1>2, <1>3, <2>2
<1>6. p = q
  BY <1>2, <1>4, <1>5
<1>7. s = r
  BY <1>2, <1>3, <1>6
<1>8. QED
  BY <1>6, <1>7 DEF a, p, s

\* The digit of x that is worth w, and what is below and above it.
LEMMA DigitIs ==
  ASSUME NEW x \in Nat, NEW w \in Nat \ {0}
  PROVE  /\ (x \div w) % 2 \in Bit
         /\ x % (2 * w) = (x % w) + ((x \div w) % 2) * w
         /\ (x \div w) \div 2 = x \div (2 * w)
         /\ x \div w = 2 * (x \div (2 * w)) + ((x \div w) % 2)
<1>1. PICK q \in Nat, r \in 0 .. w - 1 : q = x \div w /\ r = x % w /\ x = w * q + r
  BY DivIs
<1>2. PICK p \in Nat, b \in 0 .. 1 : p = q \div 2 /\ b = q % 2 /\ q = 2 * p + b
  BY DivIs
<1>3. b * w + r \in 0 .. 2 * w - 1
  <2>1. b = 0 \/ b = 1
    OBVIOUS
  <2>2. QED
    BY <2>1
<1>4. x = (2 * w) * p + (b * w + r)
  <2>1. w * (2 * p + b) + r = (2 * w) * p + (b * w + r)
    OBVIOUS
  <2>2. QED
    BY <1>1, <1>2, <2>1
<1>5. x \div (2 * w) = p /\ x % (2 * w) = b * w + r
  <2>1. 2 * w \in Nat \ {0}
    OBVIOUS
  <2>2. PICK d \in Nat \ {0} : d = 2 * w
    BY <2>1
  <2>3. PICK s \in 0 .. d - 1 : s = b * w + r
    BY <1>3, <2>2
  <2>4. x = d * p + s
    BY <1>4, <2>2, <2>3
  <2>5. x \div d = p /\ x % d = s
    BY <2>4, DivUnique
  <2>6. QED
    BY <2>2, <2>3, <2>5
<1>6. b \in Bit
  BY DEF Bit
<1>7. (x \div w) % 2 = b /\ (x \div w) \div 2 = p
  BY <1>1, <1>2
<1>8. b * w + r = r + b * w
  OBVIOUS
<1>9. QED
  BY <1>1, <1>2, <1>5, <1>6, <1>7, <1>8

\* The bits from pos on begin with s.
Holds(bits, pos, s) ==
  \A i \in 1 .. Len(s) : Reader!bit_at(bits, pos + i - 1) = s[i]

LEMMA LittleIs ==
  ASSUME NEW x \in Nat, NEW n \in Nat
  PROVE  /\ little(x, n) \in Seq(Bit) /\ Len(little(x, n)) = n
         /\ \A i \in 0 .. n - 1 : little(x, n)[i + 1] = (x \div 2 ^ i) % 2
<1> DEFINE s == little(x, n)
<1>1. s = [i \in 1 .. n |-> (x \div 2 ^ (i - 1)) % 2]
  BY DEF little
<1>2. ASSUME NEW i \in 1 .. n
      PROVE  (x \div 2 ^ (i - 1)) % 2 \in Bit
  <2>1. PICK w \in Nat \ {0} : w = 2 ^ (i - 1)
    BY PowerOfTwo
  <2>2. (x \div w) % 2 \in Bit
    BY DigitIs
  <2>3. QED
    BY <2>1, <2>2
<1>3. s \in [1 .. n -> Bit]
  BY <1>1, <1>2
<1>4. ASSUME NEW i \in 0 .. n - 1
      PROVE  s[i + 1] = (x \div 2 ^ i) % 2
  <2>1. i + 1 \in 1 .. n /\ (i + 1) - 1 = i
    OBVIOUS
  <2>2. s[i + 1] = (x \div 2 ^ ((i + 1) - 1)) % 2
    BY <1>1, <2>1
  <2>3. QED
    BY <2>1, <2>2, Zenon
<1> HIDE DEF s
<1>5. s \in Seq(Bit) /\ Len(s) = n
  BY <1>3
<1>6. QED
  BY <1>4, <1>5 DEF s

\* A number that fits its field is read as it was written.
LEMMA NumberRead ==
  ASSUME NEW n \in Nat, NEW x \in Nat, x < 2 ^ n, NEW bits, NEW pos \in Nat,
         Holds(bits, pos, little(x, n))
  PROVE  Reader!number(bits, pos, n) = x
<1> DEFINE S == {k \in 0 .. n : Reader!number(bits, pos, k) = x % 2 ^ k}
<1>1. 0 \in S
  <2>1. Reader!number(bits, pos, 0) = 0
    BY NumberGrows
  <2>2. x % 2 ^ 0 = 0
    <3>1. x % 1 = 0
      OBVIOUS
    <3>2. QED
      BY <3>1, PowerOfZero
  <2>3. QED
    BY <2>1, <2>2
<1>2. ASSUME NEW k \in 0 .. n - 1, k \in S
      PROVE  k + 1 \in S
  <2>1. k \in Nat /\ k + 1 \in 0 .. n /\ Reader!number(bits, pos, k) = x % 2 ^ k
    BY <1>2
  <2>2. PICK w \in Nat \ {0} : w = 2 ^ k /\ 2 ^ (k + 1) = 2 * w
    BY <2>1, PowerOfTwo
  <2>3. Reader!bit_at(bits, pos + k) = (x \div w) % 2
    <3>1. k + 1 \in 1 .. n /\ pos + (k + 1) - 1 = pos + k
      BY <2>1
    <3>2. k + 1 \in 1 .. Len(little(x, n)) /\ little(x, n)[k + 1] = (x \div 2 ^ k) % 2
      BY <3>1, LittleIs
    <3>3. Reader!bit_at(bits, pos + (k + 1) - 1) = little(x, n)[k + 1]
      BY <3>2, Zenon DEF Holds
    <3>4. QED
      BY <2>2, <3>1, <3>2, <3>3
  <2>4. Reader!number(bits, pos, k + 1)
          = Reader!number(bits, pos, k) + Reader!bit_at(bits, pos + k) * 2 ^ k
    BY <2>1, NumberGrows
  <2>5. x % (2 * w) = (x % w) + ((x \div w) % 2) * w
    BY DigitIs
  <2>6. Reader!number(bits, pos, k + 1) = x % 2 ^ (k + 1)
    BY <2>1, <2>2, <2>3, <2>4, <2>5
  <2>7. QED
    BY <2>1, <2>6
<1>3. n \in S
  <2> HIDE DEF S
  <2>1. n \in 0 .. n
    OBVIOUS
  <2>2. QED
    BY <1>1, <1>2, <2>1, IntervalInduction
<1>4. Reader!number(bits, pos, n) = x % 2 ^ n
  BY <1>3
<1>5. PICK w \in Nat \ {0} : w = 2 ^ n
  BY PowerOfTwo
<1>6. x % w = x
  <2>1. x \in 0 .. w - 1 /\ w * 0 + x = x
    BY <1>5
  <2>2. (w * 0 + x) % w = x
    BY <2>1, DivUnique
  <2>3. QED
    BY <2>1, <2>2
<1>7. QED
  BY <1>4, <1>5, <1>6

-------------------------------------------------------------------------------
(* Reading strings.                                                        *)

IsDoubling(f, h, n) ==
  f = [k \in 0 .. n |-> IF k = 0 THEN 0 ELSE 2 * f[k - 1] + h[k]]

LEMMA DoublingExists ==
  ASSUME NEW n \in Nat, NEW h
  PROVE  \E f : IsDoubling(f, h, n)
<1> DEFINE S == {m \in 0 .. n : \E f : IsDoubling(f, h, m)}
<1>1. 0 \in S
  <2>1. IsDoubling([k \in 0 .. 0 |-> 0], h, 0)
    BY DEF IsDoubling
  <2>2. QED
    BY <2>1
<1>2. ASSUME NEW m \in 0 .. n - 1, m \in S
      PROVE  m + 1 \in S
  <2>1. PICK f : IsDoubling(f, h, m)
    BY <1>2
  <2> DEFINE g == [k \in 0 .. m + 1 |-> IF k = m + 1 THEN 2 * f[m] + h[k] ELSE f[k]]
  <2>2. ASSUME NEW k \in 0 .. m + 1
        PROVE  g[k] = IF k = 0 THEN 0 ELSE 2 * g[k - 1] + h[k]
    <3>1. CASE k \in 0 .. m
      <4>1. g[k] = f[k] /\ (k # 0 => k - 1 \in 0 .. m + 1 /\ g[k - 1] = f[k - 1])
        BY <3>1
      <4>2. f[k] = IF k = 0 THEN 0 ELSE 2 * f[k - 1] + h[k]
        BY <2>1, <3>1 DEF IsDoubling
      <4>3. QED
        BY <4>1, <4>2
    <3>2. CASE k = m + 1
      <4>1. k # 0 /\ k - 1 = m /\ m \in 0 .. m + 1 /\ m # m + 1
        BY <3>2
      <4>2. g[k] = 2 * f[m] + h[k] /\ g[m] = f[m]
        BY <3>2, <4>1
      <4>3. QED
        BY <4>1, <4>2
    <3>3. QED
      BY <3>1, <3>2
  <2>3. IsDoubling(g, h, m + 1)
    <3>1. g = [k \in 0 .. m + 1 |-> g[k]]
      OBVIOUS
    <3> HIDE DEF g
    <3>2. QED
      BY <2>2, <3>1 DEF IsDoubling
  <2>4. m + 1 \in 0 .. n
    OBVIOUS
  <2>5. QED
    BY <2>3, <2>4
<1>3. n \in S
  <2> HIDE DEF S
  <2>1. n \in 0 .. n
    OBVIOUS
  <2>2. QED
    BY <1>1, <1>2, <2>1, IntervalInduction
<1>4. QED
  BY <1>3

LEMMA DoublingExtends ==
  ASSUME NEW n \in Nat, NEW f, NEW h, NEW g, NEW e,
         IsDoubling(f, h, n), IsDoubling(g, e, n + 1), \A k \in 1 .. n : h[k] = e[k]
  PROVE  g[n + 1] = 2 * f[n] + e[n + 1]
<1> DEFINE S == {k \in 0 .. n : f[k] = g[k]}
<1>1. 0 \in S
  BY DEF IsDoubling
<1>2. ASSUME NEW k \in 0 .. n - 1, k \in S
      PROVE  k + 1 \in S
  <2>1. k + 1 \in 0 .. n /\ k + 1 \in 0 .. n + 1 /\ k + 1 # 0 /\ (k + 1) - 1 = k
        /\ k + 1 \in 1 .. n /\ f[k] = g[k]
    BY <1>2
  <2>2. f[k + 1] = 2 * f[k] + h[k + 1] /\ g[k + 1] = 2 * g[k] + e[k + 1]
    BY <2>1 DEF IsDoubling
  <2>3. h[k + 1] = e[k + 1]
    BY <2>1
  <2>4. QED
    BY <2>1, <2>2, <2>3
<1>3. n \in S
  <2> HIDE DEF S
  <2>1. n \in 0 .. n
    OBVIOUS
  <2>2. QED
    BY <1>1, <1>2, <2>1, IntervalInduction
<1>4. n + 1 \in 0 .. n + 1 /\ n + 1 # 0 /\ (n + 1) - 1 = n
  OBVIOUS
<1>5. g[n + 1] = 2 * g[n] + e[n + 1]
  BY <1>4 DEF IsDoubling
<1>6. QED
  BY <1>3, <1>5

NextBits(bits, pos, n) == [k \in 1 .. n |-> Reader!bit_at(bits, pos + k - 1)]

LEMMA StringUnfolds ==
  ASSUME NEW n \in Nat, NEW bits, NEW pos
  PROVE  \E f : /\ IsDoubling(f, NextBits(bits, pos, n), n)
                /\ Reader!string(bits, pos, n) = f[n]
<1> DEFINE h == NextBits(bits, pos, n)
           Unfolds(f) ==
             f = [k \in 0 .. n |->
                    IF k = 0 THEN 0
                    ELSE 2 * f[k - 1] + Reader!bit_at(bits, pos + k - 1)]
<1>1. \E f : IsDoubling(f, h, n)
  BY DoublingExists
<1>2. \A f : IsDoubling(f, h, n) <=> Unfolds(f)
  <2>1. \A k \in 0 .. n : k # 0 => h[k] = Reader!bit_at(bits, pos + k - 1)
    <3>1. \A k \in 0 .. n : k # 0 => k \in 1 .. n
      OBVIOUS
    <3>2. QED
      BY <3>1 DEF NextBits
  <2> HIDE DEF h
  <2>2. QED
    BY <2>1 DEF IsDoubling
<1>3. Reader!string(bits, pos, n) = (CHOOSE f : Unfolds(f))[n]
  BY Zenon DEF Reader!string
<1> HIDE DEF Unfolds
<1>4. Unfolds(CHOOSE f : Unfolds(f))
  BY <1>1, <1>2
<1>5. QED
  BY <1>2, <1>3, <1>4

LEMMA StringGrows ==
  ASSUME NEW n \in Nat, NEW bits, NEW pos \in Nat
  PROVE  /\ Reader!string(bits, pos, 0) = 0
         /\ Reader!string(bits, pos, n + 1)
              = 2 * Reader!string(bits, pos, n) + Reader!bit_at(bits, pos + n)
<1> DEFINE h == NextBits(bits, pos, n)
           e == NextBits(bits, pos, n + 1)
<1>1. PICK f : IsDoubling(f, h, n) /\ Reader!string(bits, pos, n) = f[n]
  BY StringUnfolds
<1>2. PICK g : IsDoubling(g, e, n + 1) /\ Reader!string(bits, pos, n + 1) = g[n + 1]
  <2>1. n + 1 \in Nat
    OBVIOUS
  <2>2. QED
    BY <2>1, StringUnfolds
<1>3. \A k \in 1 .. n : h[k] = e[k]
  BY DEF NextBits
<1>4. e[n + 1] = Reader!bit_at(bits, pos + n)
  <2>1. n + 1 \in 1 .. n + 1 /\ pos + (n + 1) - 1 = pos + n
    OBVIOUS
  <2>2. e[n + 1] = Reader!bit_at(bits, pos + (n + 1) - 1)
    BY <2>1 DEF NextBits
  <2>3. QED
    BY <2>1, <2>2, Zenon
<1> HIDE DEF h, e
<1>5. g[n + 1] = 2 * f[n] + e[n + 1]
  BY <1>1, <1>2, <1>3, DoublingExtends
<1>6. Reader!string(bits, pos, 0) = 0
  <2>1. PICK z : /\ IsDoubling(z, NextBits(bits, pos, 0), 0)
                 /\ Reader!string(bits, pos, 0) = z[0]
    BY StringUnfolds
  <2>2. QED
    BY <2>1 DEF IsDoubling
<1>7. QED
  BY <1>1, <1>2, <1>4, <1>5, <1>6

LEMMA DivDiv ==
  ASSUME NEW x \in Nat, NEW w \in Nat \ {0}
  PROVE  (x \div 2) \div w = x \div (2 * w)
<1>1. PICK q \in Nat, b \in 0 .. 1 : q = x \div 2 /\ x = 2 * q + b
  BY DivIs
<1>2. PICK p \in Nat, r \in 0 .. w - 1 : p = q \div w /\ q = w * p + r
  BY DivIs
<1>3. PICK d \in Nat \ {0} : d = 2 * w
  OBVIOUS
<1>4. PICK s \in 0 .. d - 1 : s = 2 * r + b
  BY <1>3
<1>5. x = d * p + s
  <2>1. 2 * (w * p + r) + b = (2 * w) * p + (2 * r + b)
    OBVIOUS
  <2>2. QED
    BY <1>1, <1>2, <1>3, <1>4, <2>1
<1>6. x \div d = p
  BY <1>5, DivUnique
<1>7. QED
  BY <1>1, <1>2, <1>3, <1>6

LEMMA DivOfSum ==
  ASSUME NEW a \in Nat, NEW c \in Nat, NEW w \in Nat \ {0}
  PROVE  (a + c * w) \div w = (a \div w) + c
<1>1. PICK q \in Nat, r \in 0 .. w - 1 : q = a \div w /\ a = w * q + r
  BY DivIs
<1>2. a + c * w = w * (q + c) + r
  <2>1. w * q + r + c * w = w * (q + c) + r
    OBVIOUS
  <2>2. QED
    BY <1>1, <2>1
<1>3. (w * (q + c) + r) \div w = q + c
  BY DivUnique
<1>4. QED
  BY <1>1, <1>2, <1>3

LEMMA EvenSum ==
  ASSUME NEW a \in Nat, NEW c \in Nat
  PROVE  (a + 2 * c) % 2 = a % 2
  OBVIOUS

\* The table of reversed numbers up to m.
IsReversing(f, n, m) ==
  f = [i \in 0 .. m |->
         IF i = 0 THEN 0 ELSE f[i \div 2] \div 2 + (i % 2) * 2 ^ (n - 1)]

LEMMA ReversingExists ==
  ASSUME NEW n, NEW t \in Nat
  PROVE  \E f : IsReversing(f, n, t)
<1> DEFINE S == {m \in 0 .. t : \E f : IsReversing(f, n, m)}
           E(f, i) == IF i = 0 THEN 0 ELSE f[i \div 2] \div 2 + (i % 2) * 2 ^ (n - 1)
<1>1. 0 \in S
  <2>1. IsReversing([k \in 0 .. 0 |-> 0], n, 0)
    BY DEF IsReversing
  <2>2. QED
    BY <2>1
<1>2. ASSUME NEW m \in 0 .. t - 1, m \in S
      PROVE  m + 1 \in S
  <2>1. PICK f : IsReversing(f, n, m)
    BY <1>2
  <2> DEFINE g == [k \in 0 .. m + 1 |-> IF k = m + 1 THEN E(f, k) ELSE f[k]]
  <2>2. ASSUME NEW k \in 0 .. m + 1
        PROVE  g[k] = E(g, k)
    <3>1. E(g, k) = E(f, k)
      <4>1. CASE k = 0
        BY <4>1
      <4>2. CASE k # 0
        <5>1. k \div 2 \in 0 .. m
          OBVIOUS
        <5>2. g[k \div 2] = f[k \div 2]
          BY <5>1
        <5> HIDE DEF g
        <5>3. QED
          BY <5>2
      <4>3. QED
        BY <4>1, <4>2
    <3>2. CASE k \in 0 .. m
      <4>1. g[k] = f[k]
        BY <3>2
      <4>2. f[k] = E(f, k)
        BY <2>1, <3>2 DEF IsReversing
      <4>3. QED
        BY <3>1, <4>1, <4>2
    <3>3. CASE k = m + 1
      <4>1. g[k] = E(f, k)
        BY <3>3
      <4>2. QED
        BY <3>1, <4>1
    <3>4. QED
      BY <3>2, <3>3
  <2>3. IsReversing(g, n, m + 1)
    <3>1. g = [k \in 0 .. m + 1 |-> g[k]]
      OBVIOUS
    <3> HIDE DEF g
    <3>2. QED
      BY <2>2, <3>1 DEF IsReversing
  <2>4. m + 1 \in 0 .. t
    OBVIOUS
  <2>5. QED
    BY <2>3, <2>4
<1>3. t \in S
  <2> HIDE DEF S
  <2>1. t \in 0 .. t
    OBVIOUS
  <2>2. QED
    BY <1>1, <1>2, <2>1, IntervalInduction
<1>4. QED
  BY <1>3

\* r has the n bits of v in the opposite order.
IsMirror(r, v, n) ==
  /\ r \in 0 .. 2 ^ n - 1
  /\ \A i \in 0 .. n - 1 : (r \div 2 ^ i) % 2 = (v \div 2 ^ (n - 1 - i)) % 2

LEMMA MirrorOfHalf ==
  ASSUME NEW n \in Nat \ {0}, NEW v \in 1 .. 2 ^ n - 1,
         NEW r, IsMirror(r, v \div 2, n)
  PROVE  IsMirror(r \div 2 + (v % 2) * 2 ^ (n - 1), v, n)
<1>1. PICK h \in Nat \ {0} : h = 2 ^ (n - 1) /\ 2 ^ n = 2 * h
  <2>1. n - 1 \in Nat /\ (n - 1) + 1 = n
    OBVIOUS
  <2>2. 2 ^ (n - 1) \in Nat \ {0} /\ 2 ^ ((n - 1) + 1) = 2 * 2 ^ (n - 1)
    BY <2>1, PowerOfTwo
  <2>3. QED
    BY <2>1, <2>2
<1>2. r \in 0 .. 2 * h - 1 /\ r \in Nat /\ v \in Nat
  BY <1>1 DEF IsMirror
<1>3. PICK u \in Nat, b \in 0 .. 1 : u = v \div 2 /\ b = v % 2 /\ v = 2 * u + b
  BY <1>2, DivIs
<1>4. PICK a \in Nat : a = r \div 2 /\ a \in 0 .. h - 1
  <2>1. PICK x \in Nat : x = r
    BY <1>2
  <2>2. x \div 2 \in Nat /\ x = 2 * (x \div 2) + (x % 2) /\ x % 2 \in 0 .. 1
    OBVIOUS
  <2>3. x \div 2 \in 0 .. h - 1
    BY <1>2, <2>1, <2>2
  <2>4. QED
    BY <2>1, <2>2, <2>3
<1>5. PICK s \in Nat : s = a + b * h
  BY <1>1
<1>6. s \in 0 .. 2 ^ n - 1
  <2>1. b = 0 \/ b = 1
    OBVIOUS
  <2>2. s < 2 * h
    BY <1>4, <1>5, <2>1
  <2>3. QED
    BY <1>1, <2>2
<1>7. ASSUME NEW i \in 0 .. n - 1
      PROVE  (s \div 2 ^ i) % 2 = (v \div 2 ^ (n - 1 - i)) % 2
  <2>1. CASE i = n - 1
    <3>1. s \div h = b
      <4>1. s = h * b + a
        BY <1>5
      <4>2. PICK q \in Nat, c \in 0 .. h - 1 : q = b /\ c = a
        BY <1>4
      <4>3. (h * q + c) \div h = q
        BY DivUnique
      <4>4. QED
        BY <4>1, <4>2, <4>3
    <3>2. n - 1 - i = 0 /\ v \div 1 = v
      BY <1>2, <2>1
    <3>3. v \div 2 ^ (n - 1 - i) = v
      BY <3>2, PowerOfZero
    <3>4. (s \div 2 ^ i) % 2 = b % 2
      BY <1>1, <2>1, <3>1
    <3>5. b % 2 = b
      BY DEF Bit
    <3>6. QED
      BY <1>3, <3>3, <3>4, <3>5
  <2>2. CASE i \in 0 .. n - 2
    <3>1. PICK w \in Nat \ {0} : w = 2 ^ i /\ 2 ^ (i + 1) = 2 * w
      BY PowerOfTwo
    <3>2. PICK e \in Nat : e = n - 2 - i /\ n - 1 - i = e + 1 /\ n - 1 = (e + 1) + i
                           /\ n - 1 - (i + 1) = e
      BY <2>2
    <3>3. PICK x \in Nat \ {0} : x = 2 ^ e /\ 2 ^ (e + 1) = 2 * x
      BY PowerOfTwo
    <3>4. h = (2 * x) * w
      <4>1. 2 ^ ((e + 1) + i) = 2 ^ (e + 1) * 2 ^ i
        BY PowerSum
      <4>2. QED
        BY <1>1, <3>1, <3>2, <3>3, <4>1
    <3>5. s = a + (2 * (b * x)) * w
      <4>1. b * ((2 * x) * w) = (2 * (b * x)) * w
        OBVIOUS
      <4>2. QED
        BY <1>5, <3>4, <4>1
    <3>6. s \div w = (a \div w) + 2 * (b * x)
      <4>1. PICK c \in Nat : c = 2 * (b * x)
        OBVIOUS
      <4>2. (a + c * w) \div w = (a \div w) + c
        BY DivOfSum
      <4>3. QED
        BY <3>5, <4>1, <4>2
    <3>7. (s \div w) % 2 = (a \div w) % 2
      <4>1. a \div w \in Nat
        BY DivIs
      <4>2. PICK c \in Nat, y \in Nat : c = b * x /\ y = a \div w
        <5>1. b * x \in Nat
          OBVIOUS
        <5>2. QED
          BY <4>1, <5>1
      <4>3. QED
        BY <3>6, <4>2, EvenSum
    <3>8. a \div w = r \div (2 * w)
      BY <1>2, <1>4, DivDiv
    <3>9. (r \div 2 ^ (i + 1)) % 2 = (u \div 2 ^ e) % 2
      <4>1. i + 1 \in 0 .. n - 1
        BY <2>2
      <4>2. (r \div 2 ^ (i + 1)) % 2 = ((v \div 2) \div 2 ^ (n - 1 - (i + 1))) % 2
        BY <4>1 DEF IsMirror
      <4>3. QED
        BY <1>3, <3>2, <4>2
    <3>10. u \div x = v \div (2 * x)
      BY <1>2, <1>3, DivDiv
    <3>11. (s \div 2 ^ i) % 2 = (u \div x) % 2
      BY <3>1, <3>3, <3>7, <3>8, <3>9
    <3>12. v \div 2 ^ (n - 1 - i) = v \div (2 * x)
      BY <3>2, <3>3
    <3>13. QED
      BY <3>10, <3>11, <3>12
  <2>3. QED
    BY <2>1, <2>2
<1>8. s = r \div 2 + (v % 2) * 2 ^ (n - 1)
  BY <1>1, <1>3, <1>4, <1>5
<1>9. QED
  BY <1>6, <1>7, <1>8 DEF IsMirror

LEMMA ReverseIs ==
  ASSUME NEW n \in Nat \ {0}, NEW x \in Nat, x < 2 ^ n
  PROVE  IsMirror(reverse_bits(x, n), x, n)
<1>1. PICK t \in Nat : t = 2 ^ n - 1
  <2>1. 2 ^ n \in Nat \ {0}
    BY PowerOfTwo
  <2>2. QED
    BY <2>1
<1>2. PICK f : IsReversing(f, n, t) /\ reverse_bits(x, n) = f[x % 2 ^ n]
  <2> DEFINE Unfolds(f) ==
               f = [i \in 0 .. 2 ^ n - 1 |->
                      IF i = 0 THEN 0 ELSE f[i \div 2] \div 2 + (i % 2) * 2 ^ (n - 1)]
  <2>1. \A f : IsReversing(f, n, t) <=> Unfolds(f)
    BY <1>1, Zenon DEF IsReversing
  <2>2. \E f : IsReversing(f, n, t)
    BY ReversingExists
  <2>3. reverse_bits(x, n) = (CHOOSE f : Unfolds(f))[x % 2 ^ n]
    BY Zenon DEF reverse_bits
  <2> HIDE DEF Unfolds
  <2>4. Unfolds(CHOOSE f : Unfolds(f))
    BY <2>1, <2>2
  <2>5. QED
    BY <2>1, <2>3, <2>4
<1>3. x % 2 ^ n = x
  <2>1. PICK w \in Nat \ {0} : w = 2 ^ n
    BY PowerOfTwo
  <2>2. x \in 0 .. w - 1 /\ w * 0 + x = x
    BY <2>1
  <2>3. (w * 0 + x) % w = x
    BY <2>2, DivUnique
  <2>4. QED
    BY <2>1, <2>2, <2>3
<1> DEFINE S == {m \in 0 .. t : \A v \in 0 .. m : IsMirror(f[v], v, n)}
<1>4. 0 \in S
  <2>1. f[0] = 0
    BY <1>2 DEF IsReversing
  <2>2. ASSUME NEW i \in Nat
        PROVE  0 \div 2 ^ i = 0
    <3>1. PICK w \in Nat \ {0} : w = 2 ^ i
      BY PowerOfTwo
    <3>2. 0 \in 0 .. w - 1 /\ w * 0 + 0 = 0
      BY <3>1
    <3>3. (w * 0 + 0) \div w = 0
      BY <3>2, DivUnique
    <3>4. QED
      BY <3>1, <3>2, <3>3
  <2>3. IsMirror(0, 0, n)
    <3>1. 0 \in 0 .. 2 ^ n - 1
      BY <1>1
    <3>2. ASSUME NEW i \in 0 .. n - 1
          PROVE  (0 \div 2 ^ i) % 2 = (0 \div 2 ^ (n - 1 - i)) % 2
      <4>1. i \in Nat /\ n - 1 - i \in Nat
        OBVIOUS
      <4>2. QED
        BY <2>2, <4>1
    <3>3. QED
      BY <3>1, <3>2 DEF IsMirror
  <2>4. \A v \in 0 .. 0 : v = 0
    OBVIOUS
  <2>5. QED
    BY <2>1, <2>3, <2>4
<1>5. ASSUME NEW m \in 0 .. t - 1, m \in S
      PROVE  m + 1 \in S
  <2>1. \A v \in 0 .. m : IsMirror(f[v], v, n)
    BY <1>5
  <2>2. PICK v \in 1 .. 2 ^ n - 1 : v = m + 1
    BY <1>1
  <2>3. v \div 2 \in 0 .. m
    BY <2>2
  <2>4. IsMirror(f[v \div 2], v \div 2, n)
    BY <2>1, <2>3
  <2>5. f[v] = f[v \div 2] \div 2 + (v % 2) * 2 ^ (n - 1)
    <3>1. v \in 0 .. t /\ v # 0
      BY <1>1
    <3>2. QED
      BY <1>2, <3>1 DEF IsReversing
  <2>6. IsMirror(f[v \div 2] \div 2 + (v % 2) * 2 ^ (n - 1), v, n)
    BY <2>4, MirrorOfHalf
  <2>7. IsMirror(f[m + 1], m + 1, n)
    BY <2>2, <2>5, <2>6
  <2>8. \A k \in 0 .. m + 1 : k \in 0 .. m \/ k = m + 1
    OBVIOUS
  <2>9. m + 1 \in 0 .. t
    OBVIOUS
  <2>10. QED
    BY <2>1, <2>7, <2>8, <2>9
<1>6. t \in S
  <2> HIDE DEF S
  <2>1. t \in 0 .. t
    OBVIOUS
  <2>2. QED
    BY <1>4, <1>5, <2>1, IntervalInduction
<1>7. IsMirror(f[x], x, n)
  <2>1. x \in 0 .. t
    BY <1>1
  <2>2. QED
    BY <1>6, <2>1
<1>8. QED
  BY <1>2, <1>3, <1>7

LEMMA BigIs ==
  ASSUME NEW n \in Nat \ {0}, NEW x \in Nat, x < 2 ^ n
  PROVE  /\ big(x, n) \in Seq(Bit) /\ Len(big(x, n)) = n
         /\ \A i \in 0 .. n - 1 : big(x, n)[i + 1] = (x \div 2 ^ (n - 1 - i)) % 2
<1>1. PICK r \in Nat : r = reverse_bits(x, n) /\ IsMirror(r, x, n)
  <2>1. IsMirror(reverse_bits(x, n), x, n)
    BY ReverseIs
  <2>2. reverse_bits(x, n) \in Nat
    <3>1. 2 ^ n \in Nat
      BY PowerOfTwo
    <3>2. QED
      BY <2>1, <3>1 DEF IsMirror
  <2>3. QED
    BY <2>1, <2>2
<1>2. big(x, n) = little(r, n)
  BY <1>1 DEF big
<1>3. /\ little(r, n) \in Seq(Bit) /\ Len(little(r, n)) = n
      /\ \A i \in 0 .. n - 1 : little(r, n)[i + 1] = (r \div 2 ^ i) % 2
  BY LittleIs
<1>4. \A i \in 0 .. n - 1 : (r \div 2 ^ i) % 2 = (x \div 2 ^ (n - 1 - i)) % 2
  BY <1>1 DEF IsMirror
<1>5. QED
  BY <1>2, <1>3, <1>4

\* A code is read highest bit first, and is written that way.
LEMMA StringRead ==
  ASSUME NEW n \in Nat \ {0}, NEW x \in Nat, x < 2 ^ n, NEW bits, NEW pos \in Nat,
         Holds(bits, pos, big(x, n))
  PROVE  Reader!string(bits, pos, n) = x
<1> DEFINE S == {k \in 0 .. n : Reader!string(bits, pos, k) = x \div 2 ^ (n - k)}
<1>1. 0 \in S
  <2>1. Reader!string(bits, pos, 0) = 0
    BY StringGrows
  <2>2. x \div 2 ^ (n - 0) = 0
    <3>1. PICK w \in Nat \ {0} : w = 2 ^ n
      BY PowerOfTwo
    <3>2. x \in 0 .. w - 1 /\ w * 0 + x = x /\ n - 0 = n
      BY <3>1
    <3>3. (w * 0 + x) \div w = 0
      BY <3>2, DivUnique
    <3>4. QED
      BY <3>1, <3>2, <3>3
  <2>3. QED
    BY <2>1, <2>2
<1>2. ASSUME NEW k \in 0 .. n - 1, k \in S
      PROVE  k + 1 \in S
  <2>1. k \in Nat /\ k + 1 \in 0 .. n /\ Reader!string(bits, pos, k) = x \div 2 ^ (n - k)
    BY <1>2
  <2>2. PICK e \in Nat : e = n - 1 - k /\ n - k = e + 1 /\ n - (k + 1) = e
    BY <2>1
  <2>3. PICK w \in Nat \ {0} : w = 2 ^ e /\ 2 ^ (e + 1) = 2 * w
    BY PowerOfTwo
  <2>4. Reader!bit_at(bits, pos + k) = (x \div w) % 2
    <3>1. k + 1 \in 1 .. n /\ pos + (k + 1) - 1 = pos + k
      BY <2>1
    <3>2. k + 1 \in 1 .. Len(big(x, n)) /\ big(x, n)[k + 1] = (x \div 2 ^ (n - 1 - k)) % 2
      BY <3>1, BigIs
    <3>3. Reader!bit_at(bits, pos + (k + 1) - 1) = big(x, n)[k + 1]
      BY <3>2, Zenon DEF Holds
    <3>4. QED
      BY <2>2, <2>3, <3>1, <3>2, <3>3
  <2>5. Reader!string(bits, pos, k + 1)
          = 2 * Reader!string(bits, pos, k) + Reader!bit_at(bits, pos + k)
    BY <2>1, StringGrows
  <2>6. x \div w = 2 * (x \div (2 * w)) + ((x \div w) % 2)
    BY DigitIs
  <2>7. Reader!string(bits, pos, k + 1) = x \div 2 ^ (n - (k + 1))
    BY <2>1, <2>2, <2>3, <2>4, <2>5, <2>6
  <2>8. QED
    BY <2>1, <2>7
<1>3. n \in S
  <2> HIDE DEF S
  <2>1. n \in 0 .. n
    OBVIOUS
  <2>2. QED
    BY <1>1, <1>2, <2>1, IntervalInduction
<1>4. Reader!string(bits, pos, n) = x \div 2 ^ 0
  BY <1>3
<1>5. QED
  BY <1>4, PowerOfZero

\* The bits that follow it make the string longer, not another one.
LEMMA StringWithin ==
  ASSUME NEW n \in Nat, NEW e \in Nat, NEW bits \in Seq(Bit), NEW pos \in Nat,
         NEW x \in Nat, Reader!string(bits, pos, n) = x
  PROVE  Reader!string(bits, pos, n + e) \in x * 2 ^ e .. x * 2 ^ e + 2 ^ e - 1
<1> DEFINE T(k) == Reader!string(bits, pos, n + k) \in x * 2 ^ k .. x * 2 ^ k + 2 ^ k - 1
           S == {k \in 0 .. e : T(k)}
<1>1. 0 \in S
  <2>1. n + 0 = n /\ x * 1 = x
    OBVIOUS
  <2>2. T(0)
    BY <2>1, PowerOfZero
  <2>3. QED
    BY <2>2
<1>2. ASSUME NEW k \in 0 .. e - 1, k \in S
      PROVE  k + 1 \in S
  <2>1. k \in Nat /\ k + 1 \in 0 .. e /\ n + k \in Nat /\ n + (k + 1) = (n + k) + 1
    OBVIOUS
  <2>2. PICK w \in Nat \ {0} : w = 2 ^ k /\ 2 ^ (k + 1) = 2 * w
    BY <2>1, PowerOfTwo
  <2>3. PICK s \in Nat : s = Reader!string(bits, pos, n + k) /\ s \in x * w .. x * w + w - 1
    <3>1. T(k)
      BY <1>2
    <3>2. x * w \in Nat
      OBVIOUS
    <3>3. QED
      BY <2>2, <3>1, <3>2
  <2>4. PICK b \in 0 .. 1 : b = Reader!bit_at(bits, pos + (n + k))
    <3>1. pos + (n + k) \in Nat
      BY <2>1
    <3>2. QED
      BY <3>1, BitAtIs DEF Bit
  <2>5. Reader!string(bits, pos, (n + k) + 1) = 2 * s + b
    BY <2>1, <2>3, <2>4, StringGrows
  <2>6. 2 * s + b \in 2 * (x * w) .. 2 * (x * w) + 2 * w - 1
    <3>1. PICK y \in Nat : y = x * w
      OBVIOUS
    <3>2. QED
      BY <2>3, <3>1
  <2>7. 2 * (x * w) = x * (2 * w)
    OBVIOUS
  <2>8. T(k + 1)
    BY <2>1, <2>2, <2>5, <2>6, <2>7
  <2>9. QED
    BY <2>1, <2>8
<1>3. e \in S
  <2> HIDE DEF S
  <2>1. e \in 0 .. e
    OBVIOUS
  <2>2. QED
    BY <1>1, <1>2, <2>1, IntervalInduction
<1>4. QED
  BY <1>3

-------------------------------------------------------------------------------
(* Codes that differ in nothing that matters.                              *)

LEMMA CompleteLonger ==
  ASSUME NEW M \in Nat, NEW n \in Nat \ {0}, NEW dep, IsComplete(dep, n, M)
  PROVE  IsComplete(dep, n + 1, M)
<1>1. dep \in [0 .. M - 1 -> 0 .. n + 1]
  <2>1. 0 .. n \subseteq 0 .. n + 1
    OBVIOUS
  <2>2. dep \in [0 .. M - 1 -> 0 .. n]
    BY DEF IsComplete
  <2>3. QED
    BY <2>1, <2>2
<1>2. bl_count(dep, n + 1) = 0
  <2>1. Level(dep, n + 1) = {}
    <3>1. \A c \in 0 .. M - 1 : dep[c] \in 0 .. n
      BY DEF IsComplete
    <3>2. \A c \in 0 .. M - 1 : dep[c] # n + 1
      BY <3>1
    <3>3. QED
      BY <1>1, <3>2 DEF Level
  <2>2. n + 1 \in 1 .. n + 1 /\ n + 1 \in Nat
    OBVIOUS
  <2>3. bl_count(dep, n + 1) = Cardinality(Level(dep, n + 1))
    BY <1>1, <2>2, CodeIs
  <2>4. QED
    BY <2>1, <2>3, FS_EmptySet
<1>3. start_code(dep, n + 1) = 2 * 2 ^ n
  <2>1. start_code(dep, n + 1) = 2 * (start_code(dep, n) + bl_count(dep, n))
    BY StartIs
  <2>2. QED
    BY <2>1 DEF IsComplete
<1>4. 2 ^ (n + 1) = 2 * 2 ^ n /\ 2 ^ n \in Nat
  BY PowerOfTwo
<1>5. QED
  BY <1>1, <1>2, <1>3, <1>4 DEF IsComplete

LEMMA CompleteWithin ==
  ASSUME NEW M \in Nat, NEW n \in Nat \ {0}, NEW dep, IsComplete(dep, n, M),
         NEW k \in Nat, n <= k
  PROVE  IsComplete(dep, k, M)
<1> DEFINE S == {e \in 0 .. k - n : IsComplete(dep, n + e, M)}
<1>1. 0 \in S
  <2>1. n + 0 = n /\ 0 \in 0 .. k - n
    OBVIOUS
  <2>2. QED
    BY <2>1
<1>2. ASSUME NEW e \in 0 .. k - n - 1, e \in S
      PROVE  e + 1 \in S
  <2>1. n + e \in Nat \ {0} /\ (n + e) + 1 = n + (e + 1) /\ e + 1 \in 0 .. k - n
    OBVIOUS
  <2>2. IsComplete(dep, n + e, M)
    BY <1>2
  <2>3. IsComplete(dep, (n + e) + 1, M)
    BY <2>1, <2>2, CompleteLonger
  <2>4. QED
    BY <2>1, <2>3
<1>3. k - n \in S
  <2>1. PICK t \in Nat : t = k - n
    OBVIOUS
  <2>2. 0 .. t \subseteq S
    <3> HIDE DEF S
    <3>1. \A e \in 0 .. t - 1 : e \in S => e + 1 \in S
      BY <1>2, <2>1
    <3>2. QED
      BY <1>1, <3>1, IntervalInduction
  <2>3. QED
    BY <2>1, <2>2
<1>4. n + (k - n) = k
  OBVIOUS
<1>5. QED
  BY <1>3, <1>4

\* t gives the same codes the same lengths.
Agree(dep, t, n) == \A m \in 1 .. n : Level(t, m) = Level(dep, m)

LEMMA SameCodes ==
  ASSUME NEW n \in Nat, NEW dep, NEW t, Agree(dep, t, n)
  PROVE  /\ \A m \in 1 .. n : bl_count(t, m) = bl_count(dep, m)
         /\ \A m \in 0 .. n : start_code(t, m) = start_code(dep, m)
         /\ \A c \in DOMAIN t :
              dep[c] = t[c] /\ t[c] \in 1 .. n => code(t, c) = code(dep, c)
<1>1. \A m \in 0 .. n : bl_count(t, m) = bl_count(dep, m)
  <2>1. SUFFICES ASSUME NEW m \in 0 .. n PROVE bl_count(t, m) = bl_count(dep, m)
    OBVIOUS
  <2>2. CASE m = 0
    BY <2>2 DEF bl_count
  <2>3. CASE m # 0
    <3>1. Level(t, m) = Level(dep, m)
      BY <2>3 DEF Agree
    <3>2. bl_count(t, m) = Cardinality(Level(t, m))
          /\ bl_count(dep, m) = Cardinality(Level(dep, m))
      BY <2>3, Zenon DEF bl_count, Level
    <3>3. QED
      BY <3>1, <3>2
  <2>4. QED
    BY <2>2, <2>3
<1> DEFINE S == {m \in 0 .. n : start_code(t, m) = start_code(dep, m)}
<1>2. 0 \in S
  BY StartIs
<1>3. ASSUME NEW m \in 0 .. n - 1, m \in S
      PROVE  m + 1 \in S
  <2>1. m \in Nat /\ m \in 0 .. n /\ m + 1 \in 0 .. n
    OBVIOUS
  <2>2. /\ start_code(t, m + 1) = 2 * (start_code(t, m) + bl_count(t, m))
        /\ start_code(dep, m + 1) = 2 * (start_code(dep, m) + bl_count(dep, m))
    BY <2>1, StartIs
  <2>3. start_code(t, m) = start_code(dep, m) /\ bl_count(t, m) = bl_count(dep, m)
    BY <1>1, <1>3, <2>1
  <2>4. QED
    BY <2>1, <2>2, <2>3
<1>4. 0 .. n \subseteq S
  <2> HIDE DEF S
  <2>1. QED
    BY <1>2, <1>3, IntervalInduction
<1>5. ASSUME NEW c \in DOMAIN t, dep[c] = t[c], t[c] \in 1 .. n
      PROVE  code(t, c) = code(dep, c)
  <2>1. {d \in DOMAIN t : d < c /\ t[d] = t[c]}
          = {d \in DOMAIN dep : d < c /\ dep[d] = dep[c]}
    <3>1. Level(t, t[c]) = Level(dep, dep[c])
      BY <1>5 DEF Agree
    <3>2. QED
      BY <3>1 DEF Level
  <2>2. start_code(t, t[c]) = start_code(dep, dep[c])
    <3>1. t[c] \in 0 .. n
      BY <1>5
    <3>2. QED
      BY <1>4, <1>5, <3>1
  <2>3. QED
    BY <2>1, <2>2, Zenon DEF code
<1>6. QED
  BY <1>1, <1>4, <1>5

\* The codes from K on are not sent when they have no length.
LEMMA Truncated ==
  ASSUME NEW M \in Nat, NEW n \in Nat \ {0}, NEW dep, IsComplete(dep, n, M),
         NEW K \in Nat, K <= M, \A c \in K .. M - 1 : dep[c] = 0,
         NEW t, t = [c \in 0 .. K - 1 |-> dep[c]]
  PROVE  /\ IsComplete(t, n, K)
         /\ \A c \in 0 .. M - 1 :
              dep[c] > 0 => c \in 0 .. K - 1 /\ t[c] = dep[c] /\ code(t, c) = code(dep, c)
<1>1. dep \in [0 .. M - 1 -> 0 .. n]
  BY DEF IsComplete
<1>2. t \in [0 .. K - 1 -> 0 .. n]
  BY <1>1
<1>3. Agree(dep, t, n)
  <2>1. SUFFICES ASSUME NEW m \in 1 .. n PROVE Level(t, m) = Level(dep, m)
    BY DEF Agree
  <2>2. ASSUME NEW c \in Level(t, m) PROVE c \in Level(dep, m)
    BY <1>1 DEF Level
  <2>3. ASSUME NEW c \in Level(dep, m) PROVE c \in Level(t, m)
    <3>1. c \in 0 .. M - 1 /\ dep[c] = m /\ m # 0
      BY <1>1 DEF Level
    <3>2. c \in 0 .. K - 1
      BY <3>1
    <3>3. QED
      BY <3>1, <3>2 DEF Level
  <2>4. QED
    BY <2>2, <2>3
<1>4. start_code(t, n) + bl_count(t, n) = 2 ^ n
  <2>1. n \in 1 .. n /\ n \in 0 .. n
    OBVIOUS
  <2>2. bl_count(t, n) = bl_count(dep, n) /\ start_code(t, n) = start_code(dep, n)
    BY <1>3, <2>1, SameCodes
  <2>3. QED
    BY <2>2 DEF IsComplete
<1>5. ASSUME NEW c \in 0 .. M - 1, dep[c] > 0
      PROVE  c \in 0 .. K - 1 /\ t[c] = dep[c] /\ code(t, c) = code(dep, c)
  <2>1. c \in 0 .. K - 1
    BY <1>5
  <2>2. t[c] = dep[c] /\ c \in DOMAIN t /\ t[c] \in 1 .. n
    BY <1>1, <1>5, <2>1
  <2>3. QED
    BY <1>3, <2>1, <2>2, SameCodes
<1>6. QED
  BY <1>2, <1>4, <1>5 DEF IsComplete

-------------------------------------------------------------------------------
(* Reading codes.                                                          *)

Share(lens) ==
  [k \in 1 .. 15 |-> Cardinality({c \in DOMAIN lens : lens[c] = k}) * 2 ^ (15 - k)]

LEMMA CoveredUnfolds ==
  ASSUME NEW lens, NEW l \in 0 .. 15
  PROVE  Reader!covered(lens, l) = Total(Share(lens), l)
<1>0. \A S : Reader!Cardinality(S) = Cardinality(S)
  BY Zenon DEF Reader!Cardinality, Cardinality
<1> DEFINE h == Share(lens)
           Unfolds(f) ==
             f = [k \in 0 .. l |->
                    IF k = 0 THEN 0
                    ELSE f[k - 1] + Reader!Cardinality({c \in DOMAIN lens : lens[c] = k})
                                      * 2 ^ (15 - k)]
<1>1. \A f : IsSum(f, h, l) <=> Unfolds(f)
  <2>1. \A k \in 0 .. l :
          k # 0 => h[k] = Reader!Cardinality({c \in DOMAIN lens : lens[c] = k})
                            * 2 ^ (15 - k)
    <3>1. \A k \in 0 .. l : k # 0 => k \in 1 .. 15
      OBVIOUS
    <3>2. QED
      BY <1>0, <3>1 DEF Share
  <2> HIDE DEF h
  <2>2. QED
    BY <2>1 DEF IsSum
<1>2. Reader!covered(lens, l) = (CHOOSE f : Unfolds(f))[l]
  BY Zenon DEF Reader!covered, Reader!MaxLen
<1> HIDE DEF Unfolds
<1>3. (CHOOSE f : Unfolds(f)) = CHOOSE f : IsSum(f, h, l)
  BY <1>1
<1>4. QED
  BY <1>2, <1>3 DEF Total

\* The strings that begin with a code of at most l bits end where the codes
\* of l bits do.
LEMMA CoveredIs ==
  ASSUME NEW M \in Nat, NEW lens, IsComplete(lens, 15, M)
  PROVE  /\ \A l \in 1 .. 15 : Reader!covered(lens, l - 1) = EdgeOf(lens, 15, l)
         /\ Reader!complete(lens)
<1> DEFINE h == Share(lens)
           S == {l \in 0 .. 14 : Total(h, l) = EdgeOf(lens, 15, l + 1)}
<1>1. \A l \in 1 .. 15 : /\ EdgeOf(lens, 15, l) + h[l] = EndOf(lens, 15, l)
                         /\ EdgeOf(lens, 15, l) \in Nat
  <2>1. SUFFICES ASSUME NEW l \in 1 .. 15
                 PROVE  /\ EdgeOf(lens, 15, l) + h[l] = EndOf(lens, 15, l)
                        /\ EdgeOf(lens, 15, l) \in Nat
    OBVIOUS
  <2>2. h[l] = bl_count(lens, l) * 2 ^ (15 - l)
    <3>1. l # 0
      OBVIOUS
    <3>2. bl_count(lens, l) = Cardinality({c \in DOMAIN lens : lens[c] = l})
      BY <3>1, Zenon DEF bl_count
    <3>3. QED
      BY <3>2 DEF Share
  <2>3. PICK s \in Nat, b \in Nat, w \in Nat :
          s = start_code(lens, l) /\ b = bl_count(lens, l) /\ w = 2 ^ (15 - l)
    BY CountsAreNat
  <2>4. EdgeOf(lens, 15, l) = s * w /\ EndOf(lens, 15, l) = (s + b) * w /\ h[l] = b * w
    BY <2>2, <2>3 DEF EdgeOf, EndOf
  <2>5. s * w + b * w = (s + b) * w /\ s * w \in Nat
    OBVIOUS
  <2>6. QED
    BY <2>4, <2>5
<1>2. /\ EdgeOf(lens, 15, 1) = 0 /\ EndOf(lens, 15, 15) = 2 ^ 15
      /\ \A m \in 1 .. 14 : EndOf(lens, 15, m) = EdgeOf(lens, 15, m + 1)
  <2>1. PICK n \in Nat \ {0} : n = 15
    OBVIOUS
  <2>2. IsComplete(lens, n, M)
    BY <2>1
  <2>3. /\ EdgeOf(lens, n, 1) = 0 /\ EndOf(lens, n, n) = 2 ^ n
        /\ \A m \in 1 .. n - 1 : EndOf(lens, n, m) = EdgeOf(lens, n, m + 1)
    BY <2>2, EdgesAre
  <2>4. QED
    BY <2>1, <2>3
<1> HIDE DEF h
<1>3. 0 \in S
  BY <1>2, TotalIs
<1>4. ASSUME NEW l \in 0 .. 14 - 1, l \in S
      PROVE  l + 1 \in S
  <2>1. l \in Nat /\ l + 1 \in 1 .. 14 /\ l + 1 \in 1 .. 15 /\ l + 1 \in 0 .. 14
    OBVIOUS
  <2>2. Total(h, l + 1) = Total(h, l) + h[l + 1]
    BY <2>1, TotalIs
  <2>3. Total(h, l) = EdgeOf(lens, 15, l + 1)
    BY <1>4
  <2>4. EdgeOf(lens, 15, l + 1) + h[l + 1] = EndOf(lens, 15, l + 1)
    BY <1>1, <2>1
  <2>5. EndOf(lens, 15, l + 1) = EdgeOf(lens, 15, (l + 1) + 1)
    BY <1>2, <2>1
  <2>6. Total(h, l + 1) = EdgeOf(lens, 15, (l + 1) + 1)
    BY <2>2, <2>3, <2>4, <2>5, Zenon
  <2>7. QED
    BY <2>1, <2>6
<1>5. 0 .. 14 \subseteq S
  <2> HIDE DEF S
  <2>1. QED
    BY <1>3, <1>4, IntervalInduction
<1>6. ASSUME NEW l \in 1 .. 15
      PROVE  Reader!covered(lens, l - 1) = EdgeOf(lens, 15, l)
  <2>1. l - 1 \in 0 .. 14 /\ l - 1 \in 0 .. 15 /\ (l - 1) + 1 = l
    OBVIOUS
  <2>2. Total(h, l - 1) = EdgeOf(lens, 15, (l - 1) + 1)
    BY <1>5, <2>1
  <2>3. Reader!covered(lens, l - 1) = Total(h, l - 1)
    BY <2>1, CoveredUnfolds DEF h
  <2>4. QED
    BY <2>1, <2>2, <2>3
<1>7. Reader!complete(lens)
  <2>1. 15 \in 0 .. 15 /\ 15 \in 1 .. 15 /\ 14 \in 0 .. 14 /\ 14 \in Nat /\ 14 + 1 = 15
    OBVIOUS
  <2>2. Total(h, 14 + 1) = Total(h, 14) + h[14 + 1]
    BY <2>1, TotalIs
  <2>3. Total(h, 14) = EdgeOf(lens, 15, 14 + 1)
    BY <1>5, <2>1
  <2>4. EdgeOf(lens, 15, 15) + h[15] = EndOf(lens, 15, 15)
    BY <1>1, <2>1
  <2>5. Total(h, 15) = 2 ^ 15
    BY <1>2, <2>1, <2>2, <2>3, <2>4
  <2>6. Reader!covered(lens, 15) = Total(h, 15)
    BY <2>1, CoveredUnfolds DEF h
  <2>7. QED
    BY <2>5, <2>6 DEF Reader!complete, Reader!MaxLen
<1>8. QED
  BY <1>6, <1>7

\* dec decodes the code with lengths lens.
IsDecoder(dec, lens, M) ==
  /\ DOMAIN dec = {c \in 0 .. M - 1 : lens[c] > 0}
  /\ \A c \in 0 .. M - 1 :
       lens[c] > 0 => /\ dec[c].len = lens[c]
                      /\ dec[c].from = code(lens, c) * 2 ^ (15 - lens[c])

LEMMA DecoderIs ==
  ASSUME NEW M \in Nat, NEW lens, IsComplete(lens, 15, M)
  PROVE  IsDecoder(Reader!decoder(lens), lens, M)
<1> DEFINE dec == Reader!decoder(lens)
<1>1. lens \in [0 .. M - 1 -> 0 .. 15]
  BY DEF IsComplete
<1>2. dec = [c \in {d \in DOMAIN lens : lens[d] > 0} |->
               [len |-> lens[c],
                from |-> Reader!covered(lens, lens[c] - 1)
                         + Reader!Cardinality({d \in DOMAIN lens : d < c /\ lens[d] = lens[c]})
                           * 2 ^ (15 - lens[c])]]
  BY Zenon DEF Reader!decoder, Reader!MaxLen
<1>3. DOMAIN dec = {c \in 0 .. M - 1 : lens[c] > 0}
  BY <1>1, <1>2
<1>4. ASSUME NEW c \in 0 .. M - 1, lens[c] > 0
      PROVE  /\ dec[c].len = lens[c]
             /\ dec[c].from = code(lens, c) * 2 ^ (15 - lens[c])
  <2>1. PICK m \in 1 .. 15 : m = lens[c]
    BY <1>1, <1>4
  <2>2. c \in {d \in DOMAIN lens : lens[d] > 0}
    BY <1>1, <1>4
  <2>3. /\ dec[c].len = lens[c]
        /\ dec[c].from = Reader!covered(lens, lens[c] - 1)
             + Reader!Cardinality({d \in DOMAIN lens : d < c /\ lens[d] = lens[c]})
               * 2 ^ (15 - lens[c])
    BY <1>2, <2>2
  <2>4. \A S : Reader!Cardinality(S) = Cardinality(S)
    BY Zenon DEF Reader!Cardinality, Cardinality
  <2> DEFINE r == Cardinality({d \in DOMAIN lens : d < c /\ lens[d] = lens[c]})
  <2>5. code(lens, c) = start_code(lens, m) + r
    BY <2>1, Zenon DEF code
  <2>6. Reader!covered(lens, m - 1) = start_code(lens, m) * 2 ^ (15 - m)
    BY <2>1, CoveredIs DEF EdgeOf
  <2>7. PICK s \in Nat, w \in Nat : s = start_code(lens, m) /\ w = 2 ^ (15 - m)
    BY CountsAreNat
  <2>8. r \in Nat
    <3>1. {d \in DOMAIN lens : d < c /\ lens[d] = lens[c]} \subseteq 0 .. M - 1
      BY <1>1
    <3>2. QED
      BY <3>1, BelowMember
  <2>9. dec[c].from = s * w + r * w
    BY <2>1, <2>3, <2>4, <2>6, <2>7
  <2> HIDE DEF r
  <2>10. s * w + r * w = (s + r) * w
    BY <2>8
  <2>11. QED
    BY <2>1, <2>3, <2>5, <2>7, <2>9, <2>10
<1>5. QED
  BY <1>3, <1>4 DEF IsDecoder

\* A string that begins with the code of c is decoded as c.
LEMMA SymbolIs ==
  ASSUME NEW M \in Nat, NEW lens, IsComplete(lens, 15, M),
         NEW dec, IsDecoder(dec, lens, M),
         NEW bits, NEW pos, NEW c \in 0 .. M - 1, lens[c] > 0,
         Reader!string(bits, pos, 15)
           \in code(lens, c) * 2 ^ (15 - lens[c])
                 .. code(lens, c) * 2 ^ (15 - lens[c]) + 2 ^ (15 - lens[c]) - 1
  PROVE  Reader!symbol(dec, bits, pos) = c
<1> DEFINE s == Reader!string(bits, pos, 15)
           lo(d) == code(lens, d) * 2 ^ (15 - lens[d])
           hi(d) == (code(lens, d) + 1) * 2 ^ (15 - lens[d])
           In(d) == s \in dec[d].from .. dec[d].from + 2 ^ (15 - dec[d].len) - 1
<1>1. ASSUME NEW d \in 0 .. M - 1, lens[d] > 0
      PROVE  /\ lo(d) \in Nat /\ hi(d) \in Nat /\ 2 ^ (15 - lens[d]) \in Nat
             /\ hi(d) = lo(d) + 2 ^ (15 - lens[d])
             /\ In(d) <=> s \in lo(d) .. hi(d) - 1
  <2>1. PICK v \in Nat, w \in Nat : v = code(lens, d) /\ w = 2 ^ (15 - lens[d])
    BY <1>1, CodeWithin
  <2>2. v * w \in Nat /\ (v + 1) * w \in Nat /\ (v + 1) * w = v * w + w
    OBVIOUS
  <2>3. dec[d].len = lens[d] /\ dec[d].from = lo(d)
    BY <1>1 DEF IsDecoder
  <2>4. lo(d) \in Nat /\ hi(d) \in Nat /\ hi(d) = lo(d) + w
    BY <2>1, <2>2
  <2>5. In(d) <=> s \in lo(d) .. lo(d) + w - 1
    BY <2>1, <2>3
  <2> HIDE DEF In, lo, hi, s
  <2>6. QED
    BY <2>1, <2>4, <2>5
<1>2. DOMAIN dec = {d \in 0 .. M - 1 : lens[d] > 0}
  BY DEF IsDecoder
<1>3. c \in DOMAIN dec /\ s \in lo(c) .. hi(c) - 1
  <2>1. /\ lo(c) \in Nat /\ 2 ^ (15 - lens[c]) \in Nat
        /\ hi(c) = lo(c) + 2 ^ (15 - lens[c])
    BY <1>1
  <2>2. s \in lo(c) .. lo(c) + 2 ^ (15 - lens[c]) - 1
    OBVIOUS
  <2> HIDE DEF lo, hi, s
  <2>3. QED
    BY <1>2, <2>1, <2>2
<1>4. In(c)
  BY <1>1, <1>3
<1>5. ASSUME NEW d \in DOMAIN dec, In(d)
      PROVE  d = c
  <2>1. d \in 0 .. M - 1 /\ lens[d] > 0
    BY <1>2
  <2>2. /\ s \in lo(d) .. hi(d) - 1
        /\ lo(d) \in Nat /\ hi(d) \in Nat /\ lo(c) \in Nat /\ hi(c) \in Nat
    BY <1>1, <1>5, <2>1
  <2>3. PICK m \in Nat, p \in Nat : m = lens[c] /\ p = lens[d]
    <3>1. lens \in [0 .. M - 1 -> 0 .. 15]
      BY DEF IsComplete
    <3>2. lens[c] \in 0 .. 15 /\ lens[d] \in 0 .. 15
      BY <2>1, <3>1, Zenon
    <3>3. QED
      BY <3>2
  <2>4. ~ (m < p \/ (m = p /\ c < d))
    <3>1. SUFFICES ASSUME m < p \/ (m = p /\ c < d) PROVE FALSE
      OBVIOUS
    <3>2. hi(c) <= lo(d)
      BY <2>1, <2>3, <3>1, CodesOrdered
    <3> HIDE DEF lo, hi, s
    <3>3. QED
      BY <1>3, <2>2, <3>2
  <2>5. ~ (p < m \/ (p = m /\ d < c))
    <3>1. SUFFICES ASSUME p < m \/ (p = m /\ d < c) PROVE FALSE
      OBVIOUS
    <3>2. hi(d) <= lo(c)
      BY <2>1, <2>3, <3>1, CodesOrdered
    <3> HIDE DEF lo, hi, s
    <3>3. QED
      BY <1>3, <2>2, <3>2
  <2>6. c \in Nat /\ d \in Nat
    BY <2>1
  <2>7. QED
    BY <2>3, <2>4, <2>5, <2>6
<1>6. Reader!symbol(dec, bits, pos) = CHOOSE d \in DOMAIN dec : In(d)
  BY Zenon DEF Reader!symbol, Reader!MaxLen
<1> HIDE DEF In
<1>7. QED
  BY <1>3, <1>4, <1>5, <1>6

\* The code of c, as the tree writes it, is read as c.
LEMMA CodeRead ==
  ASSUME NEW M \in Nat, NEW lens, IsComplete(lens, 15, M),
         NEW c \in 0 .. M - 1, lens[c] > 0,
         NEW bits \in Seq(Bit), NEW pos \in Nat, Holds(bits, pos, tree_bits(lens, c))
  PROVE  /\ Reader!symbol(Reader!decoder(lens), bits, pos) = c
         /\ Reader!decoder(lens)[c].len = lens[c]
<1>1. PICK n \in Nat \ {0} : n = lens[c] /\ n <= 15
  BY DEF IsComplete
<1>2. PICK x \in Nat : x = code(lens, c) /\ x + 1 <= 2 ^ n
  BY <1>1, CodeWithin
<1>3. 2 ^ n \in Nat
  BY PowerOfTwo
<1>4. Reader!string(bits, pos, n) = x
  <2>1. tree_bits(lens, c) = big(x, n)
    BY <1>1, <1>2 DEF tree_bits
  <2>2. Holds(bits, pos, big(x, n)) /\ x < 2 ^ n
    BY <1>2, <1>3, <2>1
  <2>3. QED
    BY <2>2, StringRead
<1>5. PICK e \in Nat : e = 15 - n /\ n + e = 15
  BY <1>1
<1>6. Reader!string(bits, pos, n + e) \in x * 2 ^ e .. x * 2 ^ e + 2 ^ e - 1
  BY <1>4, StringWithin
<1>7. Reader!string(bits, pos, 15)
           \in code(lens, c) * 2 ^ (15 - lens[c])
                 .. code(lens, c) * 2 ^ (15 - lens[c]) + 2 ^ (15 - lens[c]) - 1
  BY <1>1, <1>2, <1>5, <1>6
<1>8. PICK dec : dec = Reader!decoder(lens)
  OBVIOUS
<1>9. IsDecoder(dec, lens, M)
  BY <1>8, DecoderIs
<1>10. Reader!symbol(dec, bits, pos) = c
  BY <1>7, <1>9, SymbolIs
<1>11. dec[c].len = lens[c]
  BY <1>9 DEF IsDecoder
<1>12. QED
  BY <1>8, <1>10, <1>11

\* The bits of a code are as many as its length.
LEMMA TreeBits ==
  ASSUME NEW M \in Nat, NEW n \in Nat \ {0}, NEW lens, IsComplete(lens, n, M),
         NEW c \in 0 .. M - 1, lens[c] > 0
  PROVE  /\ tree_bits(lens, c) \in Seq(Bit)
         /\ Len(tree_bits(lens, c)) = lens[c] /\ lens[c] \in Nat
<1>1. PICK m \in Nat \ {0} : m = lens[c]
  BY DEF IsComplete
<1>2. PICK x \in Nat : x = code(lens, c) /\ x + 1 <= 2 ^ m
  BY <1>1, CodeWithin
<1>3. 2 ^ m \in Nat
  BY PowerOfTwo
<1>4. tree_bits(lens, c) = big(x, m)
  BY <1>1, <1>2 DEF tree_bits
<1>5. x < 2 ^ m
  BY <1>2, <1>3
<1>6. QED
  BY <1>1, <1>4, <1>5, BigIs

-------------------------------------------------------------------------------
(* The fixed codes.                                                        *)

LEMMA PowersAre ==
  /\ 2 ^ 0 = 1 /\ 2 ^ 1 = 2 /\ 2 ^ 2 = 4 /\ 2 ^ 3 = 8 /\ 2 ^ 4 = 16 /\ 2 ^ 5 = 32
  /\ 2 ^ 6 = 64 /\ 2 ^ 7 = 128 /\ 2 ^ 8 = 256 /\ 2 ^ 9 = 512 /\ 2 ^ 10 = 1024
  /\ 2 ^ 11 = 2048 /\ 2 ^ 12 = 4096 /\ 2 ^ 13 = 8192 /\ 2 ^ 14 = 16384
  /\ 2 ^ 15 = 32768
<1>1. \A n \in Nat : 2 ^ (n + 1) = 2 * 2 ^ n
  BY PowerOfTwo
<1>2. 2 ^ (0 + 1) = 2 /\ 2 ^ (1 + 1) = 2 * 2 ^ 1 /\ 2 ^ (2 + 1) = 2 * 2 ^ 2
      /\ 2 ^ (3 + 1) = 2 * 2 ^ 3 /\ 2 ^ (4 + 1) = 2 * 2 ^ 4 /\ 2 ^ (5 + 1) = 2 * 2 ^ 5
      /\ 2 ^ (6 + 1) = 2 * 2 ^ 6 /\ 2 ^ (7 + 1) = 2 * 2 ^ 7
  BY <1>1, PowerOfZero
<1>3. 2 ^ (8 + 1) = 2 * 2 ^ 8 /\ 2 ^ (9 + 1) = 2 * 2 ^ 9 /\ 2 ^ (10 + 1) = 2 * 2 ^ 10
      /\ 2 ^ (11 + 1) = 2 * 2 ^ 11 /\ 2 ^ (12 + 1) = 2 * 2 ^ 12
      /\ 2 ^ (13 + 1) = 2 * 2 ^ 13 /\ 2 ^ (14 + 1) = 2 * 2 ^ 14
  BY <1>1
<1>4. QED
  BY <1>2, <1>3, PowerOfZero

LEMMA SizeOfInterval ==
  ASSUME NEW a \in Int, NEW b \in Int, a <= b + 1
  PROVE  IsFiniteSet(a .. b) /\ Cardinality(a .. b) = b - a + 1
<1>1. IsFiniteSet(a .. b) /\ Cardinality(a .. b) = IF a > b THEN 0 ELSE b - a + 1
  BY FS_Interval
<1>2. QED
  BY <1>1

LEMMA StartZero ==
  ASSUME NEW n \in Nat, NEW dep, \A m \in 1 .. n : bl_count(dep, m) = 0
  PROVE  start_code(dep, n + 1) = 0
<1> DEFINE S == {m \in 0 .. n : start_code(dep, m) = 0}
<1>1. 0 \in S
  BY StartIs
<1>2. \A m \in 0 .. n : bl_count(dep, m) = 0
  <2>1. bl_count(dep, 0) = 0
    BY DEF bl_count
  <2>2. \A m \in 0 .. n : m = 0 \/ m \in 1 .. n
    OBVIOUS
  <2>3. QED
    BY <2>1, <2>2
<1>3. ASSUME NEW m \in 0 .. n - 1, m \in S
      PROVE  m + 1 \in S
  <2>1. m \in Nat /\ m \in 0 .. n /\ m + 1 \in 0 .. n /\ start_code(dep, m) = 0
    BY <1>3
  <2>2. start_code(dep, m + 1) = 2 * (start_code(dep, m) + bl_count(dep, m))
    BY <2>1, StartIs
  <2>3. QED
    BY <1>2, <2>1, <2>2
<1>4. n \in S
  <2> HIDE DEF S
  <2>1. n \in 0 .. n
    OBVIOUS
  <2>2. QED
    BY <1>1, <1>3, <2>1, IntervalInduction
<1>5. start_code(dep, n + 1) = 2 * (start_code(dep, n) + bl_count(dep, n))
  BY StartIs
<1>6. n \in 0 .. n
  OBVIOUS
<1>7. QED
  BY <1>2, <1>4, <1>5, <1>6

\* The five bits of a distance.
FiveBits == [c \in 0 .. 31 |-> 5]

LEMMA StaticDistances ==
  /\ IsComplete(FiveBits, 15, 32)
  /\ \A c \in 0 .. 31 : FiveBits[c] = 5 /\ code(FiveBits, c) = c
<1>1. FiveBits \in [0 .. 32 - 1 -> 0 .. 5] /\ DOMAIN FiveBits = 0 .. 31
      /\ \A c \in 0 .. 31 : FiveBits[c] = 5
  BY DEF FiveBits
<1>2. Level(FiveBits, 5) = 0 .. 31 /\ \A m \in 1 .. 4 : Level(FiveBits, m) = {}
  BY <1>1 DEF Level
<1>3. \A m \in 1 .. 5 : bl_count(FiveBits, m) = Cardinality(Level(FiveBits, m))
  <2>1. \A m \in 1 .. 5 : m # 0
    OBVIOUS
  <2>2. QED
    BY <2>1, Zenon DEF bl_count, Level
<1>4. \A m \in 1 .. 4 : bl_count(FiveBits, m) = 0
  BY <1>2, <1>3, FS_EmptySet
<1>5. start_code(FiveBits, 5) = 0
  <2>1. start_code(FiveBits, 4 + 1) = 0
    BY <1>4, StartZero
  <2>2. QED
    BY <2>1
<1>6. bl_count(FiveBits, 5) = 32
  <2>1. PICK a \in Int, b \in Int : a = 0 /\ b = 31
    OBVIOUS
  <2>2. Cardinality(a .. b) = b - a + 1
    <3>1. a <= b + 1
      BY <2>1
    <3>2. QED
      BY <3>1, SizeOfInterval
  <2>3. bl_count(FiveBits, 5) = Cardinality(0 .. 31)
    BY <1>2, <1>3
  <2>4. QED
    BY <2>1, <2>2, <2>3
<1>7. IsComplete(FiveBits, 5, 32)
  BY <1>1, <1>5, <1>6, PowersAre DEF IsComplete
<1>8. IsComplete(FiveBits, 15, 32)
  BY <1>7, CompleteWithin
<1>9. ASSUME NEW c \in 0 .. 31
      PROVE  code(FiveBits, c) = c
  <2>1. {d \in DOMAIN FiveBits : d < c /\ FiveBits[d] = FiveBits[c]} = 0 .. c - 1
    BY <1>1
  <2>2. Cardinality(0 .. c - 1) = c
    <3>1. Cardinality(0 .. c - 1) = (c - 1) - 0 + 1
      BY SizeOfInterval
    <3>2. QED
      BY <3>1
  <2>3. code(FiveBits, c) = start_code(FiveBits, FiveBits[c])
           + Cardinality({d \in DOMAIN FiveBits : d < c /\ FiveBits[d] = FiveBits[c]})
    BY Zenon DEF code
  <2>4. FiveBits[c] = 5
    BY <1>1
  <2>5. code(FiveBits, c) = 0 + c
    BY <1>5, <2>1, <2>2, <2>3, <2>4, Zenon
  <2>6. QED
    BY <2>5
<1>10. QED
  BY <1>1, <1>8, <1>9

\* The first code of each range of the literals and lengths.
StaticCode(c) ==
  IF c < 144 THEN 48 + c
  ELSE IF c < 256 THEN 400 + c - 144
  ELSE IF c < 280 THEN c - 256
  ELSE 192 + c - 280

LEMMA StaticLiterals ==
  LET L == Reader!StaticLengths IN
  /\ IsComplete(L, 15, 288)
  /\ \A c \in 0 .. 287 :
       /\ L[c] = IF c < 144 THEN 8 ELSE IF c < 256 THEN 9 ELSE IF c < 280 THEN 7 ELSE 8
       /\ code(L, c) = StaticCode(c)
<1> DEFINE L == Reader!StaticLengths
<1>1. /\ L \in [0 .. 288 - 1 -> 0 .. 9] /\ DOMAIN L = 0 .. 287
      /\ \A c \in 0 .. 287 :
           L[c] = IF c < 144 THEN 8 ELSE IF c < 256 THEN 9 ELSE IF c < 280 THEN 7 ELSE 8
  BY DEF Reader!StaticLengths
<1> HIDE DEF L
<1>2. /\ Level(L, 7) = 256 .. 279 /\ Level(L, 8) = (0 .. 143) \cup (280 .. 287)
      /\ Level(L, 9) = 144 .. 255
  <2>1. \A m : Level(L, m) = {c \in 0 .. 287 : L[c] = m}
    BY <1>1 DEF Level
  <2>2. \A c \in 0 .. 287 :
          /\ L[c] = 7 <=> 256 <= c /\ c <= 279
          /\ L[c] = 8 <=> c <= 143 \/ 280 <= c
          /\ L[c] = 9 <=> 144 <= c /\ c <= 255
    BY <1>1
  <2>3. {c \in 0 .. 287 : L[c] = 7} = 256 .. 279
    BY <2>2
  <2>4. {c \in 0 .. 287 : L[c] = 8} = (0 .. 143) \cup (280 .. 287)
    BY <2>2
  <2>5. {c \in 0 .. 287 : L[c] = 9} = 144 .. 255
    BY <2>2
  <2>6. QED
    BY <2>1, <2>3, <2>4, <2>5
<1>3. \A m \in 1 .. 6 : Level(L, m) = {}
  <2>1. \A c \in 0 .. 287 : L[c] \in 7 .. 9
    BY <1>1, SMTT(60)
  <2>2. SUFFICES ASSUME NEW m \in 1 .. 6, NEW c \in Level(L, m) PROVE FALSE
    OBVIOUS
  <2>3. c \in 0 .. 287 /\ L[c] = m
    BY <1>1 DEF Level
  <2>4. m \in 7 .. 9
    BY <2>1, <2>3
  <2>5. QED
    BY <2>4
<1>4. \A m \in 1 .. 9 : bl_count(L, m) = Cardinality(Level(L, m))
  <2>1. \A m \in 1 .. 9 : m # 0
    OBVIOUS
  <2>2. QED
    BY <2>1, Zenon DEF bl_count, Level
<1>5. bl_count(L, 7) = 24 /\ bl_count(L, 9) = 112
  <2>1. PICK a \in Int, b \in Int, c \in Int, d \in Int :
          a = 256 /\ b = 279 /\ c = 144 /\ d = 255
    OBVIOUS
  <2>2. Cardinality(a .. b) = b - a + 1 /\ Cardinality(c .. d) = d - c + 1
    <3>1. a <= b + 1 /\ c <= d + 1
      BY <2>1
    <3>2. QED
      BY <3>1, SizeOfInterval
  <2>3. bl_count(L, 7) = Cardinality(256 .. 279) /\ bl_count(L, 9) = Cardinality(144 .. 255)
    <3>1. 7 \in 1 .. 9 /\ 9 \in 1 .. 9
      OBVIOUS
    <3>2. /\ bl_count(L, 7) = Cardinality(Level(L, 7))
          /\ bl_count(L, 9) = Cardinality(Level(L, 9))
      BY <1>4, <3>1
    <3>3. QED
      BY <1>2, <3>2, Zenon
  <2>4. QED
    BY <2>1, <2>2, <2>3
<1>6. ASSUME NEW k \in 280 .. 288
      PROVE  Cardinality((0 .. 143) \cup (280 .. k - 1)) = 144 + (k - 280)
  <2>1. PICK a \in Int, b \in Int, c \in Int, d \in Int :
          a = 0 /\ b = 143 /\ c = 280 /\ d = k - 1
    OBVIOUS
  <2>2. /\ IsFiniteSet(a .. b) /\ Cardinality(a .. b) = b - a + 1
        /\ IsFiniteSet(c .. d) /\ Cardinality(c .. d) = d - c + 1
    <3>1. a <= b + 1 /\ c <= d + 1
      BY <2>1
    <3>2. QED
      BY <3>1, SizeOfInterval
  <2>3. (a .. b) \cap (c .. d) = {}
    BY <2>1
  <2>4. Cardinality((a .. b) \cup (c .. d))
          = Cardinality(a .. b) + Cardinality(c .. d) - Cardinality((a .. b) \cap (c .. d))
    BY <2>2, FS_Union
  <2>5. Cardinality((a .. b) \cup (c .. d)) = 144 + (k - 280)
    <3>1. Cardinality((a .. b) \cap (c .. d)) = 0
      BY <2>3, FS_EmptySet
    <3>2. Cardinality((a .. b) \cup (c .. d)) = (b - a + 1) + (d - c + 1) - 0
      BY <2>2, <2>4, <3>1, Zenon
    <3>3. QED
      BY <2>1, <3>2
  <2>6. QED
    BY <2>1, <2>5
<1>7. bl_count(L, 8) = 152
  <2>1. Cardinality((0 .. 143) \cup (280 .. 288 - 1)) = 144 + (288 - 280)
    BY <1>6
  <2>2. QED
    BY <1>2, <1>4, <2>1
<1>8. start_code(L, 7) = 0
  <2>1. \A m \in 1 .. 6 : bl_count(L, m) = 0
    BY <1>3, <1>4, FS_EmptySet
  <2>2. start_code(L, 6 + 1) = 0
    BY <2>1, StartZero
  <2>3. QED
    BY <2>2
<1>9. start_code(L, 8) = 48 /\ start_code(L, 9) = 400
  <2>1. /\ start_code(L, 7 + 1) = 2 * (start_code(L, 7) + bl_count(L, 7))
        /\ start_code(L, 8 + 1) = 2 * (start_code(L, 8) + bl_count(L, 8))
    BY StartIs
  <2>2. QED
    BY <1>5, <1>7, <1>8, <2>1
<1>10. IsComplete(L, 9, 288)
  BY <1>1, <1>5, <1>9, PowersAre, SMTT(60) DEF IsComplete
<1>11. IsComplete(L, 15, 288)
  BY <1>10, CompleteWithin
<1>12. ASSUME NEW c \in 0 .. 287
       PROVE  code(L, c) = StaticCode(c)
  <2> DEFINE B == {d \in DOMAIN L : d < c /\ L[d] = L[c]}
  <2>1. code(L, c) = start_code(L, L[c]) + Cardinality(B)
    BY Zenon DEF code
  <2>2. B = {d \in 0 .. 287 : d < c /\ L[d] = L[c]}
    BY <1>1
  <2>3. \A d \in 0 .. 287 :
          L[d] = IF d < 144 THEN 8 ELSE IF d < 256 THEN 9 ELSE IF d < 280 THEN 7 ELSE 8
    BY <1>1
  <2> HIDE DEF B
  <2>4. \A a \in Int : a <= c => Cardinality(a .. c - 1) = c - a
    <3>1. ASSUME NEW a \in Int, a <= c
          PROVE  Cardinality(a .. c - 1) = c - a
      <4>1. Cardinality(a .. c - 1) = (c - 1) - a + 1
        BY <3>1, SizeOfInterval
      <4>2. QED
        BY <4>1
    <3>2. QED
      BY <3>1
  <2>5. CASE c < 144
    <3>1. L[c] = 8 /\ \A d \in 0 .. 287 : d < c /\ L[d] = L[c] <=> 0 <= d /\ d <= c - 1
      BY <2>3, <2>5
    <3>2. B = 0 .. c - 1
      <4>1. ASSUME NEW d \in B PROVE d \in 0 .. c - 1
        BY <2>2, <3>1
      <4>2. ASSUME NEW d \in 0 .. c - 1 PROVE d \in B
        BY <2>2, <2>5, <3>1
      <4>3. QED
        BY <4>1, <4>2
    <3>3. Cardinality(B) = c - 0
      BY <2>4, <3>2
    <3>4. code(L, c) = 48 + c
      BY <1>9, <2>1, <3>1, <3>3
    <3>5. QED
      BY <2>5, <3>4 DEF StaticCode
  <2>6. CASE 144 <= c /\ c < 256
    <3>1. L[c] = 9 /\ \A d \in 0 .. 287 : d < c /\ L[d] = L[c] <=> 144 <= d /\ d <= c - 1
      BY <2>3, <2>6, SMTT(60)
    <3>2. B = 144 .. c - 1
      BY <2>2, <3>1, SMTT(60)
    <3>3. Cardinality(B) = c - 144
      BY <2>4, <2>6, <3>2
    <3>4. code(L, c) = 400 + c - 144
      BY <1>9, <2>1, <3>1, <3>3
    <3>5. QED
      BY <2>6, <3>4 DEF StaticCode
  <2>7. CASE 256 <= c /\ c < 280
    <3>1. L[c] = 7
      BY <2>3, <2>7
    <3>2. \A d \in 0 .. 287 : L[d] = 7 <=> 256 <= d /\ d < 280
      BY <2>3
    <3>3. \A d \in 0 .. 287 : d < c /\ L[d] = L[c] <=> 256 <= d /\ d <= c - 1
      BY <2>7, <3>1, <3>2
    <3>4. B = 256 .. c - 1
      BY <2>2, <3>3
    <3>5. Cardinality(B) = c - 256
      BY <2>4, <2>7, <3>4
    <3>6. code(L, c) = c - 256
      BY <1>8, <2>1, <3>1, <3>5
    <3>7. QED
      BY <2>7, <3>6 DEF StaticCode
  <2>8. CASE 280 <= c
    <3>1. /\ L[c] = 8
          /\ \A d \in 0 .. 287 : d < c /\ L[d] = L[c] <=> d <= 143 \/ (280 <= d /\ d <= c - 1)
      BY <2>3, <2>8, SMTT(60)
    <3>2. B = (0 .. 143) \cup (280 .. c - 1)
      <4>1. ASSUME NEW d \in B PROVE d \in (0 .. 143) \cup (280 .. c - 1)
        BY <2>2, <3>1
      <4>2. ASSUME NEW d \in (0 .. 143) \cup (280 .. c - 1) PROVE d \in B
        BY <2>2, <2>8, <3>1
      <4>3. QED
        BY <4>1, <4>2
    <3>3. c \in 280 .. 288
      BY <2>8
    <3>4. Cardinality(B) = 144 + (c - 280)
      BY <1>6, <3>2, <3>3, SMTT(60)
    <3>5. code(L, c) = 192 + c - 280
      BY <1>9, <2>1, <3>1, <3>4
    <3>6. QED
      BY <2>8, <3>5 DEF StaticCode
  <2>9. QED
    BY <2>5, <2>6, <2>7, <2>8
<1>13. QED
  BY <1>1, <1>11, <1>12 DEF L

\* The fixed codes are those of two trees.
LEMMA StaticTrees ==
  ASSUME NEW item, NEW base \in 0 .. 285, row(item)[1] = base,
         item.type = "distance" => base < 30
  PROVE  static_bits(item) = IF item.type = "distance" THEN tree_bits(FiveBits, base)
                             ELSE tree_bits(Reader!StaticLengths, base)
<1> DEFINE L == Reader!StaticLengths
<1>1. CASE item.type = "distance"
  <2>1. base \in 0 .. 31
    BY <1>1
  <2>2. tree_bits(FiveBits, base) = big(base, 5)
    BY <2>1, StaticDistances DEF tree_bits
  <2>3. QED
    BY <1>1, <2>2 DEF static_bits
<1>2. CASE item.type # "distance"
  <2>1. base \in 0 .. 287
    OBVIOUS
  <2>2. /\ code(L, base) = StaticCode(base)
        /\ L[base] = IF base < 144 THEN 8 ELSE IF base < 256 THEN 9
                     ELSE IF base < 280 THEN 7 ELSE 8
    BY <2>1, StaticLiterals
  <2>3. tree_bits(L, base) = big(StaticCode(base), L[base])
    BY <2>2 DEF tree_bits
  <2> HIDE DEF L
  <2>4. static_bits(item) =
          IF base < 144 THEN big(48 + base, 8)
          ELSE IF base < 256 THEN big(400 + base - 144, 9)
          ELSE IF base < 280 THEN big(base - 256, 7)
          ELSE big(192 + base - 280, 8)
    BY <1>2 DEF static_bits
  <2>5. QED
    BY <1>2, <2>2, <2>3, <2>4 DEF StaticCode, L
<1>3. QED
  BY <1>1, <1>2

-------------------------------------------------------------------------------
(* The tables.                                                             *)

\* A row whose code and extra bits stand for val.
IsLengthRow(r, val) ==
  /\ r[1] \in 257 .. 285
  /\ r[2] \in Nat /\ r[2] = Reader!LengthExtra[r[1] - 256]
  /\ r[3] \in Nat /\ r[3] < 2 ^ r[2]
  /\ Reader!LengthBase[r[1] - 256] + r[3] = val

IsDistanceRow(r, val) ==
  /\ r[1] \in 0 .. 29
  /\ r[2] \in Nat /\ r[2] = Reader!DistanceExtra(r[1])
  /\ r[3] \in Nat /\ r[3] < 2 ^ r[2]
  /\ Reader!DistanceBase[r[1] + 1] + r[3] = val

LEMMA LengthTables ==
  LET B == Reader!LengthBase
      E == Reader!LengthExtra
  IN
  /\ \A q \in 0 .. 7 : B[1 + q] = 3 + q /\ E[1 + q] = 0
  /\ \A q \in 0 .. 3 : /\ B[9 + q] = 11 + 2 * q /\ E[9 + q] = 1
                       /\ B[13 + q] = 19 + 4 * q /\ E[13 + q] = 2
                       /\ B[17 + q] = 35 + 8 * q /\ E[17 + q] = 3
                       /\ B[21 + q] = 67 + 16 * q /\ E[21 + q] = 4
                       /\ B[25 + q] = 131 + 32 * q /\ E[25 + q] = 5
  /\ B[29] = 258 /\ E[29] = 0
<1> DEFINE B == Reader!LengthBase
           E == Reader!LengthExtra
<1>1. /\ B[1] = 3 /\ B[2] = 4 /\ B[3] = 5 /\ B[4] = 6 /\ B[5] = 7 /\ B[6] = 8 /\ B[7] = 9
      /\ B[8] = 10 /\ B[9] = 11 /\ B[10] = 13 /\ B[11] = 15 /\ B[12] = 17 /\ B[13] = 19
      /\ B[14] = 23 /\ B[15] = 27
  BY DEF Reader!LengthBase
<1>2. /\ B[16] = 31 /\ B[17] = 35 /\ B[18] = 43 /\ B[19] = 51 /\ B[20] = 59 /\ B[21] = 67
      /\ B[22] = 83 /\ B[23] = 99 /\ B[24] = 115 /\ B[25] = 131 /\ B[26] = 163
      /\ B[27] = 195 /\ B[28] = 227 /\ B[29] = 258
  BY DEF Reader!LengthBase
<1>3. /\ E[1] = 0 /\ E[2] = 0 /\ E[3] = 0 /\ E[4] = 0 /\ E[5] = 0 /\ E[6] = 0 /\ E[7] = 0
      /\ E[8] = 0 /\ E[9] = 1 /\ E[10] = 1 /\ E[11] = 1 /\ E[12] = 1 /\ E[13] = 2
      /\ E[14] = 2 /\ E[15] = 2
  BY DEF Reader!LengthExtra
<1>4. /\ E[16] = 2 /\ E[17] = 3 /\ E[18] = 3 /\ E[19] = 3 /\ E[20] = 3 /\ E[21] = 4
      /\ E[22] = 4 /\ E[23] = 4 /\ E[24] = 4 /\ E[25] = 5 /\ E[26] = 5
      /\ E[27] = 5 /\ E[28] = 5 /\ E[29] = 0
  BY DEF Reader!LengthExtra
<1> HIDE DEF B, E
<1>5. ASSUME NEW q \in 0 .. 7
      PROVE  B[1 + q] = 3 + q /\ E[1 + q] = 0
  <2>1. q = 0 \/ q = 1 \/ q = 2 \/ q = 3 \/ q = 4 \/ q = 5 \/ q = 6 \/ q = 7
    OBVIOUS
  <2>2. QED
    BY <1>1, <1>3, <2>1
<1>6. ASSUME NEW q \in 0 .. 3
      PROVE  /\ B[9 + q] = 11 + 2 * q /\ E[9 + q] = 1
             /\ B[13 + q] = 19 + 4 * q /\ E[13 + q] = 2
             /\ B[17 + q] = 35 + 8 * q /\ E[17 + q] = 3
             /\ B[21 + q] = 67 + 16 * q /\ E[21 + q] = 4
             /\ B[25 + q] = 131 + 32 * q /\ E[25 + q] = 5
  <2>1. q = 0 \/ q = 1 \/ q = 2 \/ q = 3
    OBVIOUS
  <2>2. QED
    BY <1>1, <1>2, <1>3, <1>4, <2>1
<1>7. QED
  BY <1>2, <1>4, <1>5, <1>6 DEF B, E

LEMMA DistanceTable ==
  LET B == Reader!DistanceBase
      T(k) == distance_div[k]
  IN
  /\ \A q \in 0 .. 3 : B[q + 1] = q + 1
  /\ T(1)[1] = 0 /\ T(1)[2] = 1
  /\ \A k \in 2 .. 14 : /\ T(k)[1] = 2 * k /\ T(k)[2] = 2 * 2 ^ (k - 1) + 1
                       /\ B[2 * k + 1] = 2 * 2 ^ (k - 1) + 1
                       /\ B[2 * k + 2] = 3 * 2 ^ (k - 1) + 1
<1> DEFINE B == Reader!DistanceBase
           T(k) == distance_div[k]
<1>1. /\ B[1] = 1 /\ B[2] = 2 /\ B[3] = 3 /\ B[4] = 4 /\ B[5] = 5 /\ B[6] = 7
      /\ B[7] = 9 /\ B[8] = 13 /\ B[9] = 17 /\ B[10] = 25 /\ B[11] = 33 /\ B[12] = 49
      /\ B[13] = 65 /\ B[14] = 97 /\ B[15] = 129 /\ B[16] = 193
  BY SMT DEF Reader!DistanceBase
<1>2. /\ B[17] = 257 /\ B[18] = 385 /\ B[19] = 513 /\ B[20] = 769 /\ B[21] = 1025
      /\ B[22] = 1537 /\ B[23] = 2049 /\ B[24] = 3073 /\ B[25] = 4097 /\ B[26] = 6145
      /\ B[27] = 8193 /\ B[28] = 12289 /\ B[29] = 16385 /\ B[30] = 24577
  BY SMT DEF Reader!DistanceBase
<1>3. /\ T(1)[1] = 0 /\ T(1)[2] = 1 /\ T(2)[1] = 4 /\ T(2)[2] = 5
      /\ T(3)[1] = 6 /\ T(3)[2] = 9 /\ T(4)[1] = 8 /\ T(4)[2] = 17
      /\ T(5)[1] = 10 /\ T(5)[2] = 33 /\ T(6)[1] = 12 /\ T(6)[2] = 65
      /\ T(7)[1] = 14 /\ T(7)[2] = 129 /\ T(8)[1] = 16 /\ T(8)[2] = 257
      /\ T(9)[1] = 18 /\ T(9)[2] = 513 /\ T(10)[1] = 20 /\ T(10)[2] = 1025
      /\ T(11)[1] = 22 /\ T(11)[2] = 2049 /\ T(12)[1] = 24 /\ T(12)[2] = 4097
      /\ T(13)[1] = 26 /\ T(13)[2] = 8193 /\ T(14)[1] = 28 /\ T(14)[2] = 16385
  BY SMT DEF distance_div
<1> HIDE DEF B, T
<1>4. ASSUME NEW q \in 0 .. 3
      PROVE  B[q + 1] = q + 1
  <2>1. q = 0 \/ q = 1 \/ q = 2 \/ q = 3
    OBVIOUS
  <2>2. QED
    BY <1>1, <2>1, SMT
<1>5. ASSUME NEW k \in 2 .. 14
      PROVE  /\ T(k)[1] = 2 * k /\ T(k)[2] = 2 * 2 ^ (k - 1) + 1
             /\ B[2 * k + 1] = 2 * 2 ^ (k - 1) + 1
             /\ B[2 * k + 2] = 3 * 2 ^ (k - 1) + 1
  <2>1. CASE k = 2
    <3>1. k - 1 = 1 /\ 2 * k = 4 /\ 2 * k + 1 = 5 /\ 2 * k + 2 = 6
      BY <2>1
    <3>2. QED
      BY <1>1, <1>3, <2>1, <3>1, PowersAre, SMT
  <2>2. CASE k = 3
    <3>1. k - 1 = 2 /\ 2 * k = 6 /\ 2 * k + 1 = 7 /\ 2 * k + 2 = 8
      BY <2>2
    <3>2. QED
      BY <1>1, <1>3, <2>2, <3>1, PowersAre, SMT
  <2>3. CASE k = 4
    <3>1. k - 1 = 3 /\ 2 * k = 8 /\ 2 * k + 1 = 9 /\ 2 * k + 2 = 10
      BY <2>3
    <3>2. QED
      BY <1>1, <1>3, <2>3, <3>1, PowersAre, SMT
  <2>4. CASE k = 5
    <3>1. k - 1 = 4 /\ 2 * k = 10 /\ 2 * k + 1 = 11 /\ 2 * k + 2 = 12
      BY <2>4
    <3>2. QED
      BY <1>1, <1>3, <2>4, <3>1, PowersAre, SMT
  <2>5. CASE k = 6
    <3>1. k - 1 = 5 /\ 2 * k = 12 /\ 2 * k + 1 = 13 /\ 2 * k + 2 = 14
      BY <2>5
    <3>2. QED
      BY <1>1, <1>3, <2>5, <3>1, PowersAre, SMT
  <2>6. CASE k = 7
    <3>1. k - 1 = 6 /\ 2 * k = 14 /\ 2 * k + 1 = 15 /\ 2 * k + 2 = 16
      BY <2>6
    <3>2. QED
      BY <1>1, <1>3, <2>6, <3>1, PowersAre, SMT
  <2>7. CASE k = 8
    <3>1. k - 1 = 7 /\ 2 * k = 16 /\ 2 * k + 1 = 17 /\ 2 * k + 2 = 18
      BY <2>7
    <3>2. QED
      BY <1>2, <1>3, <2>7, <3>1, PowersAre, SMT
  <2>8. CASE k = 9
    <3>1. k - 1 = 8 /\ 2 * k = 18 /\ 2 * k + 1 = 19 /\ 2 * k + 2 = 20
      BY <2>8
    <3>2. QED
      BY <1>2, <1>3, <2>8, <3>1, PowersAre, SMT
  <2>9. CASE k = 10
    <3>1. k - 1 = 9 /\ 2 * k = 20 /\ 2 * k + 1 = 21 /\ 2 * k + 2 = 22
      BY <2>9
    <3>2. QED
      BY <1>2, <1>3, <2>9, <3>1, PowersAre, SMT
  <2>10. CASE k = 11
    <3>1. k - 1 = 10 /\ 2 * k = 22 /\ 2 * k + 1 = 23 /\ 2 * k + 2 = 24
      BY <2>10
    <3>2. QED
      BY <1>2, <1>3, <2>10, <3>1, PowersAre, SMT
  <2>11. CASE k = 12
    <3>1. k - 1 = 11 /\ 2 * k = 24 /\ 2 * k + 1 = 25 /\ 2 * k + 2 = 26
      BY <2>11
    <3>2. QED
      BY <1>2, <1>3, <2>11, <3>1, PowersAre, SMT
  <2>12. CASE k = 13
    <3>1. k - 1 = 12 /\ 2 * k = 26 /\ 2 * k + 1 = 27 /\ 2 * k + 2 = 28
      BY <2>12
    <3>2. QED
      BY <1>2, <1>3, <2>12, <3>1, PowersAre, SMT
  <2>13. CASE k = 14
    <3>1. k - 1 = 13 /\ 2 * k = 28 /\ 2 * k + 1 = 29 /\ 2 * k + 2 = 30
      BY <2>13
    <3>2. QED
      BY <1>2, <1>3, <2>13, <3>1, PowersAre, SMT
  <2>14. QED
    BY <2>1, <2>2, <2>3, <2>4, <2>5, <2>6, <2>7, <2>8, <2>9, <2>10, <2>11, <2>12, <2>13
<1>6. QED
  BY <1>3, <1>4, <1>5 DEF B, T

\* The branch of a length.
LEMMA LengthBranch ==
  ASSUME NEW x \in 3 .. 258, NEW k \in 1 .. 7, length_branches[k][1] <= x,
         \A j \in 1 .. 7 : j > k => length_branches[j][1] > x
  PROVE  length_row(x)
           = <<length_branches[k][2] + (x - length_branches[k][1]) \div 2 ^ length_branches[k][3],
               length_branches[k][3],
               (x - length_branches[k][1]) % 2 ^ length_branches[k][3]>>
<1> DEFINE S == {j \in 1 .. 7 : length_branches[j][1] <= x}
<1>1. \A j \in 1 .. 7 : length_branches[j][1] \in Int
  <2>1. \A j \in 1 .. 7 : j = 1 \/ j = 2 \/ j = 3 \/ j = 4 \/ j = 5 \/ j = 6 \/ j = 7
    OBVIOUS
  <2>2. QED
    BY <2>1 DEF length_branches
<1>2. S \in SUBSET Int /\ k \in S /\ \A j \in S : j <= k
  <2>1. S \in SUBSET Int /\ k \in S
    OBVIOUS
  <2>2. ASSUME NEW j \in S PROVE j <= k
    <3>1. j \in 1 .. 7 /\ length_branches[j][1] <= x /\ length_branches[j][1] \in Int
      BY <1>1
    <3>2. ~ (length_branches[j][1] > x)
      BY <3>1
    <3>3. QED
      BY <3>1, <3>2
  <2>3. QED
    BY <2>1, <2>2
<1> HIDE DEF S
<1>3. Max(S) = k
  BY <1>2, MaxIs
<1>4. length_row(x) = LET b == length_branches[Max(S)]
                      IN  <<b[2] + (x - b[1]) \div 2 ^ b[3], b[3], (x - b[1]) % 2 ^ b[3]>>
  BY Zenon DEF length_row, S
<1>5. QED
  BY <1>3, <1>4, Zenon

LEMMA QuotientWithin ==
  ASSUME NEW x \in Nat, NEW w \in Nat \ {0}, NEW n \in Nat, x < n * w
  PROVE  /\ x \div w \in 0 .. n - 1 /\ x % w \in Nat /\ x % w < w
         /\ (x \div w) * w + (x % w) = x
<1>1. PICK q \in Nat, r \in 0 .. w - 1 : q = x \div w /\ r = x % w /\ x = w * q + r
  BY DivIs
<1>2. ~ (n <= q)
  <2>1. SUFFICES ASSUME n <= q PROVE FALSE
    OBVIOUS
  <2>2. n * w <= q * w
    BY <2>1, ProductMonotonic
  <2>3. QED
    BY <1>1, <2>2
<1>3. q * w + r = x
  BY <1>1
<1>4. QED
  BY <1>1, <1>2, <1>3

\* Branch k of the table: lengths n * w, which have w by w the codes from
\* 256 + a on.
IsBranch(k, n, w, a, x) ==
  LET b == length_branches[k] IN
  /\ b[1] <= x /\ \A j \in 1 .. 7 : j > k => length_branches[j][1] > x
  /\ w = 2 ^ b[3] /\ x - b[1] < n * w /\ b[1] \in Nat /\ b[3] \in Nat
  /\ b[2] = 256 + a /\ a + n <= 30
  /\ \A q \in 0 .. n - 1 : /\ Reader!LengthBase[a + q] = b[1] + w * q
                           /\ Reader!LengthExtra[a + q] = b[3]

LEMMA LengthRowOf ==
  ASSUME NEW x \in 3 .. 258, NEW k \in 1 .. 7, NEW n \in Nat, NEW w \in Nat \ {0},
         NEW a \in 1 .. 29, IsBranch(k, n, w, a, x)
  PROVE  IsLengthRow(length_row(x), x)
<1> DEFINE b == length_branches[k]
<1>1. /\ b[1] <= x /\ \A j \in 1 .. 7 : j > k => length_branches[j][1] > x
      /\ w = 2 ^ b[3] /\ x - b[1] < n * w /\ b[1] \in Nat /\ b[3] \in Nat
      /\ b[2] = 256 + a /\ a + n <= 30
      /\ \A q \in 0 .. n - 1 : /\ Reader!LengthBase[a + q] = b[1] + w * q
                               /\ Reader!LengthExtra[a + q] = b[3]
  BY DEF IsBranch
<1>2. PICK y \in Nat : y = x - b[1]
  BY <1>1
<1>3. PICK q \in 0 .. n - 1, e \in Nat : q = y \div w /\ e = y % w /\ e < w /\ q * w + e = y
  <2>1. y < n * w
    BY <1>1, <1>2
  <2>2. QED
    BY <2>1, QuotientWithin
<1>4. length_row(x) = <<b[2] + y \div w, b[3], y % w>>
  <2>1. length_row(x) = <<b[2] + (x - b[1]) \div 2 ^ b[3], b[3],
                          (x - b[1]) % 2 ^ b[3]>>
    BY <1>1, LengthBranch
  <2>2. QED
    BY <1>1, <1>2, <2>1, Zenon
<1> DEFINE r == length_row(x)
<1>5. r[1] = 256 + a + q /\ r[2] = b[3] /\ r[3] = e
  BY <1>1, <1>3, <1>4
<1> HIDE DEF r
<1>6. r[1] \in 257 .. 285 /\ r[1] - 256 = a + q
  <2>1. r[1] = 256 + a + q /\ a + n <= 30
    BY <1>1, <1>5
  <2>2. 1 <= a + q /\ a + q <= 29 /\ a + q \in Nat
    BY <2>1
  <2>3. PICK c \in Nat : c = a + q
    BY <2>2
  <2>4. r[1] = 256 + c /\ 1 <= c /\ c <= 29
    BY <2>1, <2>2, <2>3
  <2>5. QED
    BY <2>3, <2>4
<1>7. Reader!LengthBase[a + q] = b[1] + w * q /\ Reader!LengthExtra[a + q] = b[3]
  BY <1>1, <1>3
<1>8. b[1] + w * q + e = x
  <2>1. PICK p \in Nat : p = q * w /\ p = w * q
    OBVIOUS
  <2>2. p + e = y
    BY <1>3, <2>1
  <2>3. QED
    BY <1>1, <1>2, <2>1, <2>2
<1>9. e < 2 ^ b[3]
  BY <1>1, <1>3
<1>10. Reader!LengthBase[r[1] - 256] + r[3] = x
  BY <1>5, <1>6, <1>7, <1>8
<1>11. r[2] = Reader!LengthExtra[r[1] - 256] /\ r[2] \in Nat
  BY <1>1, <1>5, <1>6, <1>7
<1>12. IsLengthRow(r, x)
  BY <1>5, <1>6, <1>9, <1>10, <1>11 DEF IsLengthRow
<1>13. QED
  BY <1>12 DEF r

LEMMA LengthRow ==
  ASSUME NEW x \in 3 .. 258
  PROVE  IsLengthRow(length_row(x), x)
<1> DEFINE T(k) == length_branches[k]
<1>1. /\ T(1)[1] = 3 /\ T(1)[2] = 257 /\ T(1)[3] = 0
      /\ T(2)[1] = 11 /\ T(2)[2] = 265 /\ T(2)[3] = 1
      /\ T(3)[1] = 19 /\ T(3)[2] = 269 /\ T(3)[3] = 2
      /\ T(4)[1] = 35 /\ T(4)[2] = 273 /\ T(4)[3] = 3
      /\ T(5)[1] = 67 /\ T(5)[2] = 277 /\ T(5)[3] = 4
      /\ T(6)[1] = 131 /\ T(6)[2] = 281 /\ T(6)[3] = 5
      /\ T(7)[1] = 258 /\ T(7)[2] = 285 /\ T(7)[3] = 0
  BY DEF length_branches
<1> HIDE DEF T
<1>2. \A j \in 1 .. 7 : j = 1 \/ j = 2 \/ j = 3 \/ j = 4 \/ j = 5 \/ j = 6 \/ j = 7
  OBVIOUS
<1>3. CASE 3 <= x /\ x < 11
  <2>1. PICK k \in 1 .. 7, n \in Nat, w \in Nat \ {0}, a \in 1 .. 29 :
          k = 1 /\ n = 8 /\ w = 1 /\ a = 1
    OBVIOUS
  <2>2. T(k)[1] = 3 /\ T(k)[2] = 257 /\ T(k)[3] = 0
    BY <1>1, <2>1
  <2>3. T(k)[1] <= x /\ \A j \in 1 .. 7 : j > k => T(j)[1] > x
    BY <1>1, <1>2, <1>3, <2>1
  <2>4. 2 ^ T(k)[3] = w
    <3>1. 2 ^ 0 = 1
      BY PowersAre
    <3>2. T(k)[3] = 0 /\ w = 1
      BY <2>1, <2>2
    <3>3. QED
      BY <3>1, <3>2, Zenon
  <2>5. n * w = 8 /\ x - T(k)[1] < n * w /\ a + n <= 30 /\ T(k)[2] = 256 + a
    BY <1>3, <2>1, <2>2
  <2>6. \A q \in 0 .. n - 1 : /\ Reader!LengthBase[a + q] = T(k)[1] + w * q
                            /\ Reader!LengthExtra[a + q] = T(k)[3]
    BY <2>1, <2>2, LengthTables
  <2>7. T(k)[3] \in Nat
    BY <2>2
  <2>8. IsBranch(k, n, w, a, x)
    BY <2>2, <2>3, <2>4, <2>5, <2>6, <2>7 DEF IsBranch, T
  <2>9. QED
    BY <2>8, LengthRowOf
<1>4. CASE 11 <= x /\ x < 19
  <2>1. PICK k \in 1 .. 7, n \in Nat, w \in Nat \ {0}, a \in 1 .. 29 :
          k = 2 /\ n = 4 /\ w = 2 /\ a = 9
    OBVIOUS
  <2>2. T(k)[1] = 11 /\ T(k)[2] = 265 /\ T(k)[3] = 1
    BY <1>1, <2>1
  <2>3. T(k)[1] <= x /\ \A j \in 1 .. 7 : j > k => T(j)[1] > x
    BY <1>1, <1>2, <1>4, <2>1
  <2>4. 2 ^ T(k)[3] = w
    <3>1. 2 ^ 1 = 2
      BY PowersAre
    <3>2. T(k)[3] = 1 /\ w = 2
      BY <2>1, <2>2
    <3>3. QED
      BY <3>1, <3>2, Zenon
  <2>5. n * w = 8 /\ x - T(k)[1] < n * w /\ a + n <= 30 /\ T(k)[2] = 256 + a
    BY <1>4, <2>1, <2>2
  <2>6. \A q \in 0 .. n - 1 : /\ Reader!LengthBase[a + q] = T(k)[1] + w * q
                            /\ Reader!LengthExtra[a + q] = T(k)[3]
    BY <2>1, <2>2, LengthTables
  <2>7. T(k)[3] \in Nat
    BY <2>2
  <2>8. IsBranch(k, n, w, a, x)
    BY <2>2, <2>3, <2>4, <2>5, <2>6, <2>7 DEF IsBranch, T
  <2>9. QED
    BY <2>8, LengthRowOf
<1>5. CASE 19 <= x /\ x < 35
  <2>1. PICK k \in 1 .. 7, n \in Nat, w \in Nat \ {0}, a \in 1 .. 29 :
          k = 3 /\ n = 4 /\ w = 4 /\ a = 13
    OBVIOUS
  <2>2. T(k)[1] = 19 /\ T(k)[2] = 269 /\ T(k)[3] = 2
    BY <1>1, <2>1
  <2>3. T(k)[1] <= x /\ \A j \in 1 .. 7 : j > k => T(j)[1] > x
    BY <1>1, <1>2, <1>5, <2>1
  <2>4. 2 ^ T(k)[3] = w
    <3>1. 2 ^ 2 = 4
      BY PowersAre
    <3>2. T(k)[3] = 2 /\ w = 4
      BY <2>1, <2>2
    <3>3. QED
      BY <3>1, <3>2, Zenon
  <2>5. n * w = 16 /\ x - T(k)[1] < n * w /\ a + n <= 30 /\ T(k)[2] = 256 + a
    BY <1>5, <2>1, <2>2
  <2>6. \A q \in 0 .. n - 1 : /\ Reader!LengthBase[a + q] = T(k)[1] + w * q
                            /\ Reader!LengthExtra[a + q] = T(k)[3]
    BY <2>1, <2>2, LengthTables
  <2>7. T(k)[3] \in Nat
    BY <2>2
  <2>8. IsBranch(k, n, w, a, x)
    BY <2>2, <2>3, <2>4, <2>5, <2>6, <2>7 DEF IsBranch, T
  <2>9. QED
    BY <2>8, LengthRowOf
<1>6. CASE 35 <= x /\ x < 67
  <2>1. PICK k \in 1 .. 7, n \in Nat, w \in Nat \ {0}, a \in 1 .. 29 :
          k = 4 /\ n = 4 /\ w = 8 /\ a = 17
    OBVIOUS
  <2>2. T(k)[1] = 35 /\ T(k)[2] = 273 /\ T(k)[3] = 3
    BY <1>1, <2>1
  <2>3. T(k)[1] <= x /\ \A j \in 1 .. 7 : j > k => T(j)[1] > x
    BY <1>1, <1>2, <1>6, <2>1
  <2>4. 2 ^ T(k)[3] = w
    <3>1. 2 ^ 3 = 8
      BY PowersAre
    <3>2. T(k)[3] = 3 /\ w = 8
      BY <2>1, <2>2
    <3>3. QED
      BY <3>1, <3>2, Zenon
  <2>5. n * w = 32 /\ x - T(k)[1] < n * w /\ a + n <= 30 /\ T(k)[2] = 256 + a
    BY <1>6, <2>1, <2>2
  <2>6. \A q \in 0 .. n - 1 : /\ Reader!LengthBase[a + q] = T(k)[1] + w * q
                            /\ Reader!LengthExtra[a + q] = T(k)[3]
    BY <2>1, <2>2, LengthTables
  <2>7. T(k)[3] \in Nat
    BY <2>2
  <2>8. IsBranch(k, n, w, a, x)
    BY <2>2, <2>3, <2>4, <2>5, <2>6, <2>7 DEF IsBranch, T
  <2>9. QED
    BY <2>8, LengthRowOf
<1>7. CASE 67 <= x /\ x < 131
  <2>1. PICK k \in 1 .. 7, n \in Nat, w \in Nat \ {0}, a \in 1 .. 29 :
          k = 5 /\ n = 4 /\ w = 16 /\ a = 21
    OBVIOUS
  <2>2. T(k)[1] = 67 /\ T(k)[2] = 277 /\ T(k)[3] = 4
    BY <1>1, <2>1
  <2>3. T(k)[1] <= x /\ \A j \in 1 .. 7 : j > k => T(j)[1] > x
    BY <1>1, <1>2, <1>7, <2>1
  <2>4. 2 ^ T(k)[3] = w
    <3>1. 2 ^ 4 = 16
      BY PowersAre
    <3>2. T(k)[3] = 4 /\ w = 16
      BY <2>1, <2>2
    <3>3. QED
      BY <3>1, <3>2, Zenon
  <2>5. n * w = 64 /\ x - T(k)[1] < n * w /\ a + n <= 30 /\ T(k)[2] = 256 + a
    BY <1>7, <2>1, <2>2
  <2>6. \A q \in 0 .. n - 1 : /\ Reader!LengthBase[a + q] = T(k)[1] + w * q
                            /\ Reader!LengthExtra[a + q] = T(k)[3]
    BY <2>1, <2>2, LengthTables
  <2>7. T(k)[3] \in Nat
    BY <2>2
  <2>8. IsBranch(k, n, w, a, x)
    BY <2>2, <2>3, <2>4, <2>5, <2>6, <2>7 DEF IsBranch, T
  <2>9. QED
    BY <2>8, LengthRowOf
<1>8. CASE 131 <= x /\ x < 258
  <2>1. PICK k \in 1 .. 7, n \in Nat, w \in Nat \ {0}, a \in 1 .. 29 :
          k = 6 /\ n = 4 /\ w = 32 /\ a = 25
    OBVIOUS
  <2>2. T(k)[1] = 131 /\ T(k)[2] = 281 /\ T(k)[3] = 5
    BY <1>1, <2>1
  <2>3. T(k)[1] <= x /\ \A j \in 1 .. 7 : j > k => T(j)[1] > x
    BY <1>1, <1>2, <1>8, <2>1
  <2>4. 2 ^ T(k)[3] = w
    <3>1. 2 ^ 5 = 32
      BY PowersAre
    <3>2. T(k)[3] = 5 /\ w = 32
      BY <2>1, <2>2
    <3>3. QED
      BY <3>1, <3>2, Zenon
  <2>5. n * w = 128 /\ x - T(k)[1] < n * w /\ a + n <= 30 /\ T(k)[2] = 256 + a
    BY <1>8, <2>1, <2>2
  <2>6. \A q \in 0 .. n - 1 : /\ Reader!LengthBase[a + q] = T(k)[1] + w * q
                            /\ Reader!LengthExtra[a + q] = T(k)[3]
    BY <2>1, <2>2, LengthTables
  <2>7. T(k)[3] \in Nat
    BY <2>2
  <2>8. IsBranch(k, n, w, a, x)
    BY <2>2, <2>3, <2>4, <2>5, <2>6, <2>7 DEF IsBranch, T
  <2>9. QED
    BY <2>8, LengthRowOf
<1>9. CASE 258 <= x /\ x < 259
  <2>1. PICK k \in 1 .. 7, n \in Nat, w \in Nat \ {0}, a \in 1 .. 29 :
          k = 7 /\ n = 1 /\ w = 1 /\ a = 29
    OBVIOUS
  <2>2. T(k)[1] = 258 /\ T(k)[2] = 285 /\ T(k)[3] = 0
    BY <1>1, <2>1
  <2>3. T(k)[1] <= x /\ \A j \in 1 .. 7 : j > k => T(j)[1] > x
    BY <1>1, <1>2, <1>9, <2>1
  <2>4. 2 ^ T(k)[3] = w
    <3>1. 2 ^ 0 = 1
      BY PowersAre
    <3>2. T(k)[3] = 0 /\ w = 1
      BY <2>1, <2>2
    <3>3. QED
      BY <3>1, <3>2, Zenon
  <2>5. n * w = 1 /\ x - T(k)[1] < n * w /\ a + n <= 30 /\ T(k)[2] = 256 + a
    BY <1>9, <2>1, <2>2
  <2>6. \A q \in 0 .. n - 1 : /\ Reader!LengthBase[a + q] = T(k)[1] + w * q
                            /\ Reader!LengthExtra[a + q] = T(k)[3]
    BY <2>1, <2>2, LengthTables
  <2>7. T(k)[3] \in Nat
    BY <2>2
  <2>8. IsBranch(k, n, w, a, x)
    BY <2>2, <2>3, <2>4, <2>5, <2>6, <2>7 DEF IsBranch, T
  <2>9. QED
    BY <2>8, LengthRowOf
<1>10. QED
  BY <1>3, <1>4, <1>5, <1>6, <1>7, <1>8, <1>9

\* Branch k of the table of distances.
IsDistanceBranch(k, n, w, a, x) ==
  LET from == distance_div[k][2] IN
  /\ \A j \in 1 .. 14 : distance_div[j][2] <= x <=> j <= k
  /\ w = 2 ^ (k - 1) /\ x - from < n * w /\ from \in Nat /\ from <= x
  /\ distance_div[k][1] = a /\ a + n <= 30
  /\ \A q \in 0 .. n - 1 : /\ Reader!DistanceBase[(a + q) + 1] = from + w * q
                           /\ Reader!DistanceExtra(a + q) = k - 1

LEMMA DistanceRowOf ==
  ASSUME NEW x \in Nat, NEW k \in 1 .. 14, NEW n \in Nat, NEW w \in Nat \ {0},
         NEW a \in 0 .. 29, IsDistanceBranch(k, n, w, a, x)
  PROVE  IsDistanceRow(distance_row(x), x)
<1> DEFINE from == distance_div[k][2]
           S == {j \in 1 .. 14 : distance_div[j][2] <= x}
<1>1. /\ \A j \in 1 .. 14 : distance_div[j][2] <= x <=> j <= k
      /\ w = 2 ^ (k - 1) /\ x - from < n * w /\ from \in Nat /\ from <= x
      /\ distance_div[k][1] = a /\ a + n <= 30
      /\ \A q \in 0 .. n - 1 : /\ Reader!DistanceBase[(a + q) + 1] = from + w * q
                               /\ Reader!DistanceExtra(a + q) = k - 1
  BY DEF IsDistanceBranch
<1>2. Cardinality(S) = k
  <2>1. S = 1 .. k
    <3>1. ASSUME NEW j \in S PROVE j \in 1 .. k
      BY <1>1
    <3>2. ASSUME NEW j \in 1 .. k PROVE j \in S
      <4>1. j \in 1 .. 14 /\ j <= k
        OBVIOUS
      <4>2. distance_div[j][2] <= x
        BY <1>1, <4>1
      <4>3. QED
        BY <4>1, <4>2
    <3>3. QED
      BY <3>1, <3>2
  <2>2. PICK c \in Int, d \in Int : c = 1 /\ d = k
    OBVIOUS
  <2>3. c <= d + 1
    BY <2>2
  <2>4. Cardinality(c .. d) = d - c + 1
    BY <2>3, SizeOfInterval
  <2> HIDE DEF S
  <2>5. QED
    BY <2>1, <2>2, <2>4
<1>3. PICK y \in Nat : y = x - from
  BY <1>1
<1>4. PICK q \in 0 .. n - 1, e \in Nat : q = y \div w /\ e = y % w /\ e < w /\ q * w + e = y
  <2>1. y < n * w
    BY <1>1, <1>3
  <2>2. QED
    BY <2>1, QuotientWithin
<1> DEFINE r == distance_row(x)
<1>5. r = <<a + y \div w, k - 1, y % w>>
  <2>1. r = LET b == Cardinality(S) - 1
                over == x - distance_div[b + 1][2]
            IN  <<distance_div[b + 1][1] + over \div 2 ^ b, b, over % 2 ^ b>>
    BY Zenon DEF distance_row
  <2>2. PICK b \in Nat : b = k - 1 /\ b + 1 = k
    OBVIOUS
  <2>3. r = <<distance_div[k][1] + (x - from) \div 2 ^ (k - 1), k - 1,
              (x - from) % 2 ^ (k - 1)>>
    <3> HIDE DEF S, r
    <3>1. Cardinality(S) - 1 = b
      BY <1>2, <2>2
    <3>2. QED
      BY <2>1, <2>2, <3>1, Zenon
  <2>4. QED
    BY <1>1, <1>3, <2>3, Zenon
<1>6. r[1] = a + q /\ r[2] = k - 1 /\ r[3] = e
  BY <1>4, <1>5
<1> HIDE DEF r, S
<1>7. r[1] \in 0 .. 29 /\ r[2] \in Nat /\ r[3] \in Nat
  BY <1>1, <1>6
<1>8. Reader!DistanceBase[(a + q) + 1] = from + w * q /\ Reader!DistanceExtra(a + q) = k - 1
  BY <1>1
<1>9. from + w * q + e = x
  <2>1. PICK p \in Nat : p = q * w /\ p = w * q
    OBVIOUS
  <2>2. p + e = y
    BY <1>4, <2>1
  <2>3. QED
    BY <1>1, <1>3, <2>1, <2>2
<1>10. e < 2 ^ (k - 1)
  BY <1>1, <1>4
<1>11. IsDistanceRow(r, x)
  BY <1>6, <1>7, <1>8, <1>9, <1>10 DEF IsDistanceRow
<1>12. QED
  BY <1>11 DEF r

LEMMA DistanceRow ==
  ASSUME NEW x \in Nat, 1 <= x, x <= LZ77DictionarySize
  PROVE  IsDistanceRow(distance_row(x), x)
<1> DEFINE T(k) == distance_div[k]
<1>1. PICK k \in 1 .. 14 : \A j \in 1 .. 14 : T(j)[2] <= x <=> j <= k
  <2>1. /\ T(1)[2] = 1 /\ T(2)[2] = 5 /\ T(3)[2] = 9 /\ T(4)[2] = 17 /\ T(5)[2] = 33
        /\ T(6)[2] = 65 /\ T(7)[2] = 129 /\ T(8)[2] = 257 /\ T(9)[2] = 513 /\ T(10)[2] = 1025
        /\ T(11)[2] = 2049 /\ T(12)[2] = 4097 /\ T(13)[2] = 8193 /\ T(14)[2] = 16385
    BY SMT DEF distance_div
  <2> HIDE DEF T
  <2>2. \A j \in 1 .. 14 : \/ j = 1 \/ j = 2 \/ j = 3 \/ j = 4 \/ j = 5 \/ j = 6 \/ j = 7
                          \/ j = 8 \/ j = 9 \/ j = 10 \/ j = 11 \/ j = 12 \/ j = 13 \/ j = 14
    OBVIOUS
  <2>3. CASE 1 <= x /\ x < 5
    <3>1. PICK k \in 1 .. 14 : k = 1
      OBVIOUS
    <3>2. \A j \in 1 .. 14 : T(j)[2] <= x <=> j <= k
      BY <2>1, <2>2, <2>3, <3>1, SMT
    <3>3. QED
      BY <3>2
  <2>4. CASE 5 <= x /\ x < 9
    <3>1. PICK k \in 1 .. 14 : k = 2
      OBVIOUS
    <3>2. \A j \in 1 .. 14 : T(j)[2] <= x <=> j <= k
      BY <2>1, <2>2, <2>4, <3>1, SMT
    <3>3. QED
      BY <3>2
  <2>5. CASE 9 <= x /\ x < 17
    <3>1. PICK k \in 1 .. 14 : k = 3
      OBVIOUS
    <3>2. \A j \in 1 .. 14 : T(j)[2] <= x <=> j <= k
      BY <2>1, <2>2, <2>5, <3>1, SMT
    <3>3. QED
      BY <3>2
  <2>6. CASE 17 <= x /\ x < 33
    <3>1. PICK k \in 1 .. 14 : k = 4
      OBVIOUS
    <3>2. \A j \in 1 .. 14 : T(j)[2] <= x <=> j <= k
      BY <2>1, <2>2, <2>6, <3>1, SMT
    <3>3. QED
      BY <3>2
  <2>7. CASE 33 <= x /\ x < 65
    <3>1. PICK k \in 1 .. 14 : k = 5
      OBVIOUS
    <3>2. \A j \in 1 .. 14 : T(j)[2] <= x <=> j <= k
      BY <2>1, <2>2, <2>7, <3>1, SMT
    <3>3. QED
      BY <3>2
  <2>8. CASE 65 <= x /\ x < 129
    <3>1. PICK k \in 1 .. 14 : k = 6
      OBVIOUS
    <3>2. \A j \in 1 .. 14 : T(j)[2] <= x <=> j <= k
      BY <2>1, <2>2, <2>8, <3>1, SMT
    <3>3. QED
      BY <3>2
  <2>9. CASE 129 <= x /\ x < 257
    <3>1. PICK k \in 1 .. 14 : k = 7
      OBVIOUS
    <3>2. \A j \in 1 .. 14 : T(j)[2] <= x <=> j <= k
      BY <2>1, <2>2, <2>9, <3>1, SMT
    <3>3. QED
      BY <3>2
  <2>10. CASE 257 <= x /\ x < 513
    <3>1. PICK k \in 1 .. 14 : k = 8
      OBVIOUS
    <3>2. \A j \in 1 .. 14 : T(j)[2] <= x <=> j <= k
      BY <2>1, <2>2, <2>10, <3>1, SMT
    <3>3. QED
      BY <3>2
  <2>11. CASE 513 <= x /\ x < 1025
    <3>1. PICK k \in 1 .. 14 : k = 9
      OBVIOUS
    <3>2. \A j \in 1 .. 14 : T(j)[2] <= x <=> j <= k
      BY <2>1, <2>2, <2>11, <3>1, SMT
    <3>3. QED
      BY <3>2
  <2>12. CASE 1025 <= x /\ x < 2049
    <3>1. PICK k \in 1 .. 14 : k = 10
      OBVIOUS
    <3>2. \A j \in 1 .. 14 : T(j)[2] <= x <=> j <= k
      BY <2>1, <2>2, <2>12, <3>1, SMT
    <3>3. QED
      BY <3>2
  <2>13. CASE 2049 <= x /\ x < 4097
    <3>1. PICK k \in 1 .. 14 : k = 11
      OBVIOUS
    <3>2. \A j \in 1 .. 14 : T(j)[2] <= x <=> j <= k
      BY <2>1, <2>2, <2>13, <3>1, SMT
    <3>3. QED
      BY <3>2
  <2>14. CASE 4097 <= x /\ x < 8193
    <3>1. PICK k \in 1 .. 14 : k = 12
      OBVIOUS
    <3>2. \A j \in 1 .. 14 : T(j)[2] <= x <=> j <= k
      BY <2>1, <2>2, <2>14, <3>1, SMT
    <3>3. QED
      BY <3>2
  <2>15. CASE 8193 <= x /\ x < 16385
    <3>1. PICK k \in 1 .. 14 : k = 13
      OBVIOUS
    <3>2. \A j \in 1 .. 14 : T(j)[2] <= x <=> j <= k
      BY <2>1, <2>2, <2>15, <3>1, SMT
    <3>3. QED
      BY <3>2
  <2>16. CASE 16385 <= x
    <3>1. PICK k \in 1 .. 14 : k = 14
      OBVIOUS
    <3>2. \A j \in 1 .. 14 : T(j)[2] <= x <=> j <= k
      BY <2>1, <2>2, <2>16, <3>1, SMT
    <3>3. QED
      BY <3>2
  <2>17. QED
    BY <2>3, <2>4, <2>5, <2>6, <2>7, <2>8, <2>9, <2>10, <2>11, <2>12, <2>13, <2>14,
       <2>15, <2>16, SMT
<1>2. \A d \in Nat : Reader!DistanceExtra(d) = IF d < 4 THEN 0 ELSE d \div 2 - 1
  BY DEF Reader!DistanceExtra
<1> HIDE DEF T
<1>3. CASE k = 1
  <2>1. PICK n \in Nat, w \in Nat \ {0}, a \in 0 .. 29 : n = 4 /\ w = 1 /\ a = 0
    OBVIOUS
  <2>2. T(k)[1] = a /\ T(k)[2] = 1
    BY <1>3, <2>1, DistanceTable DEF T
  <2>3. w = 2 ^ (k - 1)
    <3>1. k - 1 = 0
      BY <1>3
    <3>2. QED
      BY <2>1, <3>1, PowerOfZero
  <2>4. x < 5
    <3>1. T(2)[2] = 2 * 2 ^ (2 - 1) + 1
      BY DistanceTable DEF T
    <3>2. 2 ^ (2 - 1) = 2
      BY PowersAre
    <3>3. T(2)[2] = 5
      BY <3>1, <3>2
    <3>4. ~ (T(2)[2] <= x)
      BY <1>1, <1>3
    <3>5. QED
      BY <3>3, <3>4
  <2>5. x - T(k)[2] < n * w /\ T(k)[2] \in Nat /\ T(k)[2] <= x /\ a + n <= 30
    BY <2>1, <2>2, <2>4
  <2>6. ASSUME NEW q \in 0 .. n - 1
        PROVE  /\ Reader!DistanceBase[(a + q) + 1] = T(k)[2] + w * q
               /\ Reader!DistanceExtra(a + q) = k - 1
    <3>1. q \in 0 .. 3 /\ a + q = q /\ T(k)[2] + w * q = q + 1
      BY <2>1, <2>2
    <3>2. Reader!DistanceBase[q + 1] = q + 1
      BY <3>1, DistanceTable
    <3>3. Reader!DistanceExtra(q) = 0
      BY <1>2, <3>1
    <3>4. k - 1 = 0
      BY <1>3
    <3>5. QED
      BY <3>1, <3>2, <3>3, <3>4
  <2>7. IsDistanceBranch(k, n, w, a, x)
    BY <1>1, <2>2, <2>3, <2>5, <2>6 DEF IsDistanceBranch, T
  <2>8. QED
    BY <2>7, DistanceRowOf
<1>4. CASE k \in 2 .. 14
  <2>1. PICK w \in Nat \ {0} : w = 2 ^ (k - 1) /\ 2 ^ ((k + 1) - 1) = 2 * w
    <3>1. k - 1 \in Nat /\ (k - 1) + 1 = (k + 1) - 1
      BY <1>4
    <3>2. QED
      BY <3>1, PowerOfTwo
  <2>2. PICK n \in Nat, a \in 0 .. 29 : n = 2 /\ a = 2 * k
    BY <1>4
  <2>3. /\ T(k)[1] = a /\ T(k)[2] = 2 * w + 1
        /\ Reader!DistanceBase[2 * k + 1] = 2 * w + 1
        /\ Reader!DistanceBase[2 * k + 2] = 3 * w + 1
    BY <1>4, <2>1, <2>2, DistanceTable DEF T
  <2>4. x <= 4 * w
    <3>1. CASE k = 14
      <4>1. 4 * w = LZ77DictionarySize
        <5>1. k - 1 = 13
          BY <3>1
        <5>2. 2 ^ 13 = 8192
          BY PowersAre, SMT
        <5>3. QED
          BY <2>1, <5>1, <5>2, SMT DEF LZ77DictionarySize
      <4>2. QED
        BY <4>1
    <3>2. CASE k # 14
      <4>1. k + 1 \in 2 .. 14 /\ ~ (k + 1 <= k)
        BY <1>4, <3>2
      <4>2. T(k + 1)[2] = 2 * 2 ^ ((k + 1) - 1) + 1
        BY <4>1, DistanceTable DEF T
      <4>3. ~ (T(k + 1)[2] <= x)
        BY <1>1, <4>1
      <4>4. QED
        BY <2>1, <4>2, <4>3
    <3>3. QED
      BY <3>1, <3>2
  <2>5. /\ x - T(k)[2] < n * w /\ T(k)[2] \in Nat /\ a + n <= 30
    BY <1>4, <2>2, <2>3, <2>4
  <2>6. T(k)[2] <= x
    BY <1>1
  <2>7. ASSUME NEW q \in 0 .. n - 1
        PROVE  /\ Reader!DistanceBase[(a + q) + 1] = T(k)[2] + w * q
               /\ Reader!DistanceExtra(a + q) = k - 1
    <3>1. q = 0 \/ q = 1
      BY <2>2
    <3>2. CASE q = 0
      <4>1. a + q = 2 * k /\ T(k)[2] + w * q = 2 * w + 1
        BY <2>2, <2>3, <3>2
      <4>2. Reader!DistanceExtra(2 * k) = k - 1
        <5>1. 2 * k \in Nat /\ ~ (2 * k < 4) /\ (2 * k) \div 2 = k
          BY <1>4
        <5>2. QED
          BY <1>2, <5>1
      <4>3. QED
        BY <2>3, <4>1, <4>2
    <3>3. CASE q = 1
      <4>1. a + q = 2 * k + 1 /\ T(k)[2] + w * q = 3 * w + 1 /\ (a + q) + 1 = 2 * k + 2
        BY <2>2, <2>3, <3>3
      <4>2. Reader!DistanceExtra(2 * k + 1) = k - 1
        <5>1. 2 * k + 1 \in Nat /\ ~ (2 * k + 1 < 4) /\ (2 * k + 1) \div 2 = k
          BY <1>4
        <5>2. QED
          BY <1>2, <5>1
      <4>3. QED
        BY <2>3, <4>1, <4>2
    <3>4. QED
      BY <3>1, <3>2, <3>3
  <2>8. IsDistanceBranch(k, n, w, a, x)
    BY <1>1, <2>1, <2>3, <2>5, <2>6, <2>7 DEF IsDistanceBranch, T
  <2>9. QED
    BY <2>8, DistanceRowOf
<1>5. QED
  BY <1>3, <1>4

-------------------------------------------------------------------------------
(* The sorting of the codes.                                               *)

\* d comes before c.
Precedes(bucket, d, c) == bucket[d] < bucket[c] \/ (bucket[d] = bucket[c] /\ d < c)

Earlier(bucket, S, c) == {d \in S : Precedes(bucket, d, c)}

LEMMA EarlierIs ==
  ASSUME NEW M \in Nat, NEW bucket \in [0 .. M - 1 -> Nat],
         NEW S, S \subseteq 0 .. M - 1
  PROVE  /\ \A c \in S : Cardinality(Earlier(bucket, S, c)) \in 0 .. Cardinality(S) - 1
         /\ \A c, d \in S : Precedes(bucket, d, c) =>
              Cardinality(Earlier(bucket, S, d)) < Cardinality(Earlier(bucket, S, c))
<1> DEFINE E(c) == Earlier(bucket, S, c)
<1>1. IsFiniteSet(S) /\ Cardinality(S) \in Nat
  BY UsedIs, FS_Subset, FS_CardinalityType
<1>2. ASSUME NEW c \in S
      PROVE  IsFiniteSet(E(c)) /\ Cardinality(E(c)) \in Nat
  <2>1. E(c) \subseteq S
    BY DEF Earlier
  <2>2. QED
    BY <1>1, <2>1, FS_Subset, FS_CardinalityType
<1>3. ASSUME NEW c \in S
      PROVE  c \notin E(c)
  <2>1. c \in 0 .. M - 1 /\ bucket[c] \in Nat
    OBVIOUS
  <2>2. ~ Precedes(bucket, c, c)
    BY <2>1 DEF Precedes
  <2>3. QED
    BY <2>2 DEF Earlier
<1>4. ASSUME NEW c \in S
      PROVE  Cardinality(E(c)) \in 0 .. Cardinality(S) - 1
  <2>1. E(c) \subseteq S \ {c}
    BY <1>3 DEF Earlier
  <2>2. IsFiniteSet(S \ {c}) /\ Cardinality(S \ {c}) = Cardinality(S) - 1
    BY <1>1, FS_RemoveElement
  <2>3. Cardinality(E(c)) <= Cardinality(S \ {c})
    BY <2>1, <2>2, FS_Subset
  <2>4. QED
    BY <1>1, <1>2, <2>2, <2>3
<1>5. ASSUME NEW c \in S, NEW d \in S, Precedes(bucket, d, c)
      PROVE  Cardinality(E(d)) < Cardinality(E(c))
  <2>1. E(d) \cup {d} \subseteq E(c)
    <3>1. ASSUME NEW e \in E(d)
          PROVE  e \in E(c)
      <4>1. e \in S /\ Precedes(bucket, e, d)
        BY DEF Earlier
      <4>2. /\ e \in 0 .. M - 1 /\ bucket[e] \in Nat
            /\ d \in 0 .. M - 1 /\ bucket[d] \in Nat
            /\ c \in 0 .. M - 1 /\ bucket[c] \in Nat
        BY <4>1
      <4>3. Precedes(bucket, e, c)
        BY <1>5, <4>1, <4>2 DEF Precedes
      <4>4. QED
        BY <4>1, <4>3 DEF Earlier
    <3>2. d \in E(c)
      BY <1>5 DEF Earlier
    <3>3. QED
      BY <3>1, <3>2
  <2>2. Cardinality(E(d) \cup {d}) = Cardinality(E(d)) + 1
    BY <1>2, <1>3, FS_AddElement
  <2>3. Cardinality(E(d) \cup {d}) <= Cardinality(E(c))
    BY <1>2, <2>1, FS_Subset
  <2>4. QED
    BY <1>2, <2>2, <2>3
<1>6. QED
  BY <1>4, <1>5

\* One of them follows the other.
LEMMA Ranked ==
  ASSUME NEW M \in Nat, NEW bucket \in [0 .. M - 1 -> Nat],
         NEW S, S \subseteq 0 .. M - 1
  PROVE  \A r \in 0 .. Cardinality(S) - 1 :
           \E c \in S : Cardinality(Earlier(bucket, S, c)) = r
<1> DEFINE n == Cardinality(S)
           f == [c \in S |-> Cardinality(Earlier(bucket, S, c))]
           T == 0 .. n - 1
<1>1. IsFiniteSet(S) /\ n \in Nat
  BY UsedIs, FS_Subset, FS_CardinalityType
<1>2. IsFiniteSet(T) /\ Cardinality(T) = n
  <2> HIDE DEF n
  <2>1. 0 \in Int /\ n - 1 \in Int
    BY <1>1
  <2>2. QED
    BY <1>1, <2>1, FS_Interval
<1>3. \A c \in S : f[c] \in T
  BY EarlierIs
<1>4. \A c, d \in S : Precedes(bucket, d, c) => f[d] < f[c]
  BY EarlierIs
<1>5. \A c, d \in S : c # d => Precedes(bucket, d, c) \/ Precedes(bucket, c, d)
  <2>1. \A c \in S : c \in 0 .. M - 1 /\ bucket[c] \in Nat
    OBVIOUS
  <2>2. QED
    BY <2>1 DEF Precedes
<1>6. f \in [S -> T]
  BY <1>3
<1> HIDE DEF f, T
<1>7. \A c, d \in S : f[c] = f[d] => c = d
  <2>1. SUFFICES ASSUME NEW c \in S, NEW d \in S, f[c] = f[d], c # d PROVE FALSE
    OBVIOUS
  <2>2. f[d] < f[c] \/ f[c] < f[d]
    BY <1>4, <1>5, <2>1
  <2>3. f[c] \in Int /\ f[d] \in Int
    BY <1>3 DEF T
  <2>4. QED
    BY <2>1, <2>2, <2>3
<1>8. f \in Injection(S, T)
  <2>1. IsInjective(f)
    BY <1>6, <1>7 DEF IsInjective
  <2>2. QED
    BY <1>6, <2>1 DEF Injection
<1>9. f \in Surjection(S, T)
  BY <1>2, <1>8, FS_Injection
<1>10. \A r \in T : \E c \in S : f[c] = r
  BY <1>9 DEF Surjection
<1>11. QED
  BY <1>10 DEF f, T

LEMMA StableSorted ==
  ASSUME NEW M \in Nat, NEW bucket \in [0 .. M - 1 -> Nat],
         index(bucket) \subseteq 0 .. M - 1
  PROVE  stable(bucket) \in sorted(bucket, index(bucket))
<1> DEFINE S == index(bucket)
           n == Cardinality(S)
           Rank(c) == Cardinality(Earlier(bucket, S, c))
           order == [k \in 1 .. n |-> CHOOSE c \in S : Rank(c) = k - 1]
<1>1. stable(bucket) = order
  BY DEF stable, Earlier, Precedes
<1>2. IsFiniteSet(S) /\ n \in Nat
  BY UsedIs, FS_Subset, FS_CardinalityType
<1>3. /\ \A c \in S : Rank(c) \in 0 .. n - 1
      /\ \A c, d \in S : Precedes(bucket, d, c) => Rank(d) < Rank(c)
  BY EarlierIs
<1>4. \A r \in 0 .. n - 1 : \E c \in S : Rank(c) = r
  BY Ranked
<1>5. \A c \in S : c \in 0 .. M - 1 /\ bucket[c] \in Nat
  OBVIOUS
<1> HIDE DEF S, n, Rank
<1>6. \A k \in 1 .. n : order[k] \in S /\ Rank(order[k]) = k - 1
  <2>1. SUFFICES ASSUME NEW k \in 1 .. n
                 PROVE  order[k] \in S /\ Rank(order[k]) = k - 1
    OBVIOUS
  <2>2. \E c \in S : Rank(c) = k - 1
    BY <1>2, <1>4
  <2>3. order[k] = CHOOSE c \in S : Rank(c) = k - 1
    OBVIOUS
  <2>4. QED
    BY <2>2, <2>3
<1>7. order \in [1 .. n -> S] /\ DOMAIN order = 1 .. n
  BY <1>6
<1> HIDE DEF order
<1>8. \A i, j \in 1 .. n : i # j => order[i] # order[j]
  <2>1. SUFFICES ASSUME NEW i \in 1 .. n, NEW j \in 1 .. n, i # j, order[i] = order[j]
                 PROVE  FALSE
    OBVIOUS
  <2>2. Rank(order[i]) = i - 1 /\ Rank(order[j]) = j - 1
    BY <1>6
  <2>3. QED
    BY <2>1, <2>2
<1>9. \A j, k \in DOMAIN order : j < k => bucket[order[j]] <= bucket[order[k]]
  <2>1. SUFFICES ASSUME NEW j \in 1 .. n, NEW k \in 1 .. n, j < k
                 PROVE  bucket[order[j]] <= bucket[order[k]]
    BY <1>7
  <2>2. /\ order[j] \in S /\ Rank(order[j]) = j - 1
        /\ order[k] \in S /\ Rank(order[k]) = k - 1
    BY <1>6
  <2>3. ~ Precedes(bucket, order[k], order[j])
    <3>1. SUFFICES ASSUME Precedes(bucket, order[k], order[j]) PROVE FALSE
      OBVIOUS
    <3>2. Rank(order[k]) < Rank(order[j])
      BY <1>3, <2>2, <3>1
    <3>3. QED
      BY <2>1, <2>2, <3>2
  <2>4. bucket[order[j]] \in Nat /\ bucket[order[k]] \in Nat
    BY <1>5, <2>2
  <2>5. QED
    BY <2>3, <2>4 DEF Precedes
<1>10. order \in SetToSeqs(S)
  BY <1>7, <1>8 DEF SetToSeqs, n
<1>11. QED
  BY <1>1, <1>9, <1>10 DEF sorted, S

-------------------------------------------------------------------------------
(* The items.                                                              *)

\* A field of n bits for x.
Fits(x, n) == x \in Nat /\ n \in Nat /\ x < 2 ^ n

\* What the tables say of an item: the code of the symbol it begins with, and
\* its extra bits.
IsRow(r, item) ==
  /\ Fits(r[3], r[2])
  /\ item.type = "literal" => /\ r[1] = item.val /\ r[1] \in 0 .. 255
                              /\ r[2] = 0 /\ item = [type |-> "literal", val |-> r[1]]
  /\ item.type = "eob" => /\ r[1] = 256 /\ r[2] = 0
                          /\ item = [type |-> "eob", val |-> 256]
  /\ item.type = "length" => /\ IsLengthRow(r, item.val)
                             /\ item = [type |-> "length", val |-> item.val]
  /\ item.type = "distance" => /\ IsDistanceRow(r, item.val)
                               /\ item = [type |-> "distance", val |-> item.val]

LEMMA RowIs ==
  ASSUME NEW item \in LZ77Items
  PROVE  /\ IsRow(row(item), item)
         /\ item.type \in {"literal", "length", "distance", "eob"}
<1>1. CASE item \in [type : {"literal"}, val : 0 .. 255]
  <2>1. item.type = "literal" /\ item.val \in 0 .. 255
        /\ item = [type |-> "literal", val |-> item.val]
    BY <1>1
  <2>2. row(item) = <<item.val, 0, 0>>
    BY <2>1 DEF row, literal_row
  <2>3. Fits(0, 0)
    BY PowersAre DEF Fits
  <2>4. QED
    BY <2>1, <2>2, <2>3 DEF IsRow
<1>2. CASE item \in [type : {"length"}, val : 3 .. 258]
  <2>1. item.type = "length" /\ item.val \in 3 .. 258
        /\ item = [type |-> "length", val |-> item.val]
    BY <1>2
  <2>2. row(item) = length_row(item.val)
    BY <2>1 DEF row
  <2>3. IsLengthRow(length_row(item.val), item.val)
    BY <2>1, LengthRow
  <2>4. Fits(length_row(item.val)[3], length_row(item.val)[2])
    BY <2>3 DEF Fits, IsLengthRow
  <2>5. QED
    BY <2>1, <2>2, <2>3, <2>4 DEF IsRow
<1>3. CASE item \in [type : {"distance"}, val : 1 .. LZ77DictionarySize]
  <2>1. /\ item.type = "distance"
        /\ item.val \in Nat /\ 1 <= item.val /\ item.val <= LZ77DictionarySize
        /\ item = [type |-> "distance", val |-> item.val]
    <3>1. LZ77DictionarySize \in Nat
      BY SMT DEF LZ77DictionarySize
    <3>2. QED
      BY <1>3, <3>1
  <2>2. row(item) = distance_row(item.val)
    BY <2>1 DEF row
  <2>3. IsDistanceRow(distance_row(item.val), item.val)
    BY <2>1, DistanceRow
  <2>4. Fits(distance_row(item.val)[3], distance_row(item.val)[2])
    BY <2>3 DEF Fits, IsDistanceRow
  <2>5. QED
    BY <2>1, <2>2, <2>3, <2>4 DEF IsRow
<1>4. CASE item \in [type : {"eob"}, val : {256}]
  <2>1. item.type = "eob" /\ item.val = 256
        /\ item = [type |-> "eob", val |-> 256]
    BY <1>4
  <2>2. row(item) = <<256, 0, 0>>
    BY <2>1 DEF row
  <2>3. Fits(0, 0)
    BY PowersAre DEF Fits
  <2>4. QED
    BY <2>1, <2>2, <2>3 DEF IsRow
<1>5. LZ77Items = [type : {"literal"}, val : 0 .. 255]
                    \cup [type : {"length"}, val : 3 .. 258]
                    \cup [type : {"distance"}, val : 1 .. LZ77DictionarySize]
                    \cup [type : {"eob"}, val : {256}]
  BY Zenon DEF LZ77Items
<1>6. QED
  BY <1>1, <1>2, <1>3, <1>4, <1>5

\* What a block is written for.
IsBlock(s) ==
  /\ s \in Seq(LZ77Items)
  /\ \A k \in 1 .. Len(s) :
       /\ s[k].type = "length" => s[k + 1].type = "distance"
       /\ s[k].type = "distance" => k > 1 /\ s[k - 1].type = "length"
       /\ s[k].type = "eob" <=> k = Len(s)
  /\ Len(s) > 1

LEMMA ContentsAre ==
  ASSUME NEW s \in Contents
  PROVE  IsBlock(s)
<1>1. /\ s \in Seq(LZ77Items)
      /\ \A k \in DOMAIN s :
           /\ s[k].type = "length" => s[k + 1].type = "distance"
           /\ s[k].type = "distance" => k > 1 /\ s[k - 1].type = "length"
           /\ s[k].type = "eob" <=> k = Len(s)
      /\ Len(s) > 1
  BY ContentsAssumption
<1>2. DOMAIN s = 1 .. Len(s)
  BY <1>1
<1>3. QED
  BY <1>1, <1>2 DEF IsBlock

\* The symbol of an item, in the range of its tree.
LEMMA BaseIs ==
  ASSUME NEW item \in LZ77Items
  PROVE  /\ item.type # "distance" => row(item)[1] \in 0 .. 285
         /\ item.type = "distance" => row(item)[1] \in 0 .. 29
         /\ item.type \in {"literal", "length", "distance", "eob"}
  BY RowIs DEF IsRow, IsLengthRow, IsDistanceRow

LEMMA OccurrencesAre ==
  ASSUME IsBlock(items), NEW types, NEW c
  PROVE  /\ occurrences(types, c) \in Nat
         /\ \A k \in 1 .. Len(items) :
              items[k].type \in types /\ row(items[k])[1] = c => occurrences(types, c) > 0
<1> DEFINE K == {k \in DOMAIN items : items[k].type \in types /\ row(items[k])[1] = c}
<1>1. DOMAIN items = 1 .. Len(items) /\ Len(items) \in Nat
  BY DEF IsBlock
<1>2. IsFiniteSet(1 .. Len(items))
  BY <1>1, FS_Interval
<1>3. K \subseteq 1 .. Len(items)
  BY <1>1
<1>4. IsFiniteSet(K)
  BY <1>2, <1>3, FS_Subset
<1>5. Cardinality(K) \in Nat
  BY <1>4, FS_CardinalityType
<1>6. occurrences(types, c) = Cardinality(K)
  BY DEF occurrences
<1>7. ASSUME NEW k \in 1 .. Len(items), items[k].type \in types /\ row(items[k])[1] = c
      PROVE  Cardinality(K) > 0
  <2>1. k \in K
    BY <1>1, <1>7
  <2>2. Cardinality(K) # 0
    BY <1>4, <2>1, FS_EmptySet
  <2>3. QED
    BY <1>5, <2>2
<1>8. QED
  BY <1>5, <1>6, <1>7

\* Every symbol of the items occurs, in the bucket of its tree.
LEMMA BucketsAre ==
  ASSUME IsBlock(items)
  PROVE  /\ lel_bucket \in [0 .. 285 -> Nat] /\ 256 \in used(lel_bucket)
         /\ dis_bucket \in [0 .. 29 -> Nat] /\ used(dis_bucket) # {}
         /\ \A k \in 1 .. Len(items) :
              IF items[k].type = "distance" THEN row(items[k])[1] \in used(dis_bucket)
              ELSE row(items[k])[1] \in used(lel_bucket)
<1> DEFINE ls == {"literal", "length", "eob"}
           ds == {"distance"}
<1>1. \A types, c : occurrences(types, c) \in Nat
  BY OccurrencesAre
<1>2. lel_bucket \in [0 .. 285 -> Nat]
  BY <1>1 DEF lel_bucket
<1>3. 256 \in used(lel_bucket)
  <2>1. lel_bucket[256] = occurrences(ls, 256) + 1
    BY DEF lel_bucket
  <2>2. QED
    BY <1>1, <1>2, <2>1 DEF used
<1>4. dis_bucket \in [0 .. 29 -> Nat]
  BY <1>1 DEF dis_bucket
<1>5. ASSUME NEW k \in 1 .. Len(items)
      PROVE  IF items[k].type = "distance" THEN row(items[k])[1] \in used(dis_bucket)
             ELSE row(items[k])[1] \in used(lel_bucket)
  <2> DEFINE c == row(items[k])[1]
  <2>1. items[k] \in LZ77Items /\ DOMAIN items = 1 .. Len(items)
    BY DEF IsBlock
  <2>2. CASE items[k].type = "distance"
    <3>1. c \in 0 .. 29
      BY <2>1, <2>2, BaseIs
    <3>2. occurrences(ds, c) > 0
      BY <2>2, OccurrencesAre
    <3>3. dis_bucket[c] = occurrences(ds, c)
      BY <2>1, <2>2, <3>1 DEF dis_bucket
    <3>4. QED
      BY <1>4, <2>2, <3>1, <3>2, <3>3 DEF used
  <2>3. CASE items[k].type # "distance"
    <3>1. c \in 0 .. 285 /\ items[k].type \in ls
      BY <2>1, <2>3, BaseIs
    <3>2. occurrences(ls, c) > 0 /\ occurrences(ls, c) \in Nat
      BY <1>1, <3>1, OccurrencesAre
    <3>3. lel_bucket[c] = occurrences(ls, c) + (IF c = 256 THEN 1 ELSE 0)
      BY <3>1 DEF lel_bucket
    <3>4. lel_bucket[c] > 0
      BY <3>2, <3>3
    <3>5. QED
      BY <1>2, <2>3, <3>1, <3>4 DEF used
  <2>4. QED
    BY <2>2, <2>3
<1>6. used(dis_bucket) # {}
  <2>1. DOMAIN items = 1 .. Len(items)
    BY DEF IsBlock
  <2>2. CASE \A k \in DOMAIN items : items[k].type # "distance"
    <3>1. dis_bucket[0] = 1
      BY <2>2 DEF dis_bucket
    <3>2. QED
      BY <1>4, <3>1 DEF used
  <2>3. CASE \E k \in DOMAIN items : items[k].type = "distance"
    BY <1>5, <2>1, <2>3
  <2>4. QED
    BY <2>2, <2>3
<1>7. QED
  BY <1>2, <1>3, <1>4, <1>5, <1>6

-------------------------------------------------------------------------------
(* The trees.                                                              *)

\* A tree with a code for each symbol of C.
IsTree(dep, n, M, C) ==
  /\ IsComplete(dep, n, M)
  /\ C # {} /\ C \subseteq 0 .. M - 1
  /\ \A c \in C : dep[c] > 0

LEMMA TreeIs ==
  ASSUME NEW M \in Nat, M >= 2, NEW bucket \in [0 .. M - 1 -> Nat], used(bucket) # {},
         NEW n \in Nat \ {0}, M <= 2 ^ n
  PROVE  IsTree(tree(bucket, n), n, M, used(bucket))
<1> DEFINE dep == tree(bucket, n)
<1>1. used(bucket) \subseteq index(bucket) /\ index(bucket) \subseteq 0 .. M - 1
  BY IndexIs
<1>2. stable(bucket) \in sorted(bucket, index(bucket))
  BY <1>1, StableSorted
<1>3. dep = lengths(bucket, stable(bucket), n)
  BY DEF tree
<1> HIDE DEF dep
<1>4. IsComplete(dep, n, M) /\ {c \in 0 .. M - 1 : dep[c] > 0} = index(bucket)
  BY <1>2, <1>3, CalculatedIs
<1>5. QED
  BY <1>1, <1>4 DEF IsTree, dep

LEMMA PowersAbove == 19 <= 2 ^ 7 /\ 30 <= 2 ^ 15 /\ 286 <= 2 ^ 15
<1>1. PICK a \in Nat, b \in Nat : a = 2 ^ 7 /\ a = 128 /\ b = 2 ^ 15 /\ b = 32768
  BY PowersAre, SMT
<1>2. 19 <= a /\ 30 <= b /\ 286 <= b
  BY <1>1, SMT
<1>3. QED
  BY <1>1, <1>2, SMT

LEMMA TreesAre ==
  ASSUME IsBlock(items)
  PROVE  /\ IsTree(tree(lel_bucket, 15), 15, 286, used(lel_bucket))
         /\ IsTree(tree(dis_bucket, 15), 15, 30, used(dis_bucket))
<1>1. /\ lel_bucket \in [0 .. 285 -> Nat] /\ used(lel_bucket) # {}
      /\ dis_bucket \in [0 .. 29 -> Nat] /\ used(dis_bucket) # {}
  BY BucketsAre
<1>2. PICK M \in Nat, K \in Nat, n \in Nat \ {0} : M = 286 /\ K = 30 /\ n = 15
  OBVIOUS
<1>3. M <= 2 ^ n /\ K <= 2 ^ n
  BY <1>2, PowersAbove, Zenon
<1>4. 0 .. 285 = 0 .. M - 1 /\ 0 .. 29 = 0 .. K - 1 /\ M >= 2 /\ K >= 2
  BY <1>2
<1>5. lel_bucket \in [0 .. M - 1 -> Nat] /\ dis_bucket \in [0 .. K - 1 -> Nat]
  BY <1>1, <1>4, Zenon
<1>6. /\ IsTree(tree(lel_bucket, n), n, M, used(lel_bucket))
      /\ IsTree(tree(dis_bucket, n), n, K, used(dis_bucket))
  BY <1>1, <1>3, <1>4, <1>5, TreeIs
<1>7. QED
  BY <1>2, <1>6, Zenon

\* The codes of a run length code.
IsCodes(rlc) == rlc \in Seq(Nat) /\ \A k \in 1 .. Len(rlc) : rlc[k] % 32 \in 0 .. 18

LEMMA ThirdTreeIs ==
  ASSUME NEW rlc, IsCodes(rlc), Len(rlc) > 0
  PROVE  /\ IsTree(tree(rlc_bucket(rlc), 7), 7, 19, used(rlc_bucket(rlc)))
         /\ \A k \in 1 .. Len(rlc) : rlc[k] % 32 \in used(rlc_bucket(rlc))
<1> DEFINE K(c) == {k \in DOMAIN rlc : rlc[k] % 32 = c}
           b == rlc_bucket(rlc)
<1>1. DOMAIN rlc = 1 .. Len(rlc) /\ Len(rlc) \in Nat
  BY DEF IsCodes
<1>2. IsFiniteSet(1 .. Len(rlc))
  BY <1>1, FS_Interval
<1>3. \A c : IsFiniteSet(K(c)) /\ Cardinality(K(c)) \in Nat
  <2>1. SUFFICES ASSUME NEW c PROVE IsFiniteSet(K(c)) /\ Cardinality(K(c)) \in Nat
    OBVIOUS
  <2>2. K(c) \subseteq 1 .. Len(rlc)
    BY <1>1
  <2>3. IsFiniteSet(K(c))
    BY <1>2, <2>2, FS_Subset
  <2>4. QED
    BY <2>3, FS_CardinalityType
<1>4. b = [c \in 0 .. 18 |-> Cardinality(K(c))]
  BY DEF rlc_bucket
<1> HIDE DEF b
<1>5. b \in [0 .. 18 -> Nat]
  BY <1>3, <1>4
<1>6. ASSUME NEW k \in 1 .. Len(rlc)
      PROVE  rlc[k] % 32 \in used(b)
  <2> DEFINE c == rlc[k] % 32
  <2>1. c \in 0 .. 18
    BY DEF IsCodes
  <2>2. k \in K(c)
    BY <1>1
  <2>3. Cardinality(K(c)) # 0 /\ Cardinality(K(c)) \in Nat
    BY <1>3, <2>2, FS_EmptySet
  <2> HIDE DEF c
  <2>4. b[c] > 0
    <3>1. b[c] = Cardinality(K(c))
      BY <1>4, <2>1
    <3>2. QED
      BY <2>3, <3>1
  <2>5. c \in used(b)
    BY <1>5, <2>1, <2>4 DEF used
  <2>6. QED
    BY <2>5 DEF c
<1>7. used(b) # {}
  <2>1. 1 \in 1 .. Len(rlc)
    BY <1>1
  <2>2. QED
    BY <1>6, <2>1
<1>8. PICK M \in Nat, n \in Nat \ {0} : M = 19 /\ n = 7
  OBVIOUS
<1>9. M <= 2 ^ n /\ M >= 2 /\ 0 .. 18 = 0 .. M - 1
  <2>1. M <= 2 ^ n
    BY <1>8, PowersAbove, Zenon
  <2>2. QED
    BY <1>8, <2>1
<1>10. b \in [0 .. M - 1 -> Nat]
  BY <1>5, <1>9, Zenon
<1>11. IsTree(tree(b, n), n, M, used(b))
  BY <1>7, <1>9, <1>10, TreeIs
<1>12. IsTree(tree(b, 7), 7, 19, used(b))
  BY <1>8, <1>11, Zenon
<1>13. QED
  BY <1>6, <1>12 DEF b

\* The last code that has a length.
LEMMA LastCodeIs ==
  ASSUME NEW M \in Nat, NEW n \in Nat, NEW dep \in [0 .. M - 1 -> 0 .. n],
         NEW c \in 0 .. M - 1, dep[c] > 0
  PROVE  /\ last_code(dep) \in c .. M - 1 /\ dep[last_code(dep)] > 0
         /\ \A d \in 0 .. M - 1 : dep[d] > 0 => d <= last_code(dep)
<1> DEFINE S == {d \in DOMAIN dep : dep[d] > 0}
           T == {M - d : d \in S}
           A == {-1} \cup S
<1>1. DOMAIN dep = 0 .. M - 1
  OBVIOUS
<1>2. T \subseteq Nat /\ T # {}
  BY <1>1
<1>3. PICK x \in T : \A y \in T : x <= y
  BY <1>2, LeastExists
<1>4. PICK d \in S : x = M - d
  BY <1>3
<1>5. \A e \in S : e <= d
  <2>1. SUFFICES ASSUME NEW e \in S PROVE e <= d
    OBVIOUS
  <2>2. M - d <= M - e
    BY <1>3, <1>4
  <2>3. d \in Int /\ e \in Int
    BY <1>1
  <2>4. QED
    BY <2>2, <2>3
<1>6. d \in 0 .. M - 1 /\ dep[d] > 0
  BY <1>1
<1>7. A \in SUBSET Int /\ d \in A /\ \A y \in A : y <= d
  BY <1>1, <1>5, <1>6
<1>8. Max(A) = d
  BY <1>7, MaxIs
<1>9. last_code(dep) = d
  BY <1>8 DEF last_code
<1>10. c <= d
  BY <1>1, <1>5
<1>11. QED
  BY <1>1, <1>5, <1>6, <1>9, <1>10

\* What Truncated says.
IsCut(dep, n, M, K) ==
  LET t == [c \in 0 .. K - 1 |-> dep[c]] IN
  /\ IsComplete(t, n, K)
  /\ \A c \in 0 .. M - 1 :
       dep[c] > 0 => c \in 0 .. K - 1 /\ t[c] = dep[c] /\ code(t, c) = code(dep, c)

ZeroFrom(dep, K, M) == \A c \in K .. M - 1 : dep[c] = 0

LEMMA CutIs ==
  ASSUME NEW M \in Nat, NEW n \in Nat \ {0}, NEW dep, IsComplete(dep, n, M),
         NEW K \in Nat, K <= M, ZeroFrom(dep, K, M)
  PROVE  IsCut(dep, n, M, K)
<1>1. PICK t : t = [c \in 0 .. K - 1 |-> dep[c]]
  OBVIOUS
<1>2. \A c \in K .. M - 1 : dep[c] = 0
  BY DEF ZeroFrom
<1>3. /\ IsComplete(t, n, K)
      /\ \A c \in 0 .. M - 1 :
           dep[c] > 0 => c \in 0 .. K - 1 /\ t[c] = dep[c] /\ code(t, c) = code(dep, c)
  BY <1>1, <1>2, Truncated
<1>4. QED
  BY <1>1, <1>3, Zenon DEF IsCut

\* t, of K codes, stands for dep, which has codes for the symbols C.
StandsFor(t, K, dep, M, C) ==
  /\ IsComplete(t, 15, K)
  /\ \A c \in C : c \in 0 .. K - 1 /\ t[c] > 0
  /\ \A c \in 0 .. M - 1 : dep[c] > 0 =>
       c \in 0 .. K - 1 /\ t[c] = dep[c] /\ code(t, c) = code(dep, c)

\* The lengths r, of the codes from 0 on.
Received(r, K) == [c \in 0 .. K - 1 |-> r[c + 1]]
IsResized(r, K, dep, M, C, b) ==
  /\ K \in b + 1 .. M
  /\ r \in Seq(0 .. 15) /\ Len(r) = K /\ r[K] > 0
  /\ StandsFor(Received(r, K), K, dep, M, C)

\* What is sent of a tree's lengths: all but the zeros behind the last code.
LEMMA ResizedIs ==
  ASSUME NEW M \in Nat, NEW C, NEW dep, IsTree(dep, 15, M, C), NEW b \in C
  PROVE  IsResized(resized(dep), last_code(dep) + 1, dep, M, C, b)
<1> DEFINE l == last_code(dep)
           K == l + 1
           t == [c \in 0 .. K - 1 |-> dep[c]]
           r == resized(dep)
<1>1. /\ dep \in [0 .. M - 1 -> 0 .. 15] /\ IsComplete(dep, 15, M)
      /\ C \subseteq 0 .. M - 1 /\ \A c \in C : dep[c] > 0
  BY DEF IsTree, IsComplete
<1>2. b \in 0 .. M - 1 /\ dep[b] > 0
  BY <1>1
<1>3. /\ l \in b .. M - 1 /\ dep[l] > 0
      /\ \A d \in 0 .. M - 1 : dep[d] > 0 => d <= l
  BY <1>1, <1>2, LastCodeIs
<1>4. r = [i \in 1 .. l + 1 |-> dep[i - 1]]
  BY DEF resized
<1> HIDE DEF l, r
<1>5. K \in b + 1 .. M /\ K \in Nat
  BY <1>2, <1>3
<1>6. r \in [1 .. K -> 0 .. 15]
  <2>1. \A i \in 1 .. K : i - 1 \in 0 .. M - 1
    BY <1>5
  <2>2. QED
    BY <1>1, <1>4, <2>1
<1>7. r \in Seq(0 .. 15) /\ Len(r) = K
  BY <1>5, <1>6
<1>8. r[K] > 0
  <2>1. K \in 1 .. K /\ K - 1 = l
    BY <1>2, <1>3
  <2>2. QED
    BY <1>3, <1>4, <2>1
<1>9. t = [c \in 0 .. K - 1 |-> r[c + 1]]
  <2>1. \A c \in 0 .. K - 1 : r[c + 1] = dep[c]
    <3>1. \A c \in 0 .. K - 1 : c + 1 \in 1 .. K /\ (c + 1) - 1 = c
      BY <1>5
    <3>2. QED
      BY <1>4, <3>1
  <2>2. QED
    BY <2>1
<1>10. \A c \in K .. M - 1 : dep[c] = 0
  <2>1. SUFFICES ASSUME NEW c \in K .. M - 1 PROVE dep[c] = 0
    OBVIOUS
  <2>2. c \in 0 .. M - 1 /\ ~ (c <= l)
    BY <1>2, <1>3
  <2>3. dep[c] \in 0 .. 15 /\ ~ (dep[c] > 0)
    BY <1>1, <1>3, <2>2
  <2>4. QED
    BY <2>3
<1> HIDE DEF K
<1>11. ZeroFrom(dep, K, M) /\ K <= M
  BY <1>5, <1>10 DEF ZeroFrom
<1>12. /\ IsComplete(t, 15, K)
       /\ \A c \in 0 .. M - 1 : dep[c] > 0 =>
            c \in 0 .. K - 1 /\ t[c] = dep[c] /\ code(t, c) = code(dep, c)
  <2>1. IsCut(dep, 15, M, K)
    BY <1>1, <1>5, <1>11, CutIs
  <2>2. QED
    BY <2>1, Zenon DEF IsCut
<1> HIDE DEF t
<1>13. \A c \in C : c \in 0 .. K - 1 /\ t[c] > 0
  BY <1>1, <1>12
<1>14. QED
  <2>1. StandsFor(t, K, dep, M, C)
    BY <1>12, <1>13 DEF StandsFor
  <2>2. t = Received(r, K)
    BY <1>9 DEF Received
  <2>3. IsResized(r, K, dep, M, C, b)
    BY <1>5, <1>7, <1>8, <2>1, <2>2 DEF IsResized
  <2>4. QED
    BY <2>3 DEF K, l, r

-------------------------------------------------------------------------------
(* Run length codes.                                                       *)

\* What c says when the first a of the lengths src are known: the first b are.
Tells(c, src, a, b) ==
  LET x == c % 32
      y == c \div 32
  IN  /\ c \in Nat /\ a \in Nat /\ b \in Nat /\ b <= Len(src)
      /\ \/ x \in 0 .. 15 /\ y = 0 /\ b = a + 1 /\ src[b] = x
         \/ /\ x = 16 /\ y \in 0 .. 3 /\ b = a + y + 3 /\ a > 0
            /\ \A i \in a + 1 .. b : src[i] = src[a]
         \/ /\ x = 17 /\ y \in 0 .. 7 /\ b = a + y + 3
            /\ \A i \in a + 1 .. b : src[i] = 0
         \/ /\ x = 18 /\ y \in 0 .. 127 /\ b = a + y + 11
            /\ \A i \in a + 1 .. b : src[i] = 0

\* Before code k, the first p[k] lengths are known.
IsProgress(p, rlc, src, a, b) ==
  /\ rlc \in Seq(Nat)
  /\ p \in [1 .. Len(rlc) + 1 -> Nat]
  /\ p[1] = a /\ p[Len(rlc) + 1] = b
  /\ \A k \in 1 .. Len(rlc) : Tells(rlc[k], src, p[k], p[k + 1])

Encodes(rlc, src, a, b) == \E p : IsProgress(p, rlc, src, a, b)

LEMMA EncodesNone ==
  ASSUME NEW src, NEW a \in Nat
  PROVE  Encodes(<<>>, src, a, a)
<1> DEFINE p == [k \in 1 .. 1 |-> a]
<1>1. Len(<<>>) = 0 /\ <<>> \in Seq(Nat)
  OBVIOUS
<1>2. IsProgress(p, <<>>, src, a, a)
  BY <1>1 DEF IsProgress
<1>3. QED
  BY <1>2 DEF Encodes

LEMMA EncodesOne ==
  ASSUME NEW src, NEW a, NEW b, NEW c, Tells(c, src, a, b)
  PROVE  Encodes(<<c>>, src, a, b)
<1> DEFINE p == [k \in 1 .. 2 |-> IF k = 1 THEN a ELSE b]
           r == <<c>>
<1>1. c \in Nat /\ a \in Nat /\ b \in Nat
  BY DEF Tells
<1>2. r \in Seq(Nat) /\ Len(r) = 1 /\ r[1] = c
  BY <1>1
<1>3. /\ p \in [1 .. 2 -> Nat] /\ p[1] = a /\ p[2] = b
  BY <1>1
<1> HIDE DEF p, r
<1>4. IsProgress(p, r, src, a, b)
  <2>1. /\ p \in [1 .. Len(r) + 1 -> Nat] /\ p[Len(r) + 1] = b
    BY <1>2, <1>3
  <2>2. \A k \in 1 .. Len(r) : Tells(r[k], src, p[k], p[k + 1])
    <3>1. \A k \in 1 .. Len(r) : k = 1 /\ k + 1 = 2
      BY <1>2
    <3>2. Tells(r[1], src, p[1], p[2])
      BY <1>2, <1>3, Zenon
    <3>3. QED
      BY <3>1, <3>2
  <2>3. QED
    BY <1>2, <1>3, <2>1, <2>2 DEF IsProgress
<1>5. QED
  BY <1>4 DEF Encodes, r

LEMMA EncodesBoth ==
  ASSUME NEW src, NEW r, NEW s, NEW a, NEW b, NEW c,
         Encodes(r, src, a, b), Encodes(s, src, b, c)
  PROVE  Encodes(r \o s, src, a, c)
<1>1. PICK p : IsProgress(p, r, src, a, b)
  BY DEF Encodes
<1>2. PICK q : IsProgress(q, s, src, b, c)
  BY DEF Encodes
<1>3. PICK m \in Nat, n \in Nat : m = Len(r) /\ n = Len(s)
  BY <1>1, <1>2 DEF IsProgress
<1>4. /\ r \in Seq(Nat) /\ s \in Seq(Nat)
      /\ p \in [1 .. m + 1 -> Nat] /\ q \in [1 .. n + 1 -> Nat]
      /\ p[1] = a /\ p[m + 1] = b /\ q[1] = b /\ q[n + 1] = c
  BY <1>1, <1>2, <1>3 DEF IsProgress
<1>5. /\ \A k \in 1 .. m : Tells(r[k], src, p[k], p[k + 1])
      /\ \A k \in 1 .. n : Tells(s[k], src, q[k], q[k + 1])
  BY <1>1, <1>2, <1>3 DEF IsProgress
<1> DEFINE t == r \o s
           u == [k \in 1 .. m + n + 1 |-> IF k <= m + 1 THEN p[k] ELSE q[k - m]]
<1>6. /\ t \in Seq(Nat) /\ Len(t) = m + n
      /\ \A k \in 1 .. m : t[k] = r[k]
      /\ \A k \in 1 .. n : t[k + m] = s[k]
  BY <1>3, <1>4
<1>7. u \in [1 .. m + n + 1 -> Nat]
  BY <1>4
<1>8. \A k \in 1 .. m + 1 : u[k] = p[k]
  OBVIOUS
<1>9. \A k \in 1 .. n + 1 : u[k + m] = q[k]
  <2>1. SUFFICES ASSUME NEW k \in 1 .. n + 1 PROVE u[k + m] = q[k]
    OBVIOUS
  <2>2. k + m \in 1 .. m + n + 1 /\ (k + m) - m = k
    OBVIOUS
  <2>3. CASE k = 1
    <3>1. k + m <= m + 1 /\ p[k + m] = q[k]
      BY <1>4, <2>3
    <3>2. QED
      BY <2>2, <3>1
  <2>4. CASE k # 1
    <3>1. ~ (k + m <= m + 1)
      BY <2>4
    <3>2. QED
      BY <2>2, <3>1
  <2>5. QED
    BY <2>3, <2>4
<1> HIDE DEF t, u
<1>10. ASSUME NEW k \in 1 .. m + n
       PROVE  Tells(t[k], src, u[k], u[k + 1])
  <2>1. CASE k <= m
    <3>1. k \in 1 .. m /\ k \in 1 .. m + 1 /\ k + 1 \in 1 .. m + 1
      BY <2>1
    <3>2. t[k] = r[k] /\ u[k] = p[k] /\ u[k + 1] = p[k + 1]
      BY <1>6, <1>8, <3>1
    <3>3. QED
      BY <1>5, <3>1, <3>2
  <2>2. CASE ~ (k <= m)
    <3>1. PICK j \in 1 .. n : k = j + m
      <4>1. k - m \in 1 .. n /\ k = (k - m) + m
        BY <2>2
      <4>2. QED
        BY <4>1
    <3>2. j \in 1 .. n + 1 /\ j + 1 \in 1 .. n + 1 /\ k + 1 = (j + 1) + m
      BY <3>1
    <3>3. t[k] = s[j] /\ u[k] = q[j] /\ u[k + 1] = q[j + 1]
      BY <1>6, <1>9, <3>1, <3>2
    <3>4. QED
      BY <1>5, <3>3
  <2>3. QED
    BY <2>1, <2>2
<1>11. u[1] = a /\ u[m + n + 1] = c
  <2>1. 1 \in 1 .. m + 1 /\ n + 1 \in 1 .. n + 1 /\ m + n + 1 = (n + 1) + m
    OBVIOUS
  <2>2. u[1] = p[1] /\ u[(n + 1) + m] = q[n + 1]
    BY <1>8, <1>9, <2>1
  <2>3. QED
    BY <1>4, <2>1, <2>2
<1>12. IsProgress(u, t, src, a, c)
  BY <1>6, <1>7, <1>10, <1>11 DEF IsProgress
<1>13. QED
  BY <1>12 DEF Encodes, t

\* t has the lengths src from d on.
HasWithin(t, src, d) ==
  /\ d \in Nat /\ Len(src) \in Nat /\ Len(t) \in Nat /\ Len(src) + d <= Len(t)
  /\ \A i \in 1 .. Len(src) : t[i + d] = src[i]

LEMMA TellsMoved ==
  ASSUME NEW t, NEW src, NEW d, HasWithin(t, src, d), NEW c, NEW a, NEW b,
         Tells(c, src, a, b)
  PROVE  Tells(c, t, a + d, b + d)
<1>1. /\ d \in Nat /\ Len(src) \in Nat /\ Len(t) \in Nat /\ Len(src) + d <= Len(t)
      /\ \A i \in 1 .. Len(src) : t[i + d] = src[i]
  BY DEF HasWithin
<1>2. PICK x, y : x = c % 32 /\ y = c \div 32
  OBVIOUS
<1>3. /\ c \in Nat /\ a \in Nat /\ b \in Nat /\ b <= Len(src)
      /\ \/ x \in 0 .. 15 /\ y = 0 /\ b = a + 1 /\ src[b] = x
         \/ /\ x = 16 /\ y \in 0 .. 3 /\ b = a + y + 3 /\ a > 0
            /\ \A i \in a + 1 .. b : src[i] = src[a]
         \/ /\ x = 17 /\ y \in 0 .. 7 /\ b = a + y + 3
            /\ \A i \in a + 1 .. b : src[i] = 0
         \/ /\ x = 18 /\ y \in 0 .. 127 /\ b = a + y + 11
            /\ \A i \in a + 1 .. b : src[i] = 0
  BY <1>2 DEF Tells
<1>4. a + d \in Nat /\ b + d \in Nat /\ b + d <= Len(t)
  BY <1>1, <1>3
<1>5. \A i \in (a + d) + 1 .. b + d :
        i - d \in a + 1 .. b /\ i - d \in 1 .. Len(src) /\ t[i] = src[i - d]
  <2>1. SUFFICES ASSUME NEW i \in (a + d) + 1 .. b + d
                 PROVE  i - d \in a + 1 .. b /\ i - d \in 1 .. Len(src) /\ t[i] = src[i - d]
    OBVIOUS
  <2>2. i - d \in a + 1 .. b /\ i - d \in 1 .. Len(src) /\ (i - d) + d = i
    BY <1>1, <1>3
  <2>3. QED
    BY <1>1, <2>2
<1>6. a > 0 /\ b > a => t[a + d] = src[a]
  <2>1. a > 0 /\ b > a => a \in 1 .. Len(src)
    BY <1>1, <1>3
  <2>2. QED
    BY <1>1, <2>1
<1>7. CASE x \in 0 .. 15 /\ y = 0 /\ b = a + 1 /\ src[b] = x
  <2>1. b + d \in (a + d) + 1 .. b + d /\ (b + d) - d = b
    BY <1>1, <1>3, <1>7
  <2>2. t[b + d] = x /\ b + d = (a + d) + 1
    BY <1>1, <1>3, <1>5, <1>7, <2>1
  <2>3. QED
    BY <1>2, <1>3, <1>4, <1>7, <2>2 DEF Tells
<1>8. CASE /\ x = 16 /\ y \in 0 .. 3 /\ b = a + y + 3 /\ a > 0
           /\ \A i \in a + 1 .. b : src[i] = src[a]
  <2>1. b > a /\ b + d = (a + d) + y + 3 /\ a + d > 0
    BY <1>1, <1>3, <1>8
  <2>2. \A i \in (a + d) + 1 .. b + d : t[i] = t[a + d]
    BY <1>5, <1>6, <1>8, <2>1
  <2>3. QED
    BY <1>2, <1>3, <1>4, <1>8, <2>1, <2>2 DEF Tells
<1>9. CASE /\ x = 17 /\ y \in 0 .. 7 /\ b = a + y + 3
           /\ \A i \in a + 1 .. b : src[i] = 0
  <2>1. b + d = (a + d) + y + 3
    BY <1>1, <1>3, <1>9
  <2>2. \A i \in (a + d) + 1 .. b + d : t[i] = 0
    BY <1>5, <1>9
  <2>3. QED
    BY <1>2, <1>3, <1>4, <1>9, <2>1, <2>2 DEF Tells
<1>10. CASE /\ x = 18 /\ y \in 0 .. 127 /\ b = a + y + 11
            /\ \A i \in a + 1 .. b : src[i] = 0
  <2>1. b + d = (a + d) + y + 11
    BY <1>1, <1>3, <1>10
  <2>2. \A i \in (a + d) + 1 .. b + d : t[i] = 0
    BY <1>5, <1>10
  <2>3. QED
    BY <1>2, <1>3, <1>4, <1>10, <2>1, <2>2 DEF Tells
<1>11. QED
  BY <1>3, <1>7, <1>8, <1>9, <1>10

LEMMA EncodesMoved ==
  ASSUME NEW t, NEW src, NEW d, HasWithin(t, src, d), NEW rlc, NEW a, NEW b,
         Encodes(rlc, src, a, b)
  PROVE  Encodes(rlc, t, a + d, b + d)
<1>1. PICK p : IsProgress(p, rlc, src, a, b)
  BY DEF Encodes
<1>2. /\ rlc \in Seq(Nat)
      /\ p \in [1 .. Len(rlc) + 1 -> Nat]
      /\ p[1] = a /\ p[Len(rlc) + 1] = b
      /\ \A k \in 1 .. Len(rlc) : Tells(rlc[k], src, p[k], p[k + 1])
  BY <1>1 DEF IsProgress
<1>3. d \in Nat /\ Len(rlc) \in Nat
  BY <1>2 DEF HasWithin
<1> DEFINE q == [k \in 1 .. Len(rlc) + 1 |-> p[k] + d]
<1>4. q \in [1 .. Len(rlc) + 1 -> Nat] /\ q[1] = a + d /\ q[Len(rlc) + 1] = b + d
  BY <1>2, <1>3
<1>5. ASSUME NEW k \in 1 .. Len(rlc)
      PROVE  Tells(rlc[k], t, q[k], q[k + 1])
  <2>1. k \in 1 .. Len(rlc) + 1 /\ k + 1 \in 1 .. Len(rlc) + 1
    BY <1>3
  <2>2. q[k] = p[k] + d /\ q[k + 1] = p[k + 1] + d
    BY <2>1
  <2>3. Tells(rlc[k], src, p[k], p[k + 1])
    BY <1>2
  <2>4. Tells(rlc[k], t, p[k] + d, p[k + 1] + d)
    BY <2>3, TellsMoved
  <2>5. QED
    BY <2>2, <2>4, Zenon
<1> HIDE DEF q
<1>6. IsProgress(q, rlc, t, a + d, b + d)
  BY <1>2, <1>4, <1>5 DEF IsProgress
<1>7. QED
  BY <1>6 DEF Encodes

\* A recursive definition of sequences: in R, a piece before an earlier value.
IsRecursion(f, D, R, base, piece, prev) ==
  f = [m \in D |-> IF m \in R THEN piece[m] \o f[prev[m]] ELSE base[m]]

Descends(D, R, prev, rank, n) ==
  \A m \in D : /\ rank[m] \in 0 .. n
               /\ m \in R => prev[m] \in D /\ rank[prev[m]] < rank[m]

LEMMA RecursionExists ==
  ASSUME NEW D, NEW R, NEW base, NEW piece, NEW prev, NEW rank, NEW n \in Nat,
         Descends(D, R, prev, rank, n)
  PROVE  \E f : IsRecursion(f, D, R, base, piece, prev)
<1> DEFINE P(k) == {m \in D : rank[m] < k}
           Q(k) == \E f : IsRecursion(f, P(k), R, base, piece, prev)
           S == {k \in 0 .. n + 1 : Q(k)}
<1>1. /\ \A m \in D : rank[m] \in 0 .. n
      /\ \A m \in D : m \in R => prev[m] \in D /\ rank[prev[m]] < rank[m]
  BY DEF Descends
<1>2. 0 \in S
  <2>1. P(0) = {}
    BY <1>1
  <2> DEFINE f == [m \in {} |-> base[m]]
  <2>2. f = [m \in {} |-> IF m \in R THEN piece[m] \o f[prev[m]] ELSE base[m]]
    OBVIOUS
  <2>3. IsRecursion(f, P(0), R, base, piece, prev)
    BY <2>1, <2>2 DEF IsRecursion
  <2>4. Q(0)
    BY <2>3
  <2> HIDE DEF Q
  <2>5. QED
    BY <2>4
<1>3. \A k \in 0 .. (n + 1) - 1 : k \in S => k + 1 \in S
  <2>1. SUFFICES ASSUME NEW k \in 0 .. n, Q(k) PROVE Q(k + 1)
    <3> HIDE DEF Q
    <3>1. QED
      OBVIOUS
  <2>2. PICK g : IsRecursion(g, P(k), R, base, piece, prev)
    BY <2>1
  <2> DEFINE f == [m \in P(k + 1) |-> IF m \in R THEN piece[m] \o g[prev[m]] ELSE base[m]]
  <2>3. g = [m \in P(k) |-> IF m \in R THEN piece[m] \o g[prev[m]] ELSE base[m]]
    BY <2>2 DEF IsRecursion
  <2>4. P(k) \subseteq P(k + 1)
    BY <1>1
  <2>5. \A m \in P(k) : f[m] = g[m]
    <3>1. SUFFICES ASSUME NEW m \in P(k) PROVE f[m] = g[m]
      OBVIOUS
    <3>2. f[m] = IF m \in R THEN piece[m] \o g[prev[m]] ELSE base[m]
      BY <2>4
    <3>3. g[m] = IF m \in R THEN piece[m] \o g[prev[m]] ELSE base[m]
      BY <2>3, Zenon
    <3>4. QED
      BY <3>2, <3>3
  <2>6. \A m \in P(k + 1) : m \in R => prev[m] \in P(k)
    BY <1>1
  <2>7. f = [m \in P(k + 1) |-> IF m \in R THEN piece[m] \o f[prev[m]] ELSE base[m]]
    <3>1. \A m \in P(k + 1) : m \in R => f[prev[m]] = g[prev[m]]
      BY <2>5, <2>6
    <3> HIDE DEF P
    <3>2. \A m \in P(k + 1) : f[m] = IF m \in R THEN piece[m] \o f[prev[m]] ELSE base[m]
      BY <3>1
    <3>3. f = [m \in P(k + 1) |-> f[m]]
      OBVIOUS
    <3> HIDE DEF f
    <3>4. QED
      BY <3>2, <3>3
  <2> HIDE DEF f, P
  <2>8. IsRecursion(f, P(k + 1), R, base, piece, prev)
    BY <2>7 DEF IsRecursion
  <2>9. QED
    BY <2>8
<1> HIDE DEF S
<1>4. 0 .. n + 1 \subseteq S
  BY <1>2, <1>3, IntervalInduction
<1>5. n + 1 \in S
  BY <1>4
<1>6. P(n + 1) = D
  BY <1>1
<1>7. Q(n + 1)
  <2> HIDE DEF Q
  <2>1. QED
    BY <1>5 DEF S
<1>8. QED
  BY <1>6, <1>7

LEMMA TellsLength ==
  ASSUME NEW x \in 0 .. 15, NEW src, NEW a \in Nat, Len(src) \in Nat, a < Len(src),
         src[a + 1] = x
  PROVE  Tells(x, src, a, a + 1)
<1>1. x % 32 = x /\ x \div 32 = 0
  OBVIOUS
<1>2. QED
  BY <1>1 DEF Tells

\* The codes of repetitions and of zeros.
LEMMA TellsRun ==
  ASSUME NEW z \in 16 .. 18, NEW y \in Nat, NEW src, NEW a \in Nat, NEW b \in Nat,
         Len(src) \in Nat, b <= Len(src),
         z = 16 => y <= 3 /\ b = a + y + 3 /\ a > 0 /\ \A i \in a + 1 .. b : src[i] = src[a],
         z = 17 => y <= 7 /\ b = a + y + 3 /\ \A i \in a + 1 .. b : src[i] = 0,
         z = 18 => y <= 127 /\ b = a + y + 11 /\ \A i \in a + 1 .. b : src[i] = 0
  PROVE  Tells(z + 32 * y, src, a, b)
<1> DEFINE c == z + 32 * y
<1>1. c \in Nat /\ c % 32 = z /\ c \div 32 = y
  <2>1. (32 * y + z) \div 32 = y /\ (32 * y + z) % 32 = z
    <3>1. z \in 0 .. 32 - 1
      OBVIOUS
    <3>2. QED
      BY <3>1, DivUnique
  <2>2. c = 32 * y + z
    OBVIOUS
  <2>3. QED
    BY <2>1, <2>2
<1> HIDE DEF c
<1>2. CASE z = 16
  BY <1>1, <1>2 DEF Tells
<1>3. CASE z = 17
  BY <1>1, <1>3 DEF Tells
<1>4. CASE z = 18
  BY <1>1, <1>4 DEF Tells
<1>5. QED
  BY <1>2, <1>3, <1>4 DEF c

LEMMA SinglyIs ==
  ASSUME NEW x \in 0 .. 15, NEW m \in 0 .. 2, NEW src, NEW a \in Nat, Len(src) \in Nat,
         a + m <= Len(src), \A i \in a + 1 .. a + m : src[i] = x
  PROVE  Encodes(singly(x, m), src, a, a + m)
<1>1. CASE m = 0
  <2>1. singly(x, m) = <<>> /\ a + m = a
    BY <1>1 DEF singly
  <2>2. QED
    BY <2>1, EncodesNone
<1>2. ASSUME NEW b \in Nat, a <= b, b < a + m
      PROVE  Encodes(<<x>>, src, b, b + 1)
  <2>1. b < Len(src) /\ src[b + 1] = x
    BY <1>2
  <2>2. QED
    BY <2>1, TellsLength, EncodesOne
<1>3. CASE m = 1
  <2>1. singly(x, m) = <<x>> /\ a + m = a + 1
    BY <1>3 DEF singly
  <2>2. Encodes(<<x>>, src, a, a + 1)
    BY <1>2, <1>3
  <2>3. QED
    BY <2>1, <2>2
<1>4. CASE m = 2
  <2>1. singly(x, m) = <<x>> \o <<x>> /\ a + m = (a + 1) + 1
    BY <1>4 DEF singly
  <2>2. Encodes(<<x>>, src, a, a + 1) /\ Encodes(<<x>>, src, a + 1, (a + 1) + 1)
    BY <1>2, <1>4
  <2>3. Encodes(<<x>> \o <<x>>, src, a, (a + 1) + 1)
    BY <2>2, EncodesBoth
  <2>4. QED
    BY <2>1, <2>3
<1>5. QED
  BY <1>1, <1>3, <1>4

LEMMA RepetitionsUnfold ==
  ASSUME NEW n \in Nat, NEW x
  PROVE  \E f : /\ f = [m \in 0 .. n |->
                          IF m < 3 THEN singly(x, m)
                          ELSE <<16 + 32 * (LeastOf(m, 6) - 3)>> \o f[m - LeastOf(m, 6)]]
                /\ repetitions(x, n) = f[n]
<1> DEFINE D == 0 .. n
           R == 3 .. n
           base == [m \in D |-> singly(x, m)]
           piece == [m \in D |-> <<16 + 32 * (LeastOf(m, 6) - 3)>>]
           prev == [m \in D |-> m - LeastOf(m, 6)]
           rank == [m \in D |-> m]
           Unfolds(f) ==
             f = [m \in 0 .. n |->
                    IF m < 3 THEN singly(x, m)
                    ELSE <<16 + 32 * (LeastOf(m, 6) - 3)>> \o f[m - LeastOf(m, 6)]]
<1>1. Descends(D, R, prev, rank, n)
  <2>1. \A m \in D : rank[m] = m /\ m \in 0 .. n
    OBVIOUS
  <2>2. \A m \in D : m \in R => prev[m] \in D /\ prev[m] < m
    BY DEF LeastOf
  <2> HIDE DEF D, R, rank, prev
  <2>3. QED
    BY <2>1, <2>2 DEF Descends
<1>2. \E f : IsRecursion(f, D, R, base, piece, prev)
  <2> HIDE DEF D, R, rank, prev, base, piece
  <2>1. QED
    BY <1>1, RecursionExists
<1>3. \A f : IsRecursion(f, D, R, base, piece, prev) <=> Unfolds(f)
  <2>1. \A m \in 0 .. n : /\ m \in R <=> ~ (m < 3)
                          /\ base[m] = singly(x, m) /\ prev[m] = m - LeastOf(m, 6)
                          /\ piece[m] = <<16 + 32 * (LeastOf(m, 6) - 3)>>
    OBVIOUS
  <2> HIDE DEF R, base, piece, prev
  <2>2. QED
    BY <2>1 DEF IsRecursion
<1>4. repetitions(x, n) = (CHOOSE f : Unfolds(f))[n]
  BY Zenon DEF repetitions
<1> HIDE DEF D, R, base, piece, prev
<1>5. \E f : Unfolds(f)
  <2> HIDE DEF Unfolds
  <2>1. QED
    BY <1>2, <1>3
<1>6. PICK f : f = CHOOSE g : Unfolds(g)
  OBVIOUS
<1>7. Unfolds(f)
  <2> HIDE DEF Unfolds
  <2>1. QED
    BY <1>5, <1>6
<1>8. repetitions(x, n) = f[n]
  BY <1>4, <1>6, Zenon
<1>9. QED
  BY <1>7, <1>8

\* src has x from place a on to place b.
RunOf(x, src, a, b) ==
  /\ a \in Nat /\ b \in Nat /\ Len(src) \in Nat /\ b <= Len(src)
  /\ \A i \in a + 1 .. b : src[i] = x

LEMMA SubRun ==
  ASSUME NEW x, NEW src, NEW a, NEW b, RunOf(x, src, a, b),
         NEW c \in Nat, NEW d \in Nat, a <= c, d <= b
  PROVE  RunOf(x, src, c, d)
  BY DEF RunOf

LEMMA RepetitionsAre ==
  ASSUME NEW x \in 0 .. 15, NEW n \in Nat, NEW src, NEW a \in Nat,
         RunOf(x, src, a, a + 1 + n)
  PROVE  Encodes(repetitions(x, n), src, a + 1, a + 1 + n)
<1> DEFINE e == a + 1 + n
<1>1. PICK f : /\ f = [m \in 0 .. n |->
                         IF m < 3 THEN singly(x, m)
                         ELSE <<16 + 32 * (LeastOf(m, 6) - 3)>> \o f[m - LeastOf(m, 6)]]
               /\ repetitions(x, n) = f[n]
  BY RepetitionsUnfold
<1>2. /\ e \in Nat /\ Len(src) \in Nat /\ e <= Len(src) /\ n <= e
      /\ \A i \in a + 1 .. e : src[i] = x
  BY DEF RunOf
<1> DEFINE S == {m \in 0 .. n : \A k \in 0 .. m : Encodes(f[k], src, e - k, e)}
<1>3. ASSUME NEW m \in 0 .. n, \A k \in 0 .. m - 1 : Encodes(f[k], src, e - k, e)
      PROVE  Encodes(f[m], src, e - m, e)
  <2>1. f[m] = IF m < 3 THEN singly(x, m)
               ELSE <<16 + 32 * (LeastOf(m, 6) - 3)>> \o f[m - LeastOf(m, 6)]
    BY <1>1, Zenon
  <2>2. PICK b \in Nat : b = e - m /\ b + m = e /\ a + 1 <= b
    <3>1. e - m \in Nat /\ (e - m) + m = e /\ a + 1 <= e - m
      BY <1>2
    <3>2. QED
      BY <3>1
  <2> HIDE DEF e
  <2>3. CASE m < 3
    <3>1. m \in 0 .. 2 /\ b + m <= Len(src) /\ \A i \in b + 1 .. b + m : src[i] = x
      BY <1>2, <2>2, <2>3
    <3>2. Encodes(singly(x, m), src, b, b + m)
      BY <1>2, <3>1, SinglyIs
    <3>3. f[m] = singly(x, m)
      BY <2>1, <2>3
    <3>4. QED
      BY <2>2, <3>2, <3>3
  <2>4. CASE ~ (m < 3)
    <3>1. PICK k \in 3 .. 6 : k = LeastOf(m, 6) /\ k <= m
      BY <2>4 DEF LeastOf
    <3>2. PICK y \in 0 .. 3 : y = k - 3
      OBVIOUS
    <3>3. PICK t \in Nat : t = m - k
      BY <3>1
    <3>4. f[m] = <<16 + 32 * y>> \o f[t]
      BY <2>1, <2>4, <3>1, <3>2, <3>3
    <3>5. PICK d \in Nat : d = b + k
      OBVIOUS
    <3>6. /\ b > 0 /\ b <= d /\ d <= Len(src) /\ d = b + y + 3 /\ d = e - t
          /\ t \in 0 .. m - 1
      <4>1. PICK l \in Nat : l = Len(src) /\ e <= l
        BY <1>2
      <4>2. e \in Nat /\ k <= m
        BY <1>2, <3>1
      <4>3. QED
        BY <2>2, <3>2, <3>3, <3>5, <4>1, <4>2
    <3>7. \A i \in b + 1 .. d : src[i] = src[b]
      <4>1. src[b] = x
        <5>1. b \in a + 1 .. e
          BY <1>2, <2>2
        <5>2. QED
          BY <1>2, <5>1
      <4>2. \A i \in b + 1 .. d : i \in a + 1 .. e
        BY <1>2, <2>2, <3>6
      <4>3. QED
        BY <1>2, <4>1, <4>2
    <3>8. Tells(16 + 32 * y, src, b, d)
      BY <1>2, <3>6, <3>7, TellsRun
    <3>9. Encodes(<<16 + 32 * y>>, src, b, d)
      BY <3>8, EncodesOne
    <3>10. Encodes(f[t], src, d, e)
      BY <1>3, <3>6
    <3>11. Encodes(<<16 + 32 * y>> \o f[t], src, b, e)
      BY <3>9, <3>10, EncodesBoth
    <3>12. QED
      BY <2>2, <3>4, <3>11
  <2>5. QED
    BY <2>3, <2>4
<1> HIDE DEF e
<1>4. 0 \in S
  <2>1. Encodes(f[0], src, e - 0, e)
    BY <1>3
  <2>2. \A k \in 0 .. 0 : k = 0
    OBVIOUS
  <2>3. QED
    BY <2>1, <2>2
<1>5. \A m \in 0 .. n - 1 : m \in S => m + 1 \in S
  <2>1. SUFFICES ASSUME NEW m \in 0 .. n - 1, \A k \in 0 .. m : Encodes(f[k], src, e - k, e)
                 PROVE  \A k \in 0 .. m + 1 : Encodes(f[k], src, e - k, e)
    OBVIOUS
  <2>2. m + 1 \in 0 .. n /\ (m + 1) - 1 = m
    OBVIOUS
  <2>3. Encodes(f[m + 1], src, e - (m + 1), e)
    BY <1>3, <2>1, <2>2
  <2>4. \A k \in 0 .. m + 1 : k \in 0 .. m \/ k = m + 1
    OBVIOUS
  <2>5. QED
    BY <2>1, <2>3, <2>4
<1> HIDE DEF S
<1>6. 0 .. n \subseteq S
  BY <1>4, <1>5, IntervalInduction
<1>7. n \in S
  BY <1>6
<1>8. Encodes(f[n], src, e - n, e)
  BY <1>7 DEF S
<1>9. e - n = a + 1
  BY DEF e
<1>10. QED
  BY <1>1, <1>8, <1>9 DEF e

\* The code for the first of m zeros, and how many there are after them.
ZeroPiece(m) ==
  IF m < 11 THEN <<17 + 32 * (LeastOf(m, 10) - 3)>> ELSE <<18 + 32 * (LeastOf(m, 138) - 11)>>
ZeroRest(m) == IF m < 11 THEN m - LeastOf(m, 10) ELSE m - LeastOf(m, 138)

LEMMA ZerosUnfold ==
  ASSUME NEW n \in Nat
  PROVE  \E f : /\ f = [m \in 0 .. n |-> IF m < 3 THEN singly(0, m)
                                         ELSE ZeroPiece(m) \o f[ZeroRest(m)]]
                /\ zeros(n) = f[n]
<1> DEFINE D == 0 .. n
           R == 3 .. n
           base == [m \in D |-> singly(0, m)]
           piece == [m \in D |-> ZeroPiece(m)]
           prev == [m \in D |-> ZeroRest(m)]
           rank == [m \in D |-> m]
           Shown(f, m) == IF m < 3 THEN singly(0, m) ELSE ZeroPiece(m) \o f[ZeroRest(m)]
           Given(f, m) ==
             IF m < 3 THEN singly(0, m)
             ELSE IF m < 11
             THEN LET k == LeastOf(m, 10) IN <<17 + 32 * (k - 3)>> \o f[m - k]
             ELSE LET k == LeastOf(m, 138) IN <<18 + 32 * (k - 11)>> \o f[m - k]
           Unfolds(f) == f = [m \in 0 .. n |-> Shown(f, m)]
           Defined(f) == f = [m \in 0 .. n |-> Given(f, m)]
<1>1. Descends(D, R, prev, rank, n)
  <2>1. \A m \in D : rank[m] = m /\ m \in 0 .. n
    OBVIOUS
  <2>2. \A m \in D : m \in R => prev[m] \in D /\ prev[m] < m
    BY DEF LeastOf, ZeroRest
  <2> HIDE DEF D, R, rank, prev
  <2>3. QED
    BY <2>1, <2>2 DEF Descends
<1>2. \E f : IsRecursion(f, D, R, base, piece, prev)
  <2> HIDE DEF D, R, rank, prev, base, piece
  <2>1. QED
    BY <1>1, RecursionExists
<1>3. \A f : IsRecursion(f, D, R, base, piece, prev) <=> Unfolds(f)
  <2>1. \A m \in 0 .. n : /\ m \in R <=> ~ (m < 3)
                          /\ base[m] = singly(0, m) /\ prev[m] = ZeroRest(m)
                          /\ piece[m] = ZeroPiece(m)
    OBVIOUS
  <2> HIDE DEF R, base, piece, prev
  <2>2. QED
    BY <2>1 DEF IsRecursion
<1>4. zeros(n) = (CHOOSE f : Defined(f))[n]
  BY Zenon DEF zeros
<1>5. \A f : Defined(f) <=> Unfolds(f)
  <2>1. \A f, m : Given(f, m) = Shown(f, m)
    BY DEF ZeroPiece, ZeroRest
  <2> HIDE DEF Given, Shown
  <2>2. QED
    BY <2>1
<1> HIDE DEF D, R, base, piece, prev, Defined
<1>6. \E f : Unfolds(f)
  <2> HIDE DEF Unfolds
  <2>1. QED
    BY <1>2, <1>3
<1>7. PICK f : f = CHOOSE g : Defined(g)
  OBVIOUS
<1>8. Unfolds(f)
  <2> HIDE DEF Unfolds
  <2>1. QED
    BY <1>5, <1>6, <1>7
<1>9. zeros(n) = f[n]
  BY <1>4, <1>7, Zenon
<1>10. QED
  BY <1>8, <1>9

LEMMA ZeroPieceIs ==
  ASSUME NEW m \in Nat, ~ (m < 3), NEW src, NEW b \in Nat, NEW e \in Nat, b + m = e,
         RunOf(0, src, b, e)
  PROVE  \E k \in 1 .. m : /\ ZeroRest(m) = m - k
                           /\ Encodes(ZeroPiece(m), src, b, b + k)
<1>1. /\ Len(src) \in Nat /\ e <= Len(src)
      /\ \A i \in b + 1 .. e : src[i] = 0
  BY DEF RunOf
<1>2. CASE m < 11
  <2>1. PICK k \in 3 .. 10 : k = LeastOf(m, 10) /\ k <= m
    BY <1>2 DEF LeastOf
  <2>2. PICK y \in 0 .. 7 : y = k - 3
    OBVIOUS
  <2>3. PICK d \in Nat : d = b + k
    OBVIOUS
  <2>4. d <= e /\ d = b + y + 3
    BY <2>1, <2>2, <2>3
  <2>5. d <= Len(src) /\ \A i \in b + 1 .. d : src[i] = 0
    BY <1>1, <2>4
  <2>6. Tells(17 + 32 * y, src, b, d)
    BY <1>1, <2>4, <2>5, TellsRun
  <2>7. ZeroPiece(m) = <<17 + 32 * y>> /\ ZeroRest(m) = m - k
    BY <1>2, <2>1, <2>2 DEF ZeroPiece, ZeroRest
  <2>8. Encodes(ZeroPiece(m), src, b, b + k)
    BY <2>3, <2>6, <2>7, EncodesOne
  <2>9. k \in 1 .. m
    BY <2>1
  <2>10. QED
    BY <2>7, <2>8, <2>9
<1>3. CASE ~ (m < 11)
  <2>1. PICK k \in 11 .. 138 : k = LeastOf(m, 138) /\ k <= m
    BY <1>3 DEF LeastOf
  <2>2. PICK y \in 0 .. 127 : y = k - 11
    OBVIOUS
  <2>3. PICK d \in Nat : d = b + k
    OBVIOUS
  <2>4. d <= e /\ d = b + y + 11
    BY <2>1, <2>2, <2>3
  <2>5. d <= Len(src) /\ \A i \in b + 1 .. d : src[i] = 0
    BY <1>1, <2>4
  <2>6. Tells(18 + 32 * y, src, b, d)
    BY <1>1, <2>4, <2>5, TellsRun
  <2>7. ZeroPiece(m) = <<18 + 32 * y>> /\ ZeroRest(m) = m - k
    BY <1>3, <2>1, <2>2 DEF ZeroPiece, ZeroRest
  <2>8. Encodes(ZeroPiece(m), src, b, b + k)
    BY <2>3, <2>6, <2>7, EncodesOne
  <2>9. k \in 1 .. m
    BY <2>1
  <2>10. QED
    BY <2>7, <2>8, <2>9
<1>4. QED
  BY <1>2, <1>3

LEMMA ZerosAre ==
  ASSUME NEW n \in Nat, NEW src, NEW a \in Nat, RunOf(0, src, a, a + n)
  PROVE  Encodes(zeros(n), src, a, a + n)
<1> DEFINE e == a + n
<1>1. PICK f : /\ f = [m \in 0 .. n |-> IF m < 3 THEN singly(0, m)
                                        ELSE ZeroPiece(m) \o f[ZeroRest(m)]]
               /\ zeros(n) = f[n]
  BY ZerosUnfold
<1>2. /\ e \in Nat /\ Len(src) \in Nat /\ e <= Len(src) /\ n <= e /\ a + n = e
      /\ \A i \in a + 1 .. e : src[i] = 0
  BY DEF RunOf
<1> DEFINE S == {m \in 0 .. n : \A k \in 0 .. m : Encodes(f[k], src, e - k, e)}
<1>3. ASSUME NEW m \in 0 .. n, \A k \in 0 .. m - 1 : Encodes(f[k], src, e - k, e)
      PROVE  Encodes(f[m], src, e - m, e)
  <2>1. f[m] = IF m < 3 THEN singly(0, m) ELSE ZeroPiece(m) \o f[ZeroRest(m)]
    BY <1>1, Zenon
  <2>2. PICK b \in Nat : b = e - m /\ b + m = e /\ a <= b
    <3>1. e - m \in Nat /\ (e - m) + m = e /\ a <= e - m
      BY <1>2
    <3>2. QED
      BY <3>1
  <2>3. RunOf(0, src, a, e)
    OBVIOUS
  <2> HIDE DEF e
  <2>4. RunOf(0, src, b, e)
    BY <1>2, <2>2, <2>3, SubRun
  <2>5. CASE m < 3
    <3>1. PICK x \in 0 .. 15 : x = 0
      OBVIOUS
    <3>2. m \in 0 .. 2 /\ b + m <= Len(src) /\ \A i \in b + 1 .. b + m : src[i] = x
      BY <1>2, <2>2, <2>5, <3>1
    <3>3. Encodes(singly(x, m), src, b, b + m)
      BY <1>2, <3>2, SinglyIs
    <3>4. f[m] = singly(x, m)
      BY <2>1, <2>5, <3>1
    <3>5. QED
      BY <2>2, <3>3, <3>4
  <2>6. CASE ~ (m < 3)
    <3>1. m \in Nat
      OBVIOUS
    <3>2. PICK k \in 1 .. m : /\ ZeroRest(m) = m - k
                              /\ Encodes(ZeroPiece(m), src, b, b + k)
      BY <1>2, <2>2, <2>4, <2>6, <3>1, ZeroPieceIs
    <3>3. PICK t \in 0 .. m - 1 : t = m - k
      OBVIOUS
    <3>4. f[m] = ZeroPiece(m) \o f[t]
      BY <2>1, <2>6, <3>2, <3>3
    <3>5. b + k = e - t
      <4>1. e \in Nat /\ k \in Nat /\ t \in Nat
        BY <1>2
      <4>2. QED
        BY <2>2, <3>3, <4>1
    <3>6. Encodes(f[t], src, b + k, e)
      BY <1>3, <3>5
    <3>7. Encodes(ZeroPiece(m) \o f[t], src, b, e)
      BY <3>2, <3>6, EncodesBoth
    <3>8. QED
      BY <2>2, <3>4, <3>7
  <2>7. QED
    BY <2>5, <2>6
<1> HIDE DEF e
<1>4. 0 \in S
  <2>1. Encodes(f[0], src, e - 0, e)
    BY <1>3
  <2>2. \A k \in 0 .. 0 : k = 0
    OBVIOUS
  <2>3. QED
    BY <2>1, <2>2
<1>5. \A m \in 0 .. n - 1 : m \in S => m + 1 \in S
  <2>1. SUFFICES ASSUME NEW m \in 0 .. n - 1, \A k \in 0 .. m : Encodes(f[k], src, e - k, e)
                 PROVE  \A k \in 0 .. m + 1 : Encodes(f[k], src, e - k, e)
    OBVIOUS
  <2>2. m + 1 \in 0 .. n /\ (m + 1) - 1 = m
    OBVIOUS
  <2>3. Encodes(f[m + 1], src, e - (m + 1), e)
    BY <1>3, <2>1, <2>2
  <2>4. \A k \in 0 .. m + 1 : k \in 0 .. m \/ k = m + 1
    OBVIOUS
  <2>5. QED
    BY <2>1, <2>3, <2>4
<1> HIDE DEF S
<1>6. 0 .. n \subseteq S
  BY <1>4, <1>5, IntervalInduction
<1>7. n \in S
  BY <1>6
<1>8. Encodes(f[n], src, e - n, e)
  BY <1>7 DEF S
<1>9. e - n = a
  BY DEF e
<1>10. QED
  BY <1>1, <1>8, <1>9 DEF e

\* The run that begins at i ends before NextRun, and the codes for it.
NextRun(src, i) == Min({k \in i + 1 .. Len(src) + 1 : k > Len(src) \/ src[k] # src[i]})
RunPiece(src, i) ==
  IF src[i] # 0 THEN <<src[i]>> \o repetitions(src[i], NextRun(src, i) - i - 1)
  ELSE zeros(NextRun(src, i) - i)

LEMMA NextRunIs ==
  ASSUME NEW src \in Seq(0 .. 15), NEW i \in 1 .. Len(src)
  PROVE  /\ NextRun(src, i) \in i + 1 .. Len(src) + 1
         /\ RunOf(src[i], src, i - 1, NextRun(src, i) - 1)
<1> DEFINE L == Len(src)
           S == {k \in i + 1 .. L + 1 : k > L \/ src[k] # src[i]}
<1>1. L \in Nat
  OBVIOUS
<1>2. S \subseteq Nat /\ S # {}
  <2>1. L + 1 \in S
    BY <1>1
  <2>2. QED
    BY <1>1, <2>1
<1>3. PICK j \in S : \A k \in S : j <= k
  BY <1>2, LeastExists
<1>4. S \in SUBSET Int
  BY <1>1
<1>5. NextRun(src, i) = j
  <2>1. Min(S) = j
    <3> HIDE DEF S
    <3>1. QED
      BY <1>3, <1>4, MinIs
  <2>2. QED
    BY <2>1 DEF NextRun
<1>6. j \in i + 1 .. L + 1
  OBVIOUS
<1>7. \A k \in i + 1 .. j - 1 : src[k] = src[i]
  <2>1. SUFFICES ASSUME NEW k \in i + 1 .. j - 1, src[k] # src[i] PROVE FALSE
    OBVIOUS
  <2>2. k \in i + 1 .. L + 1
    BY <1>1, <1>6
  <2>3. k \in S
    BY <2>1, <2>2
  <2>4. j <= k
    BY <1>3, <2>3
  <2>5. QED
    BY <1>6, <2>4
<1>8. \A k \in (i - 1) + 1 .. j - 1 : src[k] = src[i]
  <2>1. \A k \in (i - 1) + 1 .. j - 1 : k = i \/ k \in i + 1 .. j - 1
    BY <1>6
  <2>2. QED
    BY <1>7, <2>1
<1>9. RunOf(src[i], src, i - 1, j - 1)
  <2>1. i - 1 \in Nat /\ j - 1 \in Nat /\ j - 1 <= L
    BY <1>1, <1>6
  <2>2. QED
    BY <1>1, <1>8, <2>1 DEF RunOf
<1>10. QED
  BY <1>5, <1>6, <1>9

LEMMA RunPieceIs ==
  ASSUME NEW src \in Seq(0 .. 15), NEW i \in 1 .. Len(src)
  PROVE  Encodes(RunPiece(src, i), src, i - 1, NextRun(src, i) - 1)
<1>1. PICK j \in i + 1 .. Len(src) + 1 : j = NextRun(src, i)
  BY NextRunIs
<1>2. RunOf(src[i], src, i - 1, j - 1)
  BY <1>1, NextRunIs
<1>3. PICK x \in 0 .. 15 : x = src[i]
  OBVIOUS
<1>4. PICK a \in Nat : a = i - 1
  OBVIOUS
<1>5. Len(src) \in Nat
  OBVIOUS
<1>6. CASE x # 0
  <2>1. PICK n \in Nat : n = j - i - 1
    BY <1>5
  <2>2. a + 1 + n = j - 1 /\ a < Len(src) /\ a + 1 = i
    BY <1>4, <1>5, <2>1
  <2>3. RunOf(x, src, a, a + 1 + n)
    BY <1>2, <1>3, <1>4, <2>2
  <2>4. Encodes(repetitions(x, n), src, a + 1, a + 1 + n)
    BY <2>3, RepetitionsAre
  <2>5. src[a + 1] = x
    BY <1>3, <2>2
  <2>6. Tells(x, src, a, a + 1)
    BY <1>5, <2>2, <2>5, TellsLength
  <2>7. Encodes(<<x>>, src, a, a + 1)
    BY <2>6, EncodesOne
  <2>8. Encodes(<<x>> \o repetitions(x, n), src, a, a + 1 + n)
    BY <2>4, <2>7, EncodesBoth
  <2>9. RunPiece(src, i) = <<x>> \o repetitions(x, n)
    BY <1>1, <1>3, <1>6, <2>1 DEF RunPiece
  <2>10. QED
    BY <1>1, <1>4, <2>2, <2>8, <2>9
<1>7. CASE x = 0
  <2>1. PICK n \in Nat : n = j - i
    BY <1>5
  <2>2. a + n = j - 1
    BY <1>4, <1>5, <2>1
  <2>3. RunOf(0, src, a, a + n)
    BY <1>2, <1>3, <1>4, <1>7, <2>2
  <2>4. Encodes(zeros(n), src, a, a + n)
    BY <2>3, ZerosAre
  <2>5. RunPiece(src, i) = zeros(n)
    BY <1>1, <1>3, <1>7, <2>1 DEF RunPiece
  <2>6. QED
    BY <1>1, <1>4, <2>2, <2>4, <2>5
<1>8. QED
  BY <1>6, <1>7

LEMMA EncodingUnfolds ==
  ASSUME NEW src \in Seq(0 .. 15)
  PROVE  \E f : /\ f = [i \in 1 .. Len(src) + 1 |->
                          IF i > Len(src) THEN <<>>
                          ELSE RunPiece(src, i) \o f[NextRun(src, i)]]
                /\ run_length_encode(src) = f[1]
<1> DEFINE L == Len(src)
           D == 1 .. L + 1
           R == 1 .. L
           base == [i \in D |-> <<>>]
           piece == [i \in D |-> RunPiece(src, i)]
           prev == [i \in D |-> NextRun(src, i)]
           rank == [i \in D |-> L + 1 - i]
           Shown(f, i) == IF i > L THEN <<>> ELSE RunPiece(src, i) \o f[NextRun(src, i)]
           Given(f, i) ==
             IF i > Len(src) THEN <<>>
             ELSE LET j == Min({k \in i + 1 .. Len(src) + 1 :
                                  k > Len(src) \/ src[k] # src[i]})
                  IN (IF src[i] # 0 THEN <<src[i]>> \o repetitions(src[i], j - i - 1)
                                    ELSE zeros(j - i)) \o f[j]
           Unfolds(f) == f = [i \in 1 .. L + 1 |-> Shown(f, i)]
           Defined(f) == f = [i \in 1 .. Len(src) + 1 |-> Given(f, i)]
<1>1. L \in Nat
  OBVIOUS
<1>2. Descends(D, R, prev, rank, L)
  <2>1. \A i \in D : rank[i] = L + 1 - i /\ rank[i] \in 0 .. L
    BY <1>1
  <2>2. ASSUME NEW i \in D, i \in R
        PROVE  prev[i] \in D /\ rank[prev[i]] < rank[i]
    <3>1. PICK j : j = NextRun(src, i)
      OBVIOUS
    <3>2. j \in i + 1 .. L + 1
      BY <2>2, <3>1, NextRunIs
    <3>3. prev[i] = j
      BY <3>1
    <3>4. j \in D
      BY <1>1, <3>2
    <3>5. rank[j] = L + 1 - j /\ rank[i] = L + 1 - i
      BY <2>1, <3>4
    <3>6. L + 1 - j < L + 1 - i
      BY <1>1, <3>2
    <3>7. QED
      BY <3>3, <3>4, <3>5, <3>6, Zenon
  <2> HIDE DEF D, R, rank, prev, L
  <2>3. QED
    BY <2>1, <2>2 DEF Descends
<1>3. \E f : IsRecursion(f, D, R, base, piece, prev)
  <2> HIDE DEF D, R, rank, prev, base, piece, L
  <2>1. QED
    BY <1>1, <1>2, RecursionExists
<1>4. \A f : IsRecursion(f, D, R, base, piece, prev) <=> Unfolds(f)
  <2>1. \A i \in 1 .. L + 1 : /\ i \in R <=> ~ (i > L)
                              /\ base[i] = <<>> /\ prev[i] = NextRun(src, i)
                              /\ piece[i] = RunPiece(src, i)
    BY <1>1
  <2> HIDE DEF R, base, piece, prev, L
  <2>2. QED
    BY <2>1 DEF IsRecursion
<1>5. run_length_encode(src) = (CHOOSE f : Defined(f))[1]
  BY Zenon DEF run_length_encode
<1>6. \A f : Defined(f) <=> Unfolds(f)
  <2>1. \A f, i : Given(f, i) = Shown(f, i)
    BY DEF NextRun, RunPiece
  <2> HIDE DEF Given, Shown
  <2>2. QED
    BY <2>1
<1> HIDE DEF D, R, base, piece, prev, Defined
<1>7. \E f : Unfolds(f)
  <2> HIDE DEF Unfolds
  <2>1. QED
    BY <1>3, <1>4
<1>8. PICK f : f = CHOOSE g : Defined(g)
  OBVIOUS
<1>9. Unfolds(f)
  <2> HIDE DEF Unfolds
  <2>1. QED
    BY <1>6, <1>7, <1>8
<1>10. run_length_encode(src) = f[1]
  BY <1>5, <1>8, Zenon
<1>11. QED
  BY <1>9, <1>10

\* run_length_encode tells all lengths, in their order.
LEMMA EncodingIs ==
  ASSUME NEW src \in Seq(0 .. 15)
  PROVE  Encodes(run_length_encode(src), src, 0, Len(src))
<1> DEFINE L == Len(src)
<1>1. PICK f : /\ f = [i \in 1 .. L + 1 |->
                         IF i > L THEN <<>> ELSE RunPiece(src, i) \o f[NextRun(src, i)]]
               /\ run_length_encode(src) = f[1]
  BY EncodingUnfolds
<1>2. L \in Nat
  OBVIOUS
<1> DEFINE Done(m) == \A k \in 0 .. m : Encodes(f[L + 1 - k], src, L - k, L)
           S == {m \in 0 .. L : Done(m)}
<1>3. ASSUME NEW m \in 0 .. L, \A k \in 0 .. m - 1 : Encodes(f[L + 1 - k], src, L - k, L)
      PROVE  Encodes(f[L + 1 - m], src, L - m, L)
  <2>1. PICK i \in 1 .. L + 1 : i = L + 1 - m
    BY <1>2
  <2>2. f[i] = IF i > L THEN <<>> ELSE RunPiece(src, i) \o f[NextRun(src, i)]
    BY <1>1, Zenon
  <2>3. i - 1 = L - m
    BY <1>2, <2>1
  <2>4. CASE i > L
    <3>1. f[i] = <<>> /\ i - 1 = L
      BY <1>2, <2>2, <2>4
    <3>2. Encodes(<<>>, src, L, L)
      BY <1>2, EncodesNone
    <3>3. QED
      BY <2>1, <2>3, <3>1, <3>2
  <2>5. CASE ~ (i > L)
    <3>1. i \in 1 .. L
      BY <1>2, <2>5
    <3>2. PICK j : j = NextRun(src, i)
      OBVIOUS
    <3>3. j \in i + 1 .. L + 1 /\ Encodes(RunPiece(src, i), src, i - 1, j - 1)
      BY <3>1, <3>2, NextRunIs, RunPieceIs
    <3>4. PICK k \in 0 .. m - 1 : j = L + 1 - k /\ j - 1 = L - k
      <4>1. L + 1 - j \in 0 .. m - 1 /\ j = L + 1 - (L + 1 - j) /\ j - 1 = L - (L + 1 - j)
        BY <1>2, <2>1, <3>1, <3>3
      <4>2. QED
        BY <4>1
    <3>5. Encodes(f[j], src, j - 1, L)
      BY <1>3, <3>4
    <3>6. Encodes(RunPiece(src, i) \o f[j], src, i - 1, L)
      BY <3>3, <3>5, EncodesBoth
    <3>7. f[i] = RunPiece(src, i) \o f[j]
      BY <2>2, <2>5, <3>2
    <3>8. QED
      BY <2>1, <2>3, <3>6, <3>7
  <2>6. QED
    BY <2>4, <2>5
<1> HIDE DEF L
<1>4. 0 \in S
  <2>1. Encodes(f[L + 1 - 0], src, L - 0, L)
    BY <1>2, <1>3
  <2>2. \A k \in 0 .. 0 : k = 0
    OBVIOUS
  <2>3. QED
    BY <1>2, <2>1, <2>2
<1>5. \A m \in 0 .. L - 1 : m \in S => m + 1 \in S
  <2>1. SUFFICES ASSUME NEW m \in 0 .. L - 1, Done(m) PROVE Done(m + 1)
    <3>1. \A m \in 0 .. L - 1 : m + 1 \in 0 .. L
      BY <1>2
    <3> HIDE DEF Done
    <3>2. QED
      BY <3>1
  <2>2. m + 1 \in 0 .. L /\ (m + 1) - 1 = m
    BY <1>2
  <2>3. Encodes(f[L + 1 - (m + 1)], src, L - (m + 1), L)
    BY <1>3, <2>1, <2>2
  <2>4. \A k \in 0 .. m + 1 : k \in 0 .. m \/ k = m + 1
    BY <1>2
  <2>5. QED
    BY <2>1, <2>3, <2>4
<1> HIDE DEF S
<1>6. 0 .. L \subseteq S
  BY <1>2, <1>4, <1>5, IntervalInduction
<1>7. L \in S
  BY <1>2, <1>6
<1>8. Encodes(f[L + 1 - L], src, L - L, L)
  BY <1>2, <1>7 DEF S
<1>9. L + 1 - L = 1 /\ L - L = 0
  BY <1>2
<1>10. QED
  BY <1>1, <1>8, <1>9 DEF L

\* The run length codes of two sequences of lengths tell the one after the other.
LEMMA BothEncoded ==
  ASSUME NEW r \in Seq(0 .. 15), NEW s \in Seq(0 .. 15)
  PROVE  /\ r \o s \in Seq(0 .. 15) /\ Len(r \o s) = Len(r) + Len(s)
         /\ Encodes(run_length_encode(r) \o run_length_encode(s), r \o s, 0, Len(r \o s))
<1> DEFINE t == r \o s
<1>1. PICK m \in Nat, n \in Nat : m = Len(r) /\ n = Len(s)
  OBVIOUS
<1>2. /\ t \in Seq(0 .. 15) /\ Len(t) = m + n
      /\ \A i \in 1 .. m : t[i] = r[i]
      /\ \A i \in 1 .. n : t[i + m] = s[i]
  BY <1>1
<1> HIDE DEF t
<1>3. HasWithin(t, r, 0)
  <2>1. \A i \in 1 .. m : t[i + 0] = r[i]
    BY <1>2
  <2>2. QED
    BY <1>1, <1>2, <2>1 DEF HasWithin
<1>4. HasWithin(t, s, m)
  BY <1>1, <1>2 DEF HasWithin
<1>5. Encodes(run_length_encode(r), r, 0, m) /\ Encodes(run_length_encode(s), s, 0, n)
  BY <1>1, EncodingIs
<1>6. Encodes(run_length_encode(r), t, 0 + 0, m + 0)
  BY <1>3, <1>5, EncodesMoved
<1>7. Encodes(run_length_encode(s), t, 0 + m, n + m)
  BY <1>4, <1>5, EncodesMoved
<1>8. 0 + 0 = 0 /\ m + 0 = m /\ 0 + m = m /\ n + m = m + n
  OBVIOUS
<1>9. Encodes(run_length_encode(r), t, 0, m) /\ Encodes(run_length_encode(s), t, m, m + n)
  BY <1>6, <1>7, <1>8
<1>10. Encodes(run_length_encode(r) \o run_length_encode(s), t, 0, m + n)
  BY <1>9, EncodesBoth
<1>11. QED
  BY <1>1, <1>2, <1>10 DEF t

\* The symbols of run length codes; one of them is a length that is not 0.
LEMMA CodesAre ==
  ASSUME NEW rlc, NEW t, Encodes(rlc, t, 0, Len(t)), t \in Seq(0 .. 15),
         NEW q \in 1 .. Len(t), t[q] > 0
  PROVE  /\ IsCodes(rlc) /\ Len(rlc) > 0
         /\ \E k \in 1 .. Len(rlc) : rlc[k] % 32 \in 1 .. 15
<1>1. PICK p : IsProgress(p, rlc, t, 0, Len(t))
  BY DEF Encodes
<1>2. PICK n \in Nat, l \in Nat : n = Len(rlc) /\ l = Len(t)
  BY <1>1 DEF IsProgress
<1>3. /\ rlc \in Seq(Nat) /\ p \in [1 .. n + 1 -> Nat] /\ p[1] = 0 /\ p[n + 1] = l
      /\ \A k \in 1 .. n : Tells(rlc[k], t, p[k], p[k + 1])
  BY <1>1, <1>2 DEF IsProgress
<1>4. IsCodes(rlc)
  <2>1. \A k \in 1 .. n : rlc[k] % 32 \in 0 .. 18
    <3>1. SUFFICES ASSUME NEW k \in 1 .. n PROVE rlc[k] % 32 \in 0 .. 18
      OBVIOUS
    <3>2. Tells(rlc[k], t, p[k], p[k + 1])
      BY <1>3
    <3>3. PICK x : x = rlc[k] % 32
      OBVIOUS
    <3>4. x \in 0 .. 15 \/ x = 16 \/ x = 17 \/ x = 18
      BY <3>2, <3>3 DEF Tells
    <3>5. x \in 0 .. 18
      BY <3>4
    <3>6. QED
      BY <3>3, <3>5
  <2>2. QED
    BY <1>2, <1>3, <2>1 DEF IsCodes
<1>5. n > 0
  <2>1. n = 0 => l = 0
    BY <1>3
  <2>2. l > 0
    BY <1>2
  <2>3. QED
    BY <2>1, <2>2
<1> DEFINE S == {i \in 1 .. l : t[i] > 0}
<1>6. S \subseteq Nat /\ S # {}
  BY <1>2
<1>7. PICK i \in S : \A j \in S : i <= j
  BY <1>6, LeastExists
<1>8. i \in 1 .. l /\ t[i] > 0 /\ t[i] \in 1 .. 15
  BY <1>2
<1>9. \A j \in 1 .. l : t[j] > 0 => i <= j
  BY <1>7
<1> DEFINE U == {k \in 1 .. n + 1 : i <= p[k]}
<1>10. U \subseteq Nat /\ U # {}
  <2>1. n + 1 \in 1 .. n + 1 /\ i <= p[n + 1]
    BY <1>3, <1>8
  <2>2. n + 1 \in U
    BY <2>1
  <2>3. U \subseteq Nat
    OBVIOUS
  <2>4. QED
    BY <2>2, <2>3
<1>11. PICK e \in U : \A j \in U : e <= j
  BY <1>10, LeastExists
<1>12. PICK k \in 1 .. n : e = k + 1
  <2>1. e # 1
    BY <1>3, <1>8
  <2>2. e - 1 \in 1 .. n /\ e = (e - 1) + 1
    BY <2>1
  <2>3. QED
    BY <2>2
<1>13. p[k] < i /\ i <= p[k + 1] /\ p[k] \in Nat /\ p[k + 1] \in Nat
  <2>1. k \in 1 .. n + 1 /\ k + 1 \in 1 .. n + 1
    OBVIOUS
  <2>2. k \notin U
    BY <1>11, <1>12
  <2>3. p[k] \in Nat /\ p[k + 1] \in Nat
    BY <1>3, <2>1
  <2>4. QED
    BY <1>8, <1>12, <2>1, <2>2, <2>3
<1> HIDE DEF S, U
<1>14. PICK x, y, a, b : x = rlc[k] % 32 /\ y = rlc[k] \div 32 /\ a = p[k] /\ b = p[k + 1]
  OBVIOUS
<1>15. /\ a \in Nat /\ b \in Nat /\ b <= l
       /\ \/ x \in 0 .. 15 /\ y = 0 /\ b = a + 1 /\ t[b] = x
          \/ /\ x = 16 /\ y \in 0 .. 3 /\ b = a + y + 3 /\ a > 0
             /\ \A j \in a + 1 .. b : t[j] = t[a]
          \/ /\ x = 17 /\ y \in 0 .. 7 /\ b = a + y + 3
             /\ \A j \in a + 1 .. b : t[j] = 0
          \/ /\ x = 18 /\ y \in 0 .. 127 /\ b = a + y + 11
             /\ \A j \in a + 1 .. b : t[j] = 0
  <2>1. Tells(rlc[k], t, a, b)
    BY <1>3, <1>14
  <2>2. QED
    BY <1>2, <1>14, <2>1 DEF Tells
<1>16. i \in a + 1 .. b
  BY <1>8, <1>13, <1>14
<1>17. CASE x \in 0 .. 15 /\ y = 0 /\ b = a + 1 /\ t[b] = x
  <2>1. b = i
    BY <1>15, <1>16, <1>17
  <2>2. x \in 1 .. 15
    BY <1>8, <1>17, <2>1
  <2>3. QED
    BY <1>2, <1>4, <1>5, <1>14, <2>2
<1>18. CASE a > 0 /\ \A j \in a + 1 .. b : t[j] = t[a]
  <2>1. t[a] > 0 /\ a \in 1 .. l
    BY <1>8, <1>15, <1>16, <1>18
  <2>2. i <= a
    BY <1>9, <2>1
  <2>3. QED
    BY <1>15, <1>16, <2>2
<1>19. CASE \A j \in a + 1 .. b : t[j] = 0
  BY <1>8, <1>16, <1>19
<1>20. QED
  BY <1>15, <1>17, <1>18, <1>19

-------------------------------------------------------------------------------
(* The bits of a block.                                                    *)

LEMMA Joined ==
  ASSUME NEW s \in Seq(Bit), NEW t \in Seq(Bit)
  PROVE  s \o t \in Seq(Bit) /\ Len(s \o t) = Len(s) + Len(t)
  OBVIOUS

LEMMA HoldsBoth ==
  ASSUME NEW s \in Seq(Bit), NEW t \in Seq(Bit), NEW bits, NEW pos \in Nat,
         Holds(bits, pos, s \o t)
  PROVE  Holds(bits, pos, s) /\ Holds(bits, pos + Len(s), t)
<1>1. PICK m \in Nat, n \in Nat : m = Len(s) /\ n = Len(t)
  OBVIOUS
<1> DEFINE u == s \o t
<1>2. /\ Len(u) = m + n /\ \A i \in 1 .. m : u[i] = s[i]
      /\ \A i \in 1 .. n : u[m + i] = t[i]
  BY <1>1
<1> HIDE DEF u
<1>3. \A i \in 1 .. m + n : Reader!bit_at(bits, pos + i - 1) = u[i]
  BY <1>2 DEF Holds, u
<1>4. \A i \in 1 .. m : Reader!bit_at(bits, pos + i - 1) = s[i]
  BY <1>2, <1>3
<1>5. \A i \in 1 .. n : Reader!bit_at(bits, (pos + m) + i - 1) = t[i]
  <2>1. SUFFICES ASSUME NEW i \in 1 .. n
                 PROVE  Reader!bit_at(bits, (pos + m) + i - 1) = t[i]
    OBVIOUS
  <2>2. m + i \in 1 .. m + n /\ pos + (m + i) - 1 = (pos + m) + i - 1
    OBVIOUS
  <2>3. Reader!bit_at(bits, pos + (m + i) - 1) = t[i]
    BY <1>2, <1>3, <2>2
  <2>4. QED
    BY <2>2, <2>3
<1>6. QED
  BY <1>1, <1>4, <1>5 DEF Holds

\* What is held is held when more is written, and what is written last is.
LEMMA HoldsBeyond ==
  ASSUME NEW bits \in Seq(Bit), NEW t \in Seq(Bit)
  PROVE  /\ \A s \in Seq(Bit), pos \in Nat :
              pos + Len(s) <= Len(bits) /\ Holds(bits, pos, s) => Holds(bits \o t, pos, s)
         /\ Holds(bits \o t, Len(bits), t)
<1> DEFINE u == bits \o t
<1>1. PICK m \in Nat, n \in Nat : m = Len(bits) /\ n = Len(t)
  OBVIOUS
<1>2. /\ Len(u) = m + n /\ \A i \in 1 .. m : u[i] = bits[i]
      /\ \A i \in 1 .. n : u[m + i] = t[i]
  BY <1>1
<1> HIDE DEF u
<1>3. \A p \in 0 .. m - 1 : Reader!bit_at(u, p) = Reader!bit_at(bits, p)
  <2>1. SUFFICES ASSUME NEW p \in 0 .. m - 1
                 PROVE  Reader!bit_at(u, p) = Reader!bit_at(bits, p)
    OBVIOUS
  <2>2. p + 1 \in 1 .. m /\ p < m /\ p < Len(u)
    BY <1>2
  <2>3. QED
    BY <1>1, <1>2, <2>2 DEF Reader!bit_at
<1>4. ASSUME NEW s \in Seq(Bit), NEW pos \in Nat, pos + Len(s) <= m, Holds(bits, pos, s)
      PROVE  Holds(u, pos, s)
  <2>1. SUFFICES ASSUME NEW i \in 1 .. Len(s)
                 PROVE  Reader!bit_at(u, pos + i - 1) = s[i]
    BY DEF Holds
  <2>2. pos + i - 1 \in 0 .. m - 1
    BY <1>4
  <2>3. Reader!bit_at(bits, pos + i - 1) = s[i]
    BY <1>4 DEF Holds
  <2>4. QED
    BY <1>3, <2>2, <2>3
<1>5. Holds(u, m, t)
  <2>1. SUFFICES ASSUME NEW i \in 1 .. n PROVE Reader!bit_at(u, m + i - 1) = t[i]
    BY <1>1 DEF Holds
  <2>2. (m + i - 1) + 1 = m + i /\ m + i - 1 < Len(u)
    BY <1>2
  <2>3. QED
    BY <1>2, <2>2 DEF Reader!bit_at
<1>6. QED
  BY <1>1, <1>4, <1>5 DEF u

\* Where piece k of P begins.
At(P, k) == Total([j \in 1 .. Len(P) |-> Len(P[j])], k - 1)

\* Of the pieces of P, those before w are written.
Laid(bits, P, w) ==
  /\ bits \in Seq(Bit)
  /\ Len(bits) = At(P, w)
  /\ \A j \in 1 .. w - 1 : Holds(bits, At(P, j), P[j])

IsPieces(P) == Len(P) \in Nat /\ \A k \in 1 .. Len(P) : P[k] \in Seq(Bit)

LEMMA AtIs ==
  ASSUME NEW P, IsPieces(P)
  PROVE  /\ At(P, 1) = 0
         /\ \A k \in 1 .. Len(P) : At(P, k) \in Nat /\ At(P, k + 1) = At(P, k) + Len(P[k])
         /\ \A k \in 1 .. Len(P) + 1 : At(P, k) \in Nat
         /\ \A j, k \in 1 .. Len(P) + 1 : j <= k => At(P, j) <= At(P, k)
<1> DEFINE n == Len(P)
           h == [j \in 1 .. n |-> Len(P[j])]
<1>1. n \in Nat /\ \A k \in 1 .. n : P[k] \in Seq(Bit)
  BY DEF IsPieces
<1>2. \A k \in 1 .. n : h[k] \in Nat /\ h[k] = Len(P[k])
  BY <1>1
<1>3. \A k : At(P, k) = Total(h, k - 1)
  BY DEF At
<1> HIDE DEF n, h
<1>4. Total(h, 0) = 0 /\ \A k \in Nat : Total(h, k + 1) = Total(h, k) + h[k + 1]
  BY TotalIs
<1>5. \A k \in 0 .. n : Total(h, k) \in Int
  <2>1. \A k \in 1 .. n : h[k] \in Int
    BY <1>2
  <2>2. QED
    BY <1>1, <2>1, TotalInt
<1>6. \A a, b \in 0 .. n : a <= b => Total(h, a) <= Total(h, b)
  BY <1>1, <1>2, TotalGrows
<1>7. \A k \in 0 .. n : Total(h, k) \in Nat
  <2>1. SUFFICES ASSUME NEW k \in 0 .. n PROVE Total(h, k) \in Nat
    OBVIOUS
  <2>2. 0 \in 0 .. n /\ 0 <= k
    BY <1>1
  <2>3. Total(h, 0) <= Total(h, k) /\ Total(h, k) \in Int
    BY <1>5, <1>6, <2>2
  <2>4. QED
    BY <1>4, <2>3
<1>8. At(P, 1) = 0
  BY <1>3, <1>4
<1>9. ASSUME NEW k \in 1 .. n + 1
      PROVE  At(P, k) \in Nat
  <2>1. k - 1 \in 0 .. n
    BY <1>1
  <2>2. QED
    BY <1>3, <1>7, <2>1
<1>10. ASSUME NEW k \in 1 .. n
       PROVE  At(P, k + 1) = At(P, k) + Len(P[k])
  <2>1. PICK i \in Nat : i = k - 1 /\ i + 1 = k
    <3>1. k - 1 \in Nat /\ (k - 1) + 1 = k
      BY <1>1
    <3>2. QED
      BY <3>1
  <2>2. At(P, k + 1) = Total(h, k) /\ At(P, k) = Total(h, i)
    <3>1. (k + 1) - 1 = k
      BY <1>1
    <3>2. At(P, k + 1) = Total(h, (k + 1) - 1)
      BY <1>3
    <3>3. QED
      BY <1>3, <2>1, <3>1, <3>2, Zenon
  <2>3. Total(h, i + 1) = Total(h, i) + h[i + 1]
    BY <1>4
  <2>4. QED
    BY <1>2, <2>1, <2>2, <2>3
<1>11. ASSUME NEW j \in 1 .. n + 1, NEW k \in 1 .. n + 1, j <= k
       PROVE  At(P, j) <= At(P, k)
  <2>1. j - 1 \in 0 .. n /\ k - 1 \in 0 .. n /\ j - 1 <= k - 1
    BY <1>1, <1>11
  <2>2. QED
    BY <1>3, <1>6, <2>1
<1>12. \A k \in 1 .. n : k \in 1 .. n + 1
  BY <1>1
<1>13. QED
  BY <1>8, <1>9, <1>10, <1>11, <1>12 DEF n

LEMMA LaidNone ==
  ASSUME NEW P, IsPieces(P)
  PROVE  Laid(<<>>, P, 1)
<1>1. At(P, 1) = 0
  BY AtIs
<1>2. <<>> \in Seq(Bit) /\ Len(<<>>) = 0 /\ 1 .. 1 - 1 = {}
  OBVIOUS
<1>3. QED
  BY <1>1, <1>2 DEF Laid

LEMMA LaidMore ==
  ASSUME NEW P, IsPieces(P), NEW w \in 1 .. Len(P), NEW bits, Laid(bits, P, w)
  PROVE  Laid(bits \o P[w], P, w + 1)
<1> DEFINE t == P[w]
           u == bits \o t
<1>1. /\ bits \in Seq(Bit) /\ Len(bits) = At(P, w)
      /\ \A j \in 1 .. w - 1 : Holds(bits, At(P, j), P[j])
  BY DEF Laid
<1>2. /\ t \in Seq(Bit) /\ Len(P) \in Nat
      /\ \A k \in 1 .. Len(P) : P[k] \in Seq(Bit)
  BY DEF IsPieces
<1>3. u \in Seq(Bit) /\ Len(u) = Len(bits) + Len(t)
  <2>1. bits \in Seq(Bit) /\ t \in Seq(Bit)
    BY <1>1, <1>2
  <2> HIDE DEF t
  <2>2. QED
    BY <2>1
<1>4. At(P, w + 1) = At(P, w) + Len(t)
  BY AtIs
<1>5. /\ \A s \in Seq(Bit), pos \in Nat :
           pos + Len(s) <= Len(bits) /\ Holds(bits, pos, s) => Holds(u, pos, s)
      /\ Holds(u, Len(bits), t)
  BY <1>1, <1>2, HoldsBeyond
<1>6. ASSUME NEW j \in 1 .. w - 1
      PROVE  Holds(u, At(P, j), P[j])
  <2>1. /\ j \in 1 .. Len(P) /\ j + 1 \in 1 .. Len(P) + 1 /\ w \in 1 .. Len(P) + 1
        /\ j + 1 <= w
    BY <1>2
  <2>2. /\ At(P, j) \in Nat /\ At(P, j + 1) = At(P, j) + Len(P[j])
        /\ At(P, j + 1) <= At(P, w)
    BY <2>1, AtIs
  <2>3. Holds(bits, At(P, j), P[j]) /\ P[j] \in Seq(Bit)
    BY <1>1, <1>2, <2>1
  <2>4. At(P, j) + Len(P[j]) <= Len(bits)
    BY <1>1, <2>2
  <2> HIDE DEF u
  <2>5. QED
    BY <1>5, <2>2, <2>3, <2>4
<1>7. Holds(u, At(P, w), P[w])
  BY <1>1, <1>5
<1>8. \A j \in 1 .. (w + 1) - 1 : j \in 1 .. w - 1 \/ j = w
  BY <1>2
<1> HIDE DEF u
<1>9. \A j \in 1 .. (w + 1) - 1 : Holds(u, At(P, j), P[j])
  BY <1>6, <1>7, <1>8
<1>10. Len(u) = At(P, w + 1)
  BY <1>1, <1>3, <1>4
<1>11. QED
  BY <1>3, <1>9, <1>10 DEF Laid, u

\* The bits of pieces that are laid in t are found where t is found.
LEMMA LaidWithin ==
  ASSUME NEW P, IsPieces(P), NEW t, NEW w \in 1 .. Len(P) + 1, Laid(t, P, w),
         NEW bits, NEW pos \in Nat, Holds(bits, pos, t), NEW k \in 1 .. w - 1
  PROVE  Holds(bits, pos + At(P, k), P[k])
<1>1. t \in Seq(Bit) /\ Len(t) = At(P, w) /\ Holds(t, At(P, k), P[k])
  BY DEF Laid
<1>2. Len(P) \in Nat
  BY DEF IsPieces
<1>3. k \in 1 .. Len(P) /\ k + 1 \in 1 .. Len(P) + 1 /\ k + 1 <= w
  BY <1>2
<1>4. /\ At(P, k) \in Nat /\ At(P, k + 1) = At(P, k) + Len(P[k])
      /\ At(P, k + 1) <= At(P, w)
  BY <1>3, AtIs
<1>5. Len(P[k]) \in Nat
  BY <1>3 DEF IsPieces
<1>6. SUFFICES ASSUME NEW i \in 1 .. Len(P[k])
               PROVE  Reader!bit_at(bits, (pos + At(P, k)) + i - 1) = P[k][i]
  BY DEF Holds
<1>7. PICK q \in Nat, l \in Nat : q = At(P, k) + i - 1 /\ l = Len(t) /\ q < l
  <2>1. At(P, k) + i - 1 \in Nat /\ Len(t) \in Nat /\ At(P, k) + i - 1 < Len(t)
    BY <1>1, <1>4, <1>5
  <2>2. QED
    BY <2>1
<1>8. Reader!bit_at(t, q) = P[k][i]
  BY <1>1, <1>7 DEF Holds
<1>9. Reader!bit_at(t, q) = t[q + 1]
  BY <1>7 DEF Reader!bit_at
<1>10. Reader!bit_at(bits, pos + (q + 1) - 1) = t[q + 1]
  <2>1. q + 1 \in 1 .. Len(t)
    BY <1>7
  <2>2. QED
    BY <2>1 DEF Holds
<1>11. pos + (q + 1) - 1 = (pos + At(P, k)) + i - 1
  BY <1>4, <1>7
<1>12. QED
  BY <1>8, <1>9, <1>10, <1>11

LEMMA FlattenedIs ==
  ASSUME NEW s, IsPieces(s), Len(s) # 0
  PROVE  Laid(FlattenSeq(s), s, Len(s) + 1)
<1> DEFINE n == Len(s)
<1>1. n \in Nat
  BY DEF IsPieces
<1>2. PICK f : IsJoin(f, s, n) /\ FlattenSeq(s) = f[n]
  BY <1>1, FlattenSeqIs
<1> DEFINE g(k) == IF k = 0 THEN <<>> ELSE f[k]
           S == {k \in 0 .. n : Laid(g(k), s, k + 1)}
<1>3. 0 \in S
  <2>1. Laid(<<>>, s, 1)
    BY LaidNone
  <2>2. QED
    BY <1>1, <2>1
<1>4. \A k \in 0 .. n - 1 : k \in S => k + 1 \in S
  <2>1. SUFFICES ASSUME NEW k \in 0 .. n - 1, Laid(g(k), s, k + 1)
                 PROVE  Laid(g(k + 1), s, (k + 1) + 1)
    BY <1>1
  <2>2. k + 1 \in 1 .. n /\ k + 1 # 0 /\ (k + 1) - 1 = k /\ (k + 1 = 1 <=> k = 0)
    BY <1>1
  <2>3. Laid(g(k) \o s[k + 1], s, (k + 1) + 1)
    <3> HIDE DEF g
    <3>1. QED
      BY <2>1, <2>2, LaidMore
  <2>4. f[k + 1] = IF k + 1 = 1 THEN s[k + 1] ELSE f[k] \o s[k + 1]
    <3>1. f = [i \in 1 .. n |-> IF i = 1 THEN s[i] ELSE f[i - 1] \o s[i]]
      BY <1>2 DEF IsJoin
    <3>2. f[k + 1] = IF k + 1 = 1 THEN s[k + 1] ELSE f[(k + 1) - 1] \o s[k + 1]
      BY <2>2, <3>1, Zenon
    <3>3. QED
      BY <2>2, <3>2
  <2>5. g(k + 1) = g(k) \o s[k + 1]
    <3>1. g(k + 1) = f[k + 1]
      BY <2>2
    <3>2. CASE k = 0
      <4>1. g(k) = <<>> /\ s[k + 1] \in Seq(Bit)
        BY <2>2, <3>2 DEF IsPieces
      <4>2. <<>> \o s[k + 1] = s[k + 1]
        BY <4>1
      <4>3. QED
        BY <2>2, <2>4, <3>1, <3>2, <4>1, <4>2
    <3>3. CASE k # 0
      <4>1. g(k) = f[k]
        BY <3>3
      <4>2. QED
        BY <2>2, <2>4, <3>1, <3>3, <4>1
    <3>4. QED
      BY <3>2, <3>3
  <2>6. QED
    BY <2>3, <2>5
<1> HIDE DEF S
<1>5. 0 .. n \subseteq S
  BY <1>1, <1>3, <1>4, IntervalInduction
<1>6. n \in S /\ n # 0
  BY <1>1, <1>5
<1>7. Laid(g(n), s, n + 1)
  BY <1>6 DEF S
<1>8. QED
  BY <1>2, <1>6, <1>7

\* The last of a set of numbers.
LEMMA GreatestIs ==
  ASSUME NEW n \in Nat, NEW S, S \subseteq 0 .. n, S # {}
  PROVE  Max(S) \in S /\ \A y \in S : y <= Max(S)
<1> DEFINE T == {n - d : d \in S}
<1>1. T \subseteq Nat /\ T # {}
  <2>1. \A d \in S : n - d \in Nat
    OBVIOUS
  <2>2. PICK d : d \in S
    OBVIOUS
  <2>3. n - d \in T
    BY <2>2
  <2>4. QED
    BY <2>1, <2>3
<1>2. PICK x \in T : \A y \in T : x <= y
  BY <1>1, LeastExists
<1>3. PICK d \in S : x = n - d
  BY <1>2
<1>4. \A e \in S : e <= d
  <2>1. SUFFICES ASSUME NEW e \in S PROVE e <= d
    OBVIOUS
  <2>2. n - d <= n - e
    BY <1>2, <1>3
  <2>3. d \in Int /\ e \in Int
    OBVIOUS
  <2>4. QED
    BY <2>2, <2>3
<1>5. S \in SUBSET Int
  OBVIOUS
<1>6. Max(S) = d
  BY <1>4, <1>5, MaxIs
<1>7. QED
  BY <1>4, <1>6

\* The order in which the lengths of the third tree are sent.
LEMMA OrderIs ==
  /\ Reader!LengthOrder = DeflateRLCPermutation
  /\ \A i \in 1 .. 19 : DeflateRLCPermutation[i] \in 0 .. 18
  /\ \A c \in 0 .. 18 : \E i \in 1 .. 19 : DeflateRLCPermutation[i] = c /\ (c < 16 => i > 3)
<1> DEFINE p == DeflateRLCPermutation
<1>1. Reader!LengthOrder = p
  BY DEF Reader!LengthOrder, DeflateRLCPermutation
<1>2. /\ p[1] = 16 /\ p[2] = 17 /\ p[3] = 18 /\ p[4] = 0 /\ p[5] = 8 /\ p[6] = 7
      /\ p[7] = 9 /\ p[8] = 6 /\ p[9] = 10 /\ p[10] = 5 /\ p[11] = 11 /\ p[12] = 4
      /\ p[13] = 12 /\ p[14] = 3 /\ p[15] = 13 /\ p[16] = 2 /\ p[17] = 14
      /\ p[18] = 1 /\ p[19] = 15
  BY DEF DeflateRLCPermutation
<1> HIDE DEF p
<1>3. \A i \in 1 .. 19 : p[i] \in 0 .. 18
  <2>1. SUFFICES ASSUME NEW i \in 1 .. 19 PROVE p[i] \in 0 .. 18
    OBVIOUS
  <2>2. \/ i \in 1 .. 7 \/ i \in 8 .. 13 \/ i \in 14 .. 19
    OBVIOUS
  <2>3. CASE i \in 1 .. 7
    BY <1>2, <2>3
  <2>4. CASE i \in 8 .. 13
    BY <1>2, <2>4
  <2>5. CASE i \in 14 .. 19
    BY <1>2, <2>5
  <2>6. QED
    BY <2>2, <2>3, <2>4, <2>5
<1>4. ASSUME NEW c \in 0 .. 18
      PROVE  \E i \in 1 .. 19 : p[i] = c /\ (c < 16 => i > 3)
  <2>1. \/ c \in 0 .. 6 \/ c \in 7 .. 12 \/ c \in 13 .. 18
    OBVIOUS
  <2>2. CASE c \in 0 .. 6
    BY <1>2, <2>2
  <2>3. CASE c \in 7 .. 12
    BY <1>2, <2>3
  <2>4. CASE c \in 13 .. 18
    BY <1>2, <2>4
  <2>5. QED
    BY <2>1, <2>2, <2>3, <2>4
<1>5. QED
  BY <1>1, <1>3, <1>4 DEF p

LEMMA LastIndexIs ==
  ASSUME NEW cl3 \in [0 .. 18 -> 0 .. 7], NEW x \in 0 .. 15, cl3[x] > 0
  PROVE  /\ rlc_last_code_index(cl3) \in 3 .. 18
         /\ \A i \in 1 .. 19 :
              i > rlc_last_code_index(cl3) + 1 => cl3[DeflateRLCPermutation[i]] = 0
<1> DEFINE p == DeflateRLCPermutation
           S == {i \in 0 .. 18 : cl3[p[i + 1]] # 0}
           m == Max(S)
<1>1. PICK k \in 1 .. 19 : p[k] = x /\ k > 3
  <2>1. x \in 0 .. 18 /\ x < 16
    OBVIOUS
  <2>2. QED
    BY <2>1, OrderIs
<1>2. PICK j \in 3 .. 18 : j + 1 = k
  <2>1. k - 1 \in 3 .. 18 /\ (k - 1) + 1 = k
    BY <1>1
  <2>2. QED
    BY <2>1
<1>3. j \in S
  <2>1. cl3[p[j + 1]] # 0
    BY <1>1, <1>2
  <2>2. j \in 0 .. 18
    OBVIOUS
  <2> HIDE DEF p
  <2>3. QED
    BY <2>1, <2>2
<1>4. m \in S /\ \A y \in S : y <= m
  <2>1. S \subseteq 0 .. 18 /\ S # {}
    BY <1>3
  <2> HIDE DEF S
  <2>2. QED
    BY <2>1, GreatestIs
<1>5. rlc_last_code_index(cl3) = m
  BY DEF rlc_last_code_index
<1> HIDE DEF m, p
<1>6. m \in 0 .. 18 /\ j <= m
  BY <1>3, <1>4
<1>7. ASSUME NEW i \in 1 .. 19, i > m + 1
      PROVE  cl3[p[i]] = 0
  <2>1. PICK l \in 0 .. 18 : l + 1 = i
    <3>1. i - 1 \in 0 .. 18 /\ (i - 1) + 1 = i
      OBVIOUS
    <3>2. QED
      BY <3>1
  <2>2. l \notin S
    BY <1>4, <1>6, <1>7, <2>1
  <2>3. QED
    BY <2>1, <2>2
<1>8. QED
  BY <1>5, <1>6, <1>7 DEF p

LengthFields(cl3, n) == [i \in 1 .. n |-> little(cl3[DeflateRLCPermutation[i]], 3)]

LEMMA LengthFieldsAre ==
  ASSUME NEW cl3 \in [0 .. 18 -> 0 .. 7], NEW n \in 1 .. 19
  PROVE  LET t == FlattenSeq(LengthFields(cl3, n)) IN
         /\ t \in Seq(Bit) /\ Len(t) = 3 * n
         /\ \A bits : \A pos \in Nat : Holds(bits, pos, t) =>
              \A i \in 1 .. n :
                Reader!number(bits, pos + 3 * (i - 1), 3) = cl3[DeflateRLCPermutation[i]]
<1> DEFINE p == DeflateRLCPermutation
           s == LengthFields(cl3, n)
           t == FlattenSeq(s)
<1>1. \A i \in 1 .. n : p[i] \in 0 .. 18 /\ cl3[p[i]] \in 0 .. 7
  <2>1. \A i \in 1 .. n : p[i] \in 0 .. 18
    BY OrderIs
  <2> HIDE DEF p
  <2>2. QED
    BY <2>1
<1>2. \A i \in 1 .. n : s[i] = little(cl3[p[i]], 3)
  BY DEF LengthFields
<1>3. Len(s) = n
  BY DEF LengthFields
<1> HIDE DEF p, s
<1>4. \A i \in 1 .. n : s[i] \in Seq(Bit) /\ Len(s[i]) = 3
  <2>1. SUFFICES ASSUME NEW i \in 1 .. n PROVE s[i] \in Seq(Bit) /\ Len(s[i]) = 3
    OBVIOUS
  <2>2. PICK x \in Nat : x = cl3[p[i]]
    BY <1>1
  <2>3. little(x, 3) \in Seq(Bit) /\ Len(little(x, 3)) = 3
    BY LittleIs
  <2>4. QED
    BY <1>2, <2>2, <2>3
<1>5. IsPieces(s) /\ Len(s) # 0
  BY <1>3, <1>4 DEF IsPieces
<1>6. Laid(t, s, n + 1)
  BY <1>3, <1>5, FlattenedIs
<1>7. \A i \in 0 .. n : At(s, i + 1) = 3 * i
  <2> DEFINE S == {i \in 0 .. n : At(s, i + 1) = 3 * i}
  <2>1. 0 \in S
    <3>1. At(s, 1) = 0
      BY <1>5, AtIs
    <3>2. QED
      BY <3>1
  <2>2. \A i \in 0 .. n - 1 : i \in S => i + 1 \in S
    <3>1. SUFFICES ASSUME NEW i \in 0 .. n - 1, At(s, i + 1) = 3 * i
                   PROVE  At(s, (i + 1) + 1) = 3 * (i + 1)
      OBVIOUS
    <3>2. i + 1 \in 1 .. Len(s)
      BY <1>3
    <3>3. At(s, (i + 1) + 1) = At(s, i + 1) + Len(s[i + 1])
      BY <1>5, <3>2, AtIs
    <3>4. Len(s[i + 1]) = 3
      BY <1>3, <1>4, <3>2
    <3>5. QED
      BY <3>1, <3>3, <3>4
  <2> HIDE DEF S
  <2>3. n \in Nat
    OBVIOUS
  <2>4. 0 .. n \subseteq S
    BY <2>1, <2>2, <2>3, IntervalInduction
  <2>5. QED
    BY <2>4 DEF S
<1>8. t \in Seq(Bit) /\ Len(t) = 3 * n
  <2>1. t \in Seq(Bit) /\ Len(t) = At(s, n + 1)
    BY <1>6 DEF Laid
  <2>2. At(s, n + 1) = 3 * n
    BY <1>7
  <2>3. QED
    BY <2>1, <2>2
<1>9. ASSUME NEW bits, NEW pos \in Nat, Holds(bits, pos, t), NEW i \in 1 .. n
      PROVE  Reader!number(bits, pos + 3 * (i - 1), 3) = cl3[p[i]]
  <2>1. n + 1 \in 1 .. Len(s) + 1 /\ i \in 1 .. (n + 1) - 1
    BY <1>3
  <2> HIDE DEF t
  <2>2. Holds(bits, pos + At(s, i), s[i])
    BY <1>5, <1>6, <1>9, <2>1, LaidWithin
  <2>3. At(s, i) = 3 * (i - 1)
    <3>1. i - 1 \in 0 .. n /\ (i - 1) + 1 = i
      OBVIOUS
    <3>2. At(s, (i - 1) + 1) = 3 * (i - 1)
      BY <1>7, <3>1
    <3>3. QED
      BY <3>1, <3>2
  <2>4. PICK x \in Nat : x = cl3[p[i]] /\ x < 8
    BY <1>1
  <2>5. PICK q \in Nat : q = pos + 3 * (i - 1)
    <3>1. pos + 3 * (i - 1) \in Nat
      OBVIOUS
    <3>2. QED
      BY <3>1
  <2>6. Holds(bits, q, little(x, 3))
    BY <1>2, <2>2, <2>3, <2>4, <2>5
  <2>7. x < 2 ^ 3
    BY <2>4, PowersAre
  <2>8. Reader!number(bits, q, 3) = x
    BY <2>6, <2>7, NumberRead
  <2>9. QED
    BY <2>4, <2>5, <2>8
<1>10. QED
  BY <1>8, <1>9 DEF p, s, t

\* The header of a dynamic block.
Fields(lb, a, b, c, cl3, n) ==
  <<lb>> \o little(2, 2) \o little(a, 5) \o little(b, 5) \o little(c, 4)
    \o FlattenSeq(LengthFields(cl3, n))

\* What a reader finds in it.
HeadFound(bits, lb, a, b, c, cl3, n) ==
  /\ Reader!bit_at(bits, 0) = lb
  /\ Reader!number(bits, 1, 2) = 2 /\ Reader!number(bits, 3, 5) = a
  /\ Reader!number(bits, 8, 5) = b /\ Reader!number(bits, 13, 4) = c
  /\ \A i \in 1 .. n :
       Reader!number(bits, 17 + 3 * (i - 1), 3) = cl3[DeflateRLCPermutation[i]]

LEMMA HeadIs ==
  ASSUME NEW lb \in Bit, NEW a \in 0 .. 31, NEW b \in 0 .. 31, NEW c \in 0 .. 15,
         NEW cl3 \in [0 .. 18 -> 0 .. 7], NEW n \in 1 .. 19
  PROVE  LET t == Fields(lb, a, b, c, cl3, n) IN
         /\ t \in Seq(Bit) /\ Len(t) = 17 + 3 * n
         /\ \A bits : Holds(bits, 0, t) => HeadFound(bits, lb, a, b, c, cl3, n)
<1> DEFINE t2 == little(2, 2)
           t3 == little(a, 5)
           t4 == little(b, 5)
           t5 == little(c, 4)
           t6 == FlattenSeq(LengthFields(cl3, n))
           u1 == <<lb>>
           u2 == u1 \o t2
           u3 == u2 \o t3
           u4 == u3 \o t4
           u5 == u4 \o t5
           u6 == u5 \o t6
<1>1. /\ u1 \in Seq(Bit) /\ Len(u1) = 1 /\ u1[1] = lb
      /\ t2 \in Seq(Bit) /\ Len(t2) = 2 /\ t3 \in Seq(Bit) /\ Len(t3) = 5
      /\ t4 \in Seq(Bit) /\ Len(t4) = 5 /\ t5 \in Seq(Bit) /\ Len(t5) = 4
  <2>1. u1 \in Seq(Bit) /\ Len(u1) = 1 /\ u1[1] = lb
    OBVIOUS
  <2>2. a \in Nat /\ b \in Nat /\ c \in Nat
    OBVIOUS
  <2>3. t2 \in Seq(Bit) /\ Len(t2) = 2 /\ t3 \in Seq(Bit) /\ Len(t3) = 5
    BY <2>2, LittleIs
  <2>4. t4 \in Seq(Bit) /\ Len(t4) = 5 /\ t5 \in Seq(Bit) /\ Len(t5) = 4
    BY <2>2, LittleIs
  <2>5. QED
    BY <2>1, <2>3, <2>4
<1>2. /\ t6 \in Seq(Bit) /\ Len(t6) = 3 * n
      /\ \A bits : \A pos \in Nat : Holds(bits, pos, t6) =>
           \A i \in 1 .. n :
             Reader!number(bits, pos + 3 * (i - 1), 3) = cl3[DeflateRLCPermutation[i]]
  BY LengthFieldsAre
<1>3. Fields(lb, a, b, c, cl3, n) = u6
  BY DEF Fields
<1> HIDE DEF t2, t3, t4, t5, t6, u1
<1>4. u2 \in Seq(Bit) /\ Len(u2) = 3
  <2>1. u1 \in Seq(Bit) /\ t2 \in Seq(Bit)
    BY <1>1
  <2>2. u2 \in Seq(Bit) /\ Len(u2) = Len(u1) + Len(t2)
    BY <2>1, Joined
  <2>3. Len(u1) + Len(t2) = 3
    BY <1>1
  <2>4. QED
    BY <2>2, <2>3
<1> HIDE DEF u2
<1>5. u3 \in Seq(Bit) /\ Len(u3) = 8
  <2>1. u2 \in Seq(Bit) /\ t3 \in Seq(Bit)
    BY <1>1, <1>4
  <2>2. u3 \in Seq(Bit) /\ Len(u3) = Len(u2) + Len(t3)
    BY <2>1, Joined
  <2>3. Len(u2) + Len(t3) = 8
    BY <1>1, <1>4
  <2>4. QED
    BY <2>2, <2>3
<1> HIDE DEF u3
<1>6. u4 \in Seq(Bit) /\ Len(u4) = 13
  <2>1. u3 \in Seq(Bit) /\ t4 \in Seq(Bit)
    BY <1>1, <1>5
  <2>2. u4 \in Seq(Bit) /\ Len(u4) = Len(u3) + Len(t4)
    BY <2>1, Joined
  <2>3. Len(u3) + Len(t4) = 13
    BY <1>1, <1>5
  <2>4. QED
    BY <2>2, <2>3
<1> HIDE DEF u4
<1>7. u5 \in Seq(Bit) /\ Len(u5) = 17
  <2>1. u4 \in Seq(Bit) /\ t5 \in Seq(Bit)
    BY <1>1, <1>6
  <2>2. u5 \in Seq(Bit) /\ Len(u5) = Len(u4) + Len(t5)
    BY <2>1, Joined
  <2>3. Len(u4) + Len(t5) = 17
    BY <1>1, <1>6
  <2>4. QED
    BY <2>2, <2>3
<1> HIDE DEF u5
<1>8. u6 \in Seq(Bit) /\ Len(u6) = 17 + 3 * n
  <2>1. u5 \in Seq(Bit) /\ t6 \in Seq(Bit)
    BY <1>2, <1>7
  <2>2. u6 \in Seq(Bit) /\ Len(u6) = Len(u5) + Len(t6)
    BY <2>1, Joined
  <2>3. Len(u5) + Len(t6) = 17 + 3 * n
    BY <1>2, <1>7
  <2>4. QED
    BY <2>2, <2>3
<1> HIDE DEF u6
<1>9. ASSUME NEW bits, Holds(bits, 0, u6)
      PROVE  HeadFound(bits, lb, a, b, c, cl3, n)
  <2>1. Holds(bits, 0, u5) /\ Holds(bits, 0 + 17, t6)
    BY <1>2, <1>7, <1>9, HoldsBoth DEF u6
  <2>2. Holds(bits, 0, u4) /\ Holds(bits, 0 + 13, t5)
    BY <1>1, <1>6, <2>1, HoldsBoth DEF u5
  <2>3. Holds(bits, 0, u3) /\ Holds(bits, 0 + 8, t4)
    BY <1>1, <1>5, <2>2, HoldsBoth DEF u4
  <2>4. Holds(bits, 0, u2) /\ Holds(bits, 0 + 3, t3)
    BY <1>1, <1>4, <2>3, HoldsBoth DEF u3
  <2>5. Holds(bits, 0, u1) /\ Holds(bits, 0 + 1, t2)
    BY <1>1, <2>4, HoldsBoth DEF u2
  <2>6. 0 + 17 = 17 /\ 0 + 13 = 13 /\ 0 + 8 = 8 /\ 0 + 3 = 3 /\ 0 + 1 = 1
    OBVIOUS
  <2>7. Reader!bit_at(bits, 0) = lb
    <3>1. Reader!bit_at(bits, 0 + 1 - 1) = u1[1]
      BY <1>1, <2>5 DEF Holds
    <3>2. QED
      BY <1>1, <3>1
  <2>8. /\ 2 < 2 ^ 2 /\ a < 2 ^ 5 /\ b < 2 ^ 5 /\ c < 2 ^ 4
        /\ a \in Nat /\ b \in Nat /\ c \in Nat
    BY PowersAre
  <2>9. Reader!number(bits, 1, 2) = 2
    BY <2>5, <2>6, <2>8, NumberRead DEF t2
  <2>10. Reader!number(bits, 3, 5) = a
    BY <2>4, <2>6, <2>8, NumberRead DEF t3
  <2>11. Reader!number(bits, 8, 5) = b
    BY <2>3, <2>6, <2>8, NumberRead DEF t4
  <2>12. Reader!number(bits, 13, 4) = c
    BY <2>2, <2>6, <2>8, NumberRead DEF t5
  <2>13. \A i \in 1 .. n :
           Reader!number(bits, 17 + 3 * (i - 1), 3) = cl3[DeflateRLCPermutation[i]]
    <3>1. Holds(bits, 17, t6) /\ 17 \in Nat
      BY <2>1, <2>6
    <3>2. QED
      BY <1>2, <3>1
  <2>14. QED
    BY <2>7, <2>9, <2>10, <2>11, <2>12, <2>13 DEF HeadFound
<1>10. QED
  BY <1>3, <1>8, <1>9

-------------------------------------------------------------------------------
(* What a block is made of.                                                *)

\* The trees of the items, the lengths that are sent of them, and the run
\* length codes, their tree and the number of its lengths.
H1 == tree(lel_bucket, 15)
H2 == tree(dis_bucket, 15)
K1 == last_code(H1) + 1
K2 == last_code(H2) + 1
Sent == resized(H1) \o resized(H2)
Rlc == run_length_encode(resized(H1)) \o run_length_encode(resized(H2))
H3 == tree(rlc_bucket(Rlc), 7)
N3 == rlc_last_code_index(H3) + 1

\* The lengths as a reader has them.
T1 == [c \in 0 .. K1 - 1 |-> Sent[c + 1]]
T2 == [c \in 0 .. K2 - 1 |-> Sent[K1 + c + 1]]

\* Joined sequences have the terms of the one, then those of the other.
LEMMA AppendedAt ==
  ASSUME NEW S, NEW r \in Seq(S), NEW s \in Seq(S)
  PROVE  /\ \A i \in 1 .. Len(r) : (r \o s)[i] = r[i]
         /\ \A i \in 1 .. Len(s) : (r \o s)[Len(r) + i] = s[i]
<1>1. Len(r) \in Nat /\ Len(s) \in Nat /\ Len(r \o s) = Len(r) + Len(s)
  OBVIOUS
<1>2. \A i \in 1 .. Len(r) : (r \o s)[i] = r[i]
  OBVIOUS
<1>3. ASSUME NEW i \in 1 .. Len(s)
      PROVE  (r \o s)[Len(r) + i] = s[i]
  <2>1. PICK n \in Nat : n = Len(r)
    BY <1>1
  <2>2. n + i > Len(r) /\ n + i \in 1 .. Len(r) + Len(s) /\ (n + i) - Len(r) = i
    BY <1>1, <2>1
  <2>3. (r \o s)[n + i] = s[(n + i) - Len(r)]
    BY <1>1, <2>1, <2>2
  <2>4. QED
    BY <2>1, <2>2, <2>3
<1>4. QED
  BY <1>2, <1>3

LEMMA TreesSent ==
  ASSUME IsBlock(items)
  PROVE  /\ K1 \in 257 .. 286 /\ K2 \in 1 .. 30
         /\ Sent \in Seq(0 .. 15) /\ Len(Sent) = K1 + K2
         /\ StandsFor(T1, K1, H1, 286, used(lel_bucket))
         /\ StandsFor(T2, K2, H2, 30, used(dis_bucket))
         /\ Sent[K1] > 0 /\ T1[256] > 0
         /\ Encodes(Rlc, Sent, 0, Len(Sent))
<1>1. /\ IsTree(H1, 15, 286, used(lel_bucket)) /\ 256 \in used(lel_bucket)
      /\ IsTree(H2, 15, 30, used(dis_bucket)) /\ used(dis_bucket) # {}
  BY TreesAre, BucketsAre DEF H1, H2
<1>2. PICK d : d \in used(dis_bucket)
  BY <1>1
<1> DEFINE r == resized(H1)
           s == resized(H2)
           t1 == [c \in 0 .. K1 - 1 |-> r[c + 1]]
           t2 == [c \in 0 .. K2 - 1 |-> s[c + 1]]
<1>3. /\ K1 \in 257 .. 286 /\ r \in Seq(0 .. 15) /\ Len(r) = K1 /\ r[K1] > 0
      /\ StandsFor(t1, K1, H1, 286, used(lel_bucket))
  <2>1. IsResized(r, K1, H1, 286, used(lel_bucket), 256)
    BY <1>1, ResizedIs DEF K1
  <2>2. Received(r, K1) = t1
    BY DEF Received
  <2>3. QED
    BY <2>1, <2>2 DEF IsResized
<1>4. /\ K2 \in d + 1 .. 30 /\ s \in Seq(0 .. 15) /\ Len(s) = K2
      /\ StandsFor(t2, K2, H2, 30, used(dis_bucket))
  <2>1. IsResized(s, K2, H2, 30, used(dis_bucket), d)
    BY <1>1, <1>2, ResizedIs DEF K2
  <2>2. Received(s, K2) = t2
    BY DEF Received
  <2>3. QED
    BY <2>1, <2>2 DEF IsResized
<1>5. K2 \in 1 .. 30
  <2>1. d \in 0 .. 29
    BY <1>1, <1>2 DEF IsTree
  <2>2. QED
    BY <1>4, <2>1
<1> HIDE DEF r, s
<1>6. /\ Sent \in Seq(0 .. 15) /\ Len(Sent) = K1 + K2
      /\ Encodes(Rlc, Sent, 0, Len(Sent))
  BY <1>3, <1>4, BothEncoded DEF Sent, Rlc, r, s
<1>7. T1 = t1 /\ Sent[K1] = r[K1]
  <2>1. \A i \in 1 .. K1 : Sent[i] = r[i]
    BY <1>3, <1>4 DEF Sent, r, s
  <2>2. \A c \in 0 .. K1 - 1 : Sent[c + 1] = r[c + 1]
    BY <1>3, <2>1, SMTT(60)
  <2>3. QED
    BY <1>3, <2>1, <2>2 DEF T1
<1>8. T2 = t2
  <2>1. \A i \in 1 .. K2 : Sent[K1 + i] = s[i]
    <3>1. Sent = r \o s /\ K1 \in Nat /\ K2 \in Nat
      BY <1>3, <1>5 DEF Sent, r, s
    <3>2. r \in Seq(0 .. 15) /\ s \in Seq(0 .. 15) /\ Len(r) = K1 /\ Len(s) = K2
      BY <1>3, <1>4
    <3>3. \A i \in 1 .. Len(s) : (r \o s)[Len(r) + i] = s[i]
      <4>1. PICK S : S = 0 .. 15
        OBVIOUS
      <4>2. r \in Seq(S) /\ s \in Seq(S)
        BY <3>2, <4>1
      <4>3. QED
        BY <4>2, AppendedAt
    <3>4. QED
      BY <3>1, <3>2, <3>3, Zenon
  <2>2. \A c \in 0 .. K2 - 1 : Sent[K1 + c + 1] = s[c + 1]
    BY <1>3, <1>5, <2>1
  <2>3. QED
    BY <2>2 DEF T2
<1>9. T1[256] > 0
  BY <1>1, <1>3, <1>7 DEF StandsFor
<1>10. QED
  BY <1>3, <1>4, <1>5, <1>6, <1>7, <1>8, <1>9

LEMMA ThirdSent ==
  ASSUME IsBlock(items)
  PROVE  /\ IsCodes(Rlc)
         /\ IsComplete(H3, 15, 19) /\ H3 \in [0 .. 18 -> 0 .. 7]
         /\ \A k \in 1 .. Len(Rlc) : H3[Rlc[k] % 32] > 0
         /\ N3 \in 4 .. 19
         /\ \A i \in 1 .. 19 : i > N3 => H3[DeflateRLCPermutation[i]] = 0
<1>1. /\ K1 \in 257 .. 286 /\ K2 \in 1 .. 30 /\ Sent[K1] > 0
      /\ Sent \in Seq(0 .. 15) /\ Len(Sent) = K1 + K2
      /\ Encodes(Rlc, Sent, 0, Len(Sent))
  BY TreesSent
<1>2. K1 \in 1 .. Len(Sent)
  BY <1>1
<1>3. IsCodes(Rlc) /\ Len(Rlc) > 0 /\ \E k \in 1 .. Len(Rlc) : Rlc[k] % 32 \in 1 .. 15
  BY <1>1, <1>2, CodesAre
<1>4. /\ IsTree(H3, 7, 19, used(rlc_bucket(Rlc)))
      /\ \A k \in 1 .. Len(Rlc) : Rlc[k] % 32 \in used(rlc_bucket(Rlc))
  BY <1>3, ThirdTreeIs DEF H3
<1>5. IsComplete(H3, 7, 19) /\ \A k \in 1 .. Len(Rlc) : H3[Rlc[k] % 32] > 0
  BY <1>4 DEF IsTree
<1>6. IsComplete(H3, 15, 19)
  BY <1>5, CompleteWithin
<1>7. H3 \in [0 .. 18 -> 0 .. 7]
  <2>1. 19 - 1 = 18
    OBVIOUS
  <2>2. QED
    BY <1>5, <2>1 DEF IsComplete
<1>8. PICK x \in 1 .. 15 : H3[x] > 0
  BY <1>3, <1>5
<1>9. /\ rlc_last_code_index(H3) \in 3 .. 18
      /\ \A i \in 1 .. 19 :
           i > rlc_last_code_index(H3) + 1 => H3[DeflateRLCPermutation[i]] = 0
  <2>1. x \in 0 .. 15
    OBVIOUS
  <2>2. QED
    BY <1>7, <1>8, <2>1, LastIndexIs
<1>10. QED
  BY <1>3, <1>5, <1>6, <1>7, <1>9, SMTT(60) DEF N3

\* The code of a run length code and its extra bits; dynamic and fixed items.
LengthBits(h, c) ==
  LET decoded == run_length_decode(c)
      x == decoded[1]
      y == decoded[2]
  IN  tree_bits(h, x) \o (CASE x = 16 -> little(y - 3, 2)
                            [] x = 17 -> little(y - 3, 3)
                            [] x = 18 -> little(y - 11, 7)
                            [] OTHER -> <<>>)

\* How many extra bits follow the symbol x of the third tree.
ExtraOf(x) == IF x = 16 THEN 2 ELSE IF x = 17 THEN 3 ELSE IF x = 18 THEN 7 ELSE 0

LEMMA LittleNone ==
  ASSUME NEW x
  PROVE  little(x, 0) = <<>>
<1>1. little(x, 0) = [i \in 1 .. 0 |-> (x \div 2 ^ (i - 1)) % 2]
  BY DEF little
<1>2. 1 .. 0 = {}
  OBVIOUS
<1>3. QED
  BY <1>1, <1>2

LEMMA LengthBitsAre ==
  ASSUME NEW h, IsComplete(h, 15, 19), NEW c, NEW src, NEW a, NEW b,
         Tells(c, src, a, b), h[c % 32] > 0
  PROVE  LET x == c % 32
             y == c \div 32
             n == ExtraOf(x)
         IN  /\ x \in 0 .. 18 /\ y \in Nat /\ n \in Nat /\ y < 2 ^ n
             /\ LengthBits(h, c) = tree_bits(h, x) \o little(y, n)
             /\ tree_bits(h, x) \in Seq(Bit) /\ Len(tree_bits(h, x)) = h[x]
             /\ h[x] \in Nat
             /\ LengthBits(h, c) \in Seq(Bit)
             /\ Len(LengthBits(h, c)) = h[x] + n
<1> DEFINE x == c % 32
           y == c \div 32
           n == ExtraOf(x)
<1>1. c \in Nat /\ x \in 0 .. 31 /\ y \in Nat
  <2>1. c \in Nat /\ 32 \in Nat \ {0} /\ 32 - 1 = 31
    BY DEF Tells
  <2>2. QED
    BY <2>1, DivIs
<1>2. /\ x \in 0 .. 18
      /\ x <= 15 => y = 0
      /\ x = 16 => y <= 3
      /\ x = 17 => y <= 7
      /\ x = 18 => y <= 127
  <2>1. \/ x \in 0 .. 15 /\ y = 0
        \/ x = 16 /\ y \in 0 .. 3
        \/ x = 17 /\ y \in 0 .. 7
        \/ x = 18 /\ y \in 0 .. 127
    BY DEF Tells
  <2> HIDE DEF x, y
  <2>2. QED
    BY <1>1, <2>1
<1>3. LengthBits(h, c)
        = LET z == IF x <= 15 THEN y ELSE IF x <= 17 THEN y + 3 ELSE y + 11 IN
          tree_bits(h, x) \o (CASE x = 16 -> little(z - 3, 2)
                                [] x = 17 -> little(z - 3, 3)
                                [] x = 18 -> little(z - 11, 7)
                                [] OTHER -> <<>>)
  BY DEF LengthBits, run_length_decode
<1>4. tree_bits(h, x) \in Seq(Bit) /\ Len(tree_bits(h, x)) = h[x] /\ h[x] \in Nat
  <2>1. x \in 0 .. 19 - 1 /\ h[x] > 0
    BY <1>2
  <2> HIDE DEF x
  <2>2. QED
    BY <2>1, TreeBits
<1> HIDE DEF x, y
<1>5. n \in Nat /\ y < 2 ^ n /\ LengthBits(h, c) = tree_bits(h, x) \o little(y, n)
  <2>1. CASE x <= 15
    <3>1. n = 0 /\ y = 0
      BY <1>2, <2>1 DEF ExtraOf
    <3>2. LengthBits(h, c) = tree_bits(h, x) \o <<>>
      <4>1. x # 16 /\ x # 17 /\ x # 18
        BY <1>2, <2>1
      <4> HIDE DEF n
      <4>2. QED
        BY <1>3, <4>1
    <3>3. n \in Nat /\ little(y, n) = <<>> /\ y < 2 ^ n
      <4>1. 2 ^ 0 = 1 /\ 0 < 1 /\ 0 \in Nat
        BY PowersAre
      <4>2. QED
        BY <3>1, <4>1, LittleNone
    <3>4. QED
      BY <3>2, <3>3
  <2>2. CASE x = 16
    <3>1. n = 2 /\ y < 4 /\ (y + 3) - 3 = y
      BY <1>1, <1>2, <2>2 DEF ExtraOf
    <3>2. LengthBits(h, c) = tree_bits(h, x) \o little((y + 3) - 3, 2)
      BY <1>3, <2>2
    <3>3. QED
      BY <3>1, <3>2, PowersAre
  <2>3. CASE x = 17
    <3>1. n = 3 /\ y < 8 /\ (y + 3) - 3 = y
      BY <1>1, <1>2, <2>3 DEF ExtraOf
    <3>2. LengthBits(h, c) = tree_bits(h, x) \o little((y + 3) - 3, 3)
      BY <1>3, <2>3
    <3>3. QED
      BY <3>1, <3>2, PowersAre
  <2>4. CASE x = 18
    <3>1. n = 7 /\ y < 128 /\ (y + 11) - 11 = y
      BY <1>1, <1>2, <2>4 DEF ExtraOf
    <3>2. LengthBits(h, c) = tree_bits(h, x) \o little((y + 11) - 11, 7)
      BY <1>3, <2>4
    <3>3. QED
      BY <3>1, <3>2, PowersAre
  <2>5. QED
    BY <1>2, <2>1, <2>2, <2>3, <2>4, SMTT(60)
<1> HIDE DEF n
<1>6. little(y, n) \in Seq(Bit) /\ Len(little(y, n)) = n
  BY <1>1, <1>5, LittleIs
<1>7. LengthBits(h, c) \in Seq(Bit) /\ Len(LengthBits(h, c)) = h[x] + n
  BY <1>4, <1>5, <1>6, Joined
<1>8. QED
  BY <1>1, <1>2, <1>4, <1>5, <1>7 DEF x, y, n

-------------------------------------------------------------------------------
(* Reading a block.                                                        *)

\* A reader, field by field.
Rd(pc, pos, final, hlit, hdist, lens, dec, lel, dis, out) ==
  [pc |-> pc, pos |-> pos, final |-> final, hlit |-> hlit, hdist |-> hdist,
   lens |-> lens, code |-> dec, lel |-> lel, dis |-> dis, out |-> out]

\* One field is changed.
LEMMA RdPc ==
  ASSUME NEW pc, NEW pos, NEW final, NEW hlit, NEW hdist, NEW lens, NEW dec, NEW lel,
         NEW dis, NEW out, NEW x
  PROVE  [Rd(pc, pos, final, hlit, hdist, lens, dec, lel, dis, out) EXCEPT !.pc = x]
           = Rd(x, pos, final, hlit, hdist, lens, dec, lel, dis, out)
  BY SMT DEF Rd

LEMMA RdPos ==
  ASSUME NEW pc, NEW pos, NEW final, NEW hlit, NEW hdist, NEW lens, NEW dec, NEW lel,
         NEW dis, NEW out, NEW x
  PROVE  [Rd(pc, pos, final, hlit, hdist, lens, dec, lel, dis, out) EXCEPT !.pos = x]
           = Rd(pc, x, final, hlit, hdist, lens, dec, lel, dis, out)
  BY SMT DEF Rd

LEMMA RdFinal ==
  ASSUME NEW pc, NEW pos, NEW final, NEW hlit, NEW hdist, NEW lens, NEW dec, NEW lel,
         NEW dis, NEW out, NEW x
  PROVE  [Rd(pc, pos, final, hlit, hdist, lens, dec, lel, dis, out) EXCEPT !.final = x]
           = Rd(pc, pos, x, hlit, hdist, lens, dec, lel, dis, out)
  BY SMT DEF Rd

LEMMA RdHlit ==
  ASSUME NEW pc, NEW pos, NEW final, NEW hlit, NEW hdist, NEW lens, NEW dec, NEW lel,
         NEW dis, NEW out, NEW x
  PROVE  [Rd(pc, pos, final, hlit, hdist, lens, dec, lel, dis, out) EXCEPT !.hlit = x]
           = Rd(pc, pos, final, x, hdist, lens, dec, lel, dis, out)
  BY SMT DEF Rd

LEMMA RdHdist ==
  ASSUME NEW pc, NEW pos, NEW final, NEW hlit, NEW hdist, NEW lens, NEW dec, NEW lel,
         NEW dis, NEW out, NEW x
  PROVE  [Rd(pc, pos, final, hlit, hdist, lens, dec, lel, dis, out) EXCEPT !.hdist = x]
           = Rd(pc, pos, final, hlit, x, lens, dec, lel, dis, out)
  BY SMT DEF Rd

LEMMA RdLens ==
  ASSUME NEW pc, NEW pos, NEW final, NEW hlit, NEW hdist, NEW lens, NEW dec, NEW lel,
         NEW dis, NEW out, NEW x
  PROVE  [Rd(pc, pos, final, hlit, hdist, lens, dec, lel, dis, out) EXCEPT !.lens = x]
           = Rd(pc, pos, final, hlit, hdist, x, dec, lel, dis, out)
  BY SMT DEF Rd

LEMMA RdCode ==
  ASSUME NEW pc, NEW pos, NEW final, NEW hlit, NEW hdist, NEW lens, NEW dec, NEW lel,
         NEW dis, NEW out, NEW x
  PROVE  [Rd(pc, pos, final, hlit, hdist, lens, dec, lel, dis, out) EXCEPT !.code = x]
           = Rd(pc, pos, final, hlit, hdist, lens, x, lel, dis, out)
  BY SMT DEF Rd

LEMMA RdLel ==
  ASSUME NEW pc, NEW pos, NEW final, NEW hlit, NEW hdist, NEW lens, NEW dec, NEW lel,
         NEW dis, NEW out, NEW x
  PROVE  [Rd(pc, pos, final, hlit, hdist, lens, dec, lel, dis, out) EXCEPT !.lel = x]
           = Rd(pc, pos, final, hlit, hdist, lens, dec, x, dis, out)
  BY SMT DEF Rd

LEMMA RdDis ==
  ASSUME NEW pc, NEW pos, NEW final, NEW hlit, NEW hdist, NEW lens, NEW dec, NEW lel,
         NEW dis, NEW out, NEW x
  PROVE  [Rd(pc, pos, final, hlit, hdist, lens, dec, lel, dis, out) EXCEPT !.dis = x]
           = Rd(pc, pos, final, hlit, hdist, lens, dec, lel, x, out)
  BY SMT DEF Rd

LEMMA RdOut ==
  ASSUME NEW pc, NEW pos, NEW final, NEW hlit, NEW hdist, NEW lens, NEW dec, NEW lel,
         NEW dis, NEW out, NEW x
  PROVE  [Rd(pc, pos, final, hlit, hdist, lens, dec, lel, dis, out) EXCEPT !.out = x]
           = Rd(pc, pos, final, hlit, hdist, lens, dec, lel, dis, x)
  BY SMT DEF Rd

LEMMA RdFields ==
  ASSUME NEW pc, NEW pos, NEW final, NEW hlit, NEW hdist, NEW lens, NEW dec, NEW lel,
         NEW dis, NEW out
  PROVE  LET r == Rd(pc, pos, final, hlit, hdist, lens, dec, lel, dis, out) IN
         /\ r.pc = pc /\ r.pos = pos /\ r.final = final /\ r.hlit = hlit
         /\ r.hdist = hdist /\ r.lens = lens /\ r.code = dec /\ r.lel = lel
         /\ r.dis = dis /\ r.out = out
  BY DEF Rd

\* The first b terms of s.
Prefix(s, b) == SubSeq(s, 1, b)

LEMMA PrefixIs ==
  ASSUME NEW s, Len(s) \in Nat, NEW b \in 0 .. Len(s)
  PROVE  /\ Prefix(s, b) = [i \in 1 .. b |-> s[i]]
         /\ Len(Prefix(s, b)) = b
         /\ Prefix(s, 0) = <<>>
<1>1. \A n \in Nat : Prefix(s, n) = [i \in 1 .. n |-> s[i]]
  <2>1. SUFFICES ASSUME NEW n \in Nat PROVE Prefix(s, n) = [i \in 1 .. n |-> s[i]]
    OBVIOUS
  <2>2. QED
    BY DEF Prefix
<1>2. QED
  BY <1>1

\* n times v.
Repeated(v, n) == [i \in 1 .. n |-> v]

\* Terms that are appended to a prefix, and are those of s, make a longer one.
LEMMA PrefixGrows ==
  ASSUME NEW s, NEW a, NEW n \in Nat, NEW v, RunOf(v, s, a, a + n)
  PROVE  Prefix(s, a) \o Repeated(v, n) = Prefix(s, a + n)
<1> DEFINE p == [i \in 1 .. a |-> s[i]]
           q == [i \in 1 .. n |-> v]
<1>0. /\ Len(s) \in Nat /\ a \in Nat /\ a + n <= Len(s)
      /\ \A i \in a + 1 .. a + n : s[i] = v
  BY DEF RunOf
<1>1. Prefix(s, a) = p /\ Prefix(s, a + n) = [i \in 1 .. a + n |-> s[i]]
  BY <1>0, PrefixIs
<1>2. p \o q = [i \in 1 .. a + n |-> s[i]]
  <2>1. Len(p) = a /\ Len(q) = n
    BY <1>0
  <2>2. p \o q = [i \in 1 .. a + n |-> IF i <= a THEN p[i] ELSE q[i - a]]
    BY <1>0, <2>1
  <2>3. ASSUME NEW i \in 1 .. a + n
        PROVE  (IF i <= a THEN p[i] ELSE q[i - a]) = s[i]
    <3>1. CASE i <= a
      BY <1>0, <3>1
    <3>2. CASE ~ (i <= a)
      <4>1. i - a \in 1 .. n /\ i \in a + 1 .. a + n
        BY <1>0, <3>2
      <4>2. QED
        BY <1>0, <3>2, <4>1
    <3>3. QED
      BY <3>1, <3>2
  <2>4. QED
    BY <2>2, <2>3
<1>3. QED
  BY <1>1, <1>2 DEF Repeated

\* Where, and in which direction, a piece tells of src what Tells says.
LEMMA LengthRead ==
  ASSUME NEW h, IsComplete(h, 15, 19), NEW c, NEW src, NEW a, NEW b,
         Tells(c, src, a, b), h[c % 32] > 0,
         Len(src) \in Nat, a <= Len(src),
         NEW bits \in Seq(Bit), NEW pos \in Nat, Holds(bits, pos, LengthBits(h, c)),
         NEW final, NEW hlit, NEW hdist, hlit + hdist = Len(src),
         NEW lel, NEW dis, NEW out
  PROVE  Reader!read_length(Rd("lengths", pos, final, hlit, hdist, Prefix(src, a),
                               Reader!decoder(h), lel, dis, out), bits)
           = Rd("lengths", pos + Len(LengthBits(h, c)), final, hlit, hdist,
                Prefix(src, b), Reader!decoder(h), lel, dis, out)
<1> DEFINE x == c % 32
           y == c \div 32
           n == ExtraOf(x)
           dec == Reader!decoder(h)
           r == Rd("lengths", pos, final, hlit, hdist, Prefix(src, a), dec, lel, dis, out)
           at == pos + h[x]
           times == IF x < 16 THEN 1
                    ELSE Reader!number(bits, at, n) + (IF x = 18 THEN 11 ELSE 3)
           value == IF x < 16 THEN x ELSE IF x = 16 THEN Prefix(src, a)[Len(Prefix(src, a))]
                    ELSE 0
<1>1. /\ x \in 0 .. 18 /\ y \in Nat /\ n \in Nat /\ y < 2 ^ n
      /\ LengthBits(h, c) = tree_bits(h, x) \o little(y, n)
      /\ tree_bits(h, x) \in Seq(Bit) /\ Len(tree_bits(h, x)) = h[x] /\ h[x] \in Nat
      /\ Len(LengthBits(h, c)) = h[x] + n
  BY LengthBitsAre
<1>2. a \in Nat /\ b \in Nat /\ b <= Len(src)
  BY DEF Tells
<1>3. \/ x \in 0 .. 15 /\ b = a + 1 /\ src[b] = x
      \/ /\ x = 16 /\ b = a + y + 3 /\ a > 0
         /\ \A i \in a + 1 .. b : src[i] = src[a]
      \/ /\ x = 17 /\ b = a + y + 3
         /\ \A i \in a + 1 .. b : src[i] = 0
      \/ /\ x = 18 /\ b = a + y + 11
         /\ \A i \in a + 1 .. b : src[i] = 0
  BY DEF Tells
<1>4. h[x] > 0
  OBVIOUS
<1> HIDE DEF x, y
<1>5. Len(Prefix(src, a)) = a /\ (a > 0 => Prefix(src, a)[a] = src[a])
  BY <1>2, PrefixIs
<1>6. little(y, n) \in Seq(Bit)
  BY <1>1, LittleIs
<1>7. /\ Holds(bits, pos, tree_bits(h, x))
      /\ Holds(bits, at, little(y, n))
  BY <1>1, <1>6, HoldsBoth, SMTT(60)
<1>8. Reader!symbol(dec, bits, pos) = x /\ dec[x].len = h[x]
  <2>1. x \in 0 .. 19 - 1
    BY <1>1
  <2>2. QED
    BY <1>4, <1>7, <2>1, CodeRead
<1>9. Reader!number(bits, at, n) = y
  <2>1. at \in Nat
    BY <1>1, SMTT(60)
  <2> HIDE DEF at, n
  <2>2. QED
    BY <1>1, <1>7, <2>1, NumberRead
<1>10. times \in Nat /\ b = a + times /\ \A i \in a + 1 .. a + times : src[i] = value
  <2>1. CASE x \in 0 .. 15
    BY <1>2, <1>3, <2>1
  <2>2. CASE x = 16
    <3>1. a > 0 /\ b = a + y + 3 /\ \A i \in a + 1 .. b : src[i] = src[a]
      BY <1>3, <2>2
    <3>2. times = y + 3 /\ value = src[a]
      BY <1>5, <1>9, <2>2, <3>1
    <3> HIDE DEF times, value
    <3>3. b = a + times /\ times \in Nat
      BY <1>1, <1>2, <3>1, <3>2
    <3>4. QED
      BY <3>1, <3>2, <3>3
  <2>3. CASE x = 17
    <3>1. b = a + y + 3 /\ \A i \in a + 1 .. b : src[i] = 0
      BY <1>3, <2>3
    <3>2. times = y + 3 /\ value = 0
      BY <1>9, <2>3
    <3> HIDE DEF times, value
    <3>3. b = a + times /\ times \in Nat
      BY <1>1, <1>2, <3>1, <3>2
    <3>4. QED
      BY <3>1, <3>2, <3>3
  <2>4. CASE x = 18
    <3>1. b = a + y + 11 /\ \A i \in a + 1 .. b : src[i] = 0
      BY <1>3, <2>4
    <3>2. times = y + 11 /\ value = 0
      BY <1>9, <2>4
    <3> HIDE DEF times, value
    <3>3. b = a + times /\ times \in Nat
      BY <1>1, <1>2, <3>1, <3>2
    <3>4. QED
      BY <3>1, <3>2, <3>3
  <2>5. QED
    BY <1>1, <2>1, <2>2, <2>3, <2>4
<1>11. Prefix(src, a) \o [i \in 1 .. times |-> value] = Prefix(src, b)
  <2> HIDE DEF times, value
  <2>1. RunOf(value, src, a, a + times)
    BY <1>2, <1>10 DEF RunOf
  <2>2. Prefix(src, a) \o Repeated(value, times) = Prefix(src, a + times)
    BY <1>2, <1>10, <2>1, PrefixGrows
  <2>3. QED
    BY <1>10, <2>2 DEF Repeated
<1>12. ~ (\/ x = 16 /\ Prefix(src, a) = <<>>
          \/ Len(Prefix(src, a)) + times > hlit + hdist)
  <2>1. x = 16 => a > 0
    BY <1>3
  <2>2. Prefix(src, a) = <<>> => a = 0
    BY <1>5
  <2>3. Len(Prefix(src, a)) + times = b
    BY <1>5, <1>10
  <2> HIDE DEF times
  <2>4. QED
    BY <1>2, <2>1, <2>2, <2>3
<1>13. /\ r.code = dec /\ r.pos = pos /\ r.lens = Prefix(src, a)
       /\ r.hlit = hlit /\ r.hdist = hdist
  BY DEF Rd
<1>14. Reader!read_length(r, bits)
         = [r EXCEPT !.pos = at + n, !.lens = @ \o [i \in 1 .. times |-> value]]
  <2>1. n = IF x = 16 THEN 2 ELSE IF x = 17 THEN 3 ELSE IF x = 18 THEN 7 ELSE 0
    BY DEF ExtraOf
  <2> HIDE DEF r, n, dec
  <2>2. QED
    BY <1>8, <1>12, <1>13, <2>1, ZenonT(60) DEF Reader!read_length
<1>15. at + n = pos + Len(LengthBits(h, c))
  BY <1>1, SMTT(60)
<1>16. [r EXCEPT !.pos = at + n, !.lens = @ \o [i \in 1 .. times |-> value]]
         = Rd("lengths", pos + Len(LengthBits(h, c)), final, hlit, hdist,
              Prefix(src, b), dec, lel, dis, out)
  <2> DEFINE p == at + n
             q == Prefix(src, b)
  <2>1. r.lens \o [i \in 1 .. times |-> value] = q
    BY <1>11, <1>13
  <2> HIDE DEF q
  <2>2. [r EXCEPT !.pos = p, !.lens = @ \o [i \in 1 .. times |-> value]]
          = [r EXCEPT !.pos = p, !.lens = q]
    BY <2>1
  <2> HIDE DEF p, dec
  <2>3. [r EXCEPT !.pos = p, !.lens = q]
          = Rd("lengths", p, final, hlit, hdist, q, dec, lel, dis, out)
    <3>1. [r EXCEPT !.pos = p] = Rd("lengths", p, final, hlit, hdist, Prefix(src, a),
                                    dec, lel, dis, out)
      BY RdPos, SMT
    <3>2. [Rd("lengths", p, final, hlit, hdist, Prefix(src, a), dec, lel, dis, out)
             EXCEPT !.lens = q]
            = Rd("lengths", p, final, hlit, hdist, q, dec, lel, dis, out)
      BY RdLens, SMT
    <3> HIDE DEF r
    <3>3. QED
      BY <3>1, <3>2, Zenon
  <2>4. QED
    BY <1>15, <2>2, <2>3 DEF p, q
<1>17. QED
  BY <1>14, <1>16

\* The lengths of the third tree, as a reader puts them in their places.
ThirdLengths(bits, n) ==
  [c \in 0 .. 18 |->
     LET k == CHOOSE i \in 1 .. 19 : Reader!LengthOrder[i] = c IN
     IF k <= n THEN Reader!number(bits, 17 + 3 * (k - 1), 3) ELSE 0]
ZeroBehind(h, n) == \A i \in 1 .. 19 : i > n => h[DeflateRLCPermutation[i]] = 0

LEMMA ThirdReceived ==
  ASSUME NEW h \in [0 .. 18 -> 0 .. 7], NEW n \in 4 .. 19, ZeroBehind(h, n),
         NEW bits, NEW lb, NEW a, NEW b, NEW d, HeadFound(bits, lb, a, b, d, h, n)
  PROVE  ThirdLengths(bits, n) = h
<1> DEFINE p == DeflateRLCPermutation
<1>1. Reader!LengthOrder = p /\ \A c \in 0 .. 18 : \E i \in 1 .. 19 : p[i] = c
  BY OrderIs
<1> DEFINE place(c) == CHOOSE i \in 1 .. 19 : Reader!LengthOrder[i] = c
<1> HIDE DEF p
<1>2. ASSUME NEW c \in 0 .. 18
      PROVE  (IF place(c) <= n THEN Reader!number(bits, 17 + 3 * (place(c) - 1), 3) ELSE 0)
               = h[c]
  <2>1. place(c) \in 1 .. 19 /\ p[place(c)] = c
    BY <1>1
  <2> HIDE DEF place
  <2>2. PICK k \in 1 .. 19 : k = place(c)
    BY <2>1
  <2>3. p[k] = c
    BY <2>1, <2>2
  <2>4. (IF k <= n THEN Reader!number(bits, 17 + 3 * (k - 1), 3) ELSE 0) = h[c]
    <3>1. CASE k <= n
      <4>1. k \in 1 .. n
        BY <3>1
      <4>2. Reader!number(bits, 17 + 3 * (k - 1), 3) = h[p[k]]
        BY <4>1 DEF p, HeadFound
      <4>3. QED
        BY <2>3, <3>1, <4>2
    <3>2. CASE ~ (k <= n)
      <4>1. k > n
        BY <3>2
      <4>2. h[p[k]] = 0
        BY <4>1 DEF p, ZeroBehind
      <4>3. QED
        BY <2>3, <3>2, <4>2
    <3>3. QED
      BY <3>1, <3>2
  <2>5. QED
    BY <2>2, <2>4
<1> HIDE DEF place
<1>3. [c \in 0 .. 18 |->
         IF place(c) <= n THEN Reader!number(bits, 17 + 3 * (place(c) - 1), 3) ELSE 0] = h
  BY <1>2
<1>4. QED
  BY <1>3 DEF place, ThirdLengths

\* What read_header does, with the value of the first bit.
HeaderCase(r, bits) ==
  LET type == Reader!number(bits, 1, 2) IN
  CASE type = 1 -> [r EXCEPT !.pc = "items", !.pos = 3,
                             !.lel = Reader!StaticLEL, !.dis = Reader!StaticDis]
    [] type = 2 -> Reader!dynamic_header(r, bits)
    [] OTHER -> Reader!refuse(r)

LEMMA HeaderStarts ==
  ASSUME NEW bits, NEW lb, Reader!bit_at(bits, 0) = lb, Len(bits) > 0,
         NEW z, NEW e, z = 0, e = <<>>
  PROVE  Reader!read_header(Reader!Start, bits)
           = HeaderCase(Rd("header", z, lb, z, z, e, e, e, e, e), bits)
<1>1. bits[1] = lb
  <2>1. Reader!bit_at(bits, 0) = bits[1]
    BY DEF Reader!bit_at
  <2>2. QED
    BY <2>1
<1>2. Reader!Start = Rd("header", z, z, z, z, e, e, e, e, e)
  BY DEF Reader!Start, Rd
<1>3. [Rd("header", z, z, z, z, e, e, e, e, e) EXCEPT !.final = lb]
        = Rd("header", z, lb, z, z, e, e, e, e, e)
  BY RdFinal, SMT
<1>4. Reader!read_header(Reader!Start, bits)
        = HeaderCase([Reader!Start EXCEPT !.final = bits[1]], bits)
  BY Zenon DEF Reader!read_header, HeaderCase
<1>5. QED
  BY <1>1, <1>2, <1>3, <1>4, Zenon

\* The header of a dynamic block is found in bits, and is one to be read.
HeaderFits(bits, lb, a, b, h, n) ==
  /\ a \in 257 .. 286 /\ b \in 1 .. 30 /\ h \in [0 .. 18 -> 0 .. 7]
  /\ IsComplete(h, 15, 19) /\ n \in 4 .. 19 /\ ZeroBehind(h, n) /\ Len(bits) > 0
  /\ HeadFound(bits, lb, a - 257, b - 1, n - 4, h, n)

LEMMA HeaderRead ==
  ASSUME NEW bits, NEW lb, NEW a, NEW b, NEW h, NEW n, HeaderFits(bits, lb, a, b, h, n)
  PROVE  Reader!read_header(Reader!Start, bits)
           = Rd("lengths", 17 + 3 * n, lb, a, b, <<>>, Reader!decoder(h), <<>>, <<>>, <<>>)
<1> USE DEF HeaderFits
<1>1. PICK z, e : z = 0 /\ e = <<>>
  OBVIOUS
<1>2. PICK p, dec, hlit, hdist :
        p = 17 + 3 * n /\ dec = Reader!decoder(h) /\ hlit = a /\ hdist = b
  OBVIOUS
<1> DEFINE r == Rd("header", z, lb, z, z, e, e, e, e, e)
<1>3. Reader!read_header(Reader!Start, bits) = HeaderCase(r, bits)
  BY <1>1, HeaderStarts DEF HeadFound
<1>4. Reader!number(bits, 1, 2) = 2
  BY DEF HeadFound
<1>5. /\ Reader!number(bits, 3, 5) + 257 = a
      /\ Reader!number(bits, 8, 5) + 1 = b
      /\ Reader!number(bits, 13, 4) + 4 = n
  <2>1. PICK x, y, w : /\ x = Reader!number(bits, 3, 5) /\ y = Reader!number(bits, 8, 5)
                       /\ w = Reader!number(bits, 13, 4)
    OBVIOUS
  <2>2. x = a - 257 /\ y = b - 1 /\ w = n - 4
    BY <2>1, Zenon DEF HeadFound
  <2>3. x + 257 = a /\ y + 1 = b /\ w + 4 = n
    BY <2>2
  <2>4. QED
    BY <2>1, <2>3
<1>6. ThirdLengths(bits, n) = h /\ Reader!complete(h)
  BY ThirdReceived, CoveredIs
<1> HIDE DEF r
<1>7. HeaderCase(r, bits) = Reader!dynamic_header(r, bits)
  BY <1>4 DEF HeaderCase
<1> DEFINE Found(x, y, w, cl) ==
             IF x <= 286 /\ y <= 30 /\ Reader!complete(cl)
             THEN [r EXCEPT !.pc = "lengths", !.pos = 17 + 3 * w,
                            !.hlit = x, !.hdist = y, !.code = Reader!decoder(cl)]
             ELSE Reader!refuse(r)
<1>8. Reader!dynamic_header(r, bits)
        = Found(Reader!number(bits, 3, 5) + 257, Reader!number(bits, 8, 5) + 1,
                Reader!number(bits, 13, 4) + 4,
                ThirdLengths(bits, Reader!number(bits, 13, 4) + 4))
  BY Zenon DEF Reader!dynamic_header, ThirdLengths
<1>9. Reader!dynamic_header(r, bits) = Found(a, b, n, h)
  <2> HIDE DEF Found
  <2>1. QED
    BY <1>5, <1>6, <1>8, Zenon
<1>10. Found(a, b, n, h)
         = [r EXCEPT !.pc = "lengths", !.pos = p, !.hlit = hlit, !.hdist = hdist, !.code = dec]
  <2>1. a <= 286 /\ b <= 30
    OBVIOUS
  <2>2. QED
    BY <1>2, <1>6, <2>1, Zenon
<1> DEFINE r1 == Rd("lengths", z, lb, z, z, e, e, e, e, e)
           r2 == Rd("lengths", p, lb, z, z, e, e, e, e, e)
           r3 == Rd("lengths", p, lb, hlit, z, e, e, e, e, e)
           r4 == Rd("lengths", p, lb, hlit, hdist, e, e, e, e, e)
           r5 == Rd("lengths", p, lb, hlit, hdist, e, dec, e, e, e)
<1>11. [r EXCEPT !.pc = "lengths"] = r1
  BY RdPc, SMT DEF r
<1>12. [r1 EXCEPT !.pos = p] = r2
  BY RdPos, SMT
<1>13. [r2 EXCEPT !.hlit = hlit] = r3
  BY RdHlit, SMT
<1>14. [r3 EXCEPT !.hdist = hdist] = r4
  BY RdHdist, SMT
<1>15. [r4 EXCEPT !.code = dec] = r5
  BY RdCode, SMT
<1> HIDE DEF r1, r2, r3, r4, Found
<1>16. [r EXCEPT !.pc = "lengths", !.pos = p, !.hlit = hlit, !.hdist = hdist,
                 !.code = dec] = r5
  BY <1>11, <1>12, <1>13, <1>14, <1>15, Zenon
<1> HIDE DEF r5
<1>17. Reader!read_header(Reader!Start, bits) = r5
  BY <1>3, <1>7, <1>9, <1>10, <1>16, Zenon
<1>18. QED
  BY <1>1, <1>2, <1>17 DEF r5

LEMMA StaticHeaderIs ==
  ASSUME NEW lb \in Bit
  PROVE  LET t == <<lb>> \o little(1, 2) IN
         /\ t \in Seq(Bit) /\ Len(t) = 3
         /\ \A bits \in Seq(Bit) : Len(bits) > 0 /\ Holds(bits, 0, t) =>
              Reader!read_header(Reader!Start, bits)
                = Rd("items", 3, lb, 0, 0, <<>>, <<>>, Reader!StaticLEL, Reader!StaticDis,
                     <<>>)
<1> DEFINE u == <<lb>>
           t == u \o little(1, 2)
<1>1. u \in Seq(Bit) /\ Len(u) = 1 /\ u[1] = lb
  OBVIOUS
<1>2. little(1, 2) \in Seq(Bit) /\ Len(little(1, 2)) = 2
  BY LittleIs
<1> HIDE DEF u
<1>3. t \in Seq(Bit) /\ Len(t) = 3
  <2>1. t \in Seq(Bit) /\ Len(t) = Len(u) + Len(little(1, 2))
    BY <1>1, <1>2, Joined
  <2>2. Len(u) = 1 /\ Len(little(1, 2)) = 2
    BY <1>1, <1>2
  <2>3. Len(u) + Len(little(1, 2)) = 3
    <3>1. 1 + 2 = 3
      OBVIOUS
    <3>2. QED
      BY <2>2, <3>1, Zenon
  <2> HIDE DEF t
  <2>4. QED
    BY <2>1, <2>2, <2>3
<1>4. ASSUME NEW bits \in Seq(Bit), Len(bits) > 0, Holds(bits, 0, t)
      PROVE  Reader!read_header(Reader!Start, bits)
               = Rd("items", 3, lb, 0, 0, <<>>, <<>>, Reader!StaticLEL, Reader!StaticDis,
                    <<>>)
  <2>1. Holds(bits, 0, u) /\ Holds(bits, 1, little(1, 2))
    <3>1. Holds(bits, 0, u) /\ Holds(bits, 0 + Len(u), little(1, 2))
      BY <1>1, <1>2, <1>4, HoldsBoth
    <3>2. 0 + Len(u) = 1
      BY <1>1
    <3>3. QED
      BY <3>1, <3>2
  <2>2. Reader!bit_at(bits, 0) = lb
    <3>1. Reader!bit_at(bits, 0 + 1 - 1) = u[1]
      BY <1>1, <2>1 DEF Holds
    <3>2. QED
      BY <1>1, <3>1
  <2>3. Reader!number(bits, 1, 2) = 1
    <3>1. 1 < 2 ^ 2
      BY PowersAre
    <3>2. QED
      BY <2>1, <3>1, NumberRead
  <2>4. PICK z, e : z = 0 /\ e = <<>>
    OBVIOUS
  <2>5. PICK lel, dis, p : lel = Reader!StaticLEL /\ dis = Reader!StaticDis /\ p = 3
    OBVIOUS
  <2> DEFINE r == Rd("header", z, lb, z, z, e, e, e, e, e)
  <2>6. Reader!read_header(Reader!Start, bits) = HeaderCase(r, bits)
    BY <1>4, <2>2, <2>4, HeaderStarts
  <2> HIDE DEF r
  <2>7. HeaderCase(r, bits) = [r EXCEPT !.pc = "items", !.pos = p, !.lel = lel, !.dis = dis]
    BY <2>3, <2>5 DEF HeaderCase
  <2> DEFINE r1 == Rd("items", z, lb, z, z, e, e, e, e, e)
             r2 == Rd("items", p, lb, z, z, e, e, e, e, e)
             r3 == Rd("items", p, lb, z, z, e, e, lel, e, e)
             r4 == Rd("items", p, lb, z, z, e, e, lel, dis, e)
  <2>8. [r EXCEPT !.pc = "items"] = r1
    BY RdPc, SMT DEF r
  <2>9. [r1 EXCEPT !.pos = p] = r2
    BY RdPos, SMT
  <2>10. [r2 EXCEPT !.lel = lel] = r3
    BY RdLel, SMT
  <2>11. [r3 EXCEPT !.dis = dis] = r4
    BY RdDis, SMT
  <2> HIDE DEF r1, r2, r3
  <2>12. [r EXCEPT !.pc = "items", !.pos = p, !.lel = lel, !.dis = dis] = r4
    BY <2>8, <2>9, <2>10, <2>11, Zenon
  <2>13. QED
    BY <2>4, <2>5, <2>6, <2>7, <2>12
<1>5. QED
  BY <1>3, <1>4 DEF u

\* The lengths behind the first a.
Second(r, a, b) == [c \in 0 .. b - 1 |-> r[a + c + 1]]

LEMMA CodesBuilt ==
  ASSUME NEW a \in Nat, NEW b \in Nat, NEW lens, NEW t1, NEW t2,
         t1 = Received(lens, a), t2 = Second(lens, a, b),
         IsComplete(t1, 15, a), IsComplete(t2, 15, b), t1[256] > 0,
         NEW pos, NEW final, NEW dec, NEW l0, NEW d0, NEW out
  PROVE  Reader!build_codes(Rd("lengths", pos, final, a, b, lens, dec, l0, d0, out))
           = Rd("items", pos, final, a, b, lens, <<>>, Reader!decoder(t1),
                Reader!decoder(t2), out)
<1>1. PICK e, lel, dis : e = <<>> /\ lel = Reader!decoder(t1) /\ dis = Reader!decoder(t2)
  OBVIOUS
<1> DEFINE r == Rd("lengths", pos, final, a, b, lens, dec, l0, d0, out)
           Built(x, y) == IF Reader!complete(x) /\ Reader!complete(y) /\ x[256] > 0
                          THEN [r EXCEPT !.pc = "items", !.code = <<>>,
                                         !.lel = Reader!decoder(x), !.dis = Reader!decoder(y)]
                          ELSE Reader!refuse(r)
<1>2. r.lens = lens /\ r.hlit = a /\ r.hdist = b
  BY RdFields, SMT
<1> HIDE DEF r
<1>3. Reader!build_codes(r) = Built(Received(r.lens, r.hlit), Second(r.lens, r.hlit, r.hdist))
  BY Zenon DEF Reader!build_codes, Received, Second
<1>4. Reader!build_codes(r) = Built(t1, t2)
  <2> HIDE DEF Built
  <2>1. QED
    BY <1>2, <1>3, Zenon
<1>5. Reader!complete(t1) /\ Reader!complete(t2)
  BY CoveredIs
<1>6. Built(t1, t2) = [r EXCEPT !.pc = "items", !.code = e, !.lel = lel, !.dis = dis]
  BY <1>1, <1>5, Zenon
<1> DEFINE r1 == Rd("items", pos, final, a, b, lens, dec, l0, d0, out)
           r2 == Rd("items", pos, final, a, b, lens, e, l0, d0, out)
           r3 == Rd("items", pos, final, a, b, lens, e, lel, d0, out)
           r4 == Rd("items", pos, final, a, b, lens, e, lel, dis, out)
<1>7. [r EXCEPT !.pc = "items"] = r1
  BY RdPc, SMT DEF r
<1>8. [r1 EXCEPT !.code = e] = r2
  BY RdCode, SMT
<1>9. [r2 EXCEPT !.lel = lel] = r3
  BY RdLel, SMT
<1>10. [r3 EXCEPT !.dis = dis] = r4
  BY RdDis, SMT
<1> HIDE DEF r1, r2, r3, r4, Built
<1>11. [r EXCEPT !.pc = "items", !.code = e, !.lel = lel, !.dis = dis] = r4
  BY <1>7, <1>8, <1>9, <1>10, Zenon
<1>12. Reader!build_codes(r) = r4
  BY <1>4, <1>6, <1>11, Zenon
<1>13. QED
  BY <1>1, <1>12, Zenon DEF r, r4

-------------------------------------------------------------------------------
(* Reading items.                                                          *)

\* An item, with the codes t1 and t2.
TwoTreeBits(t1, t2, item) ==
  tree_bits(IF item.type = "distance" THEN t2 ELSE t1, row(item)[1]) \o extra_bits(item)

AreTrees(t1, M1, t2, M2) ==
  M1 \in Nat /\ M2 \in Nat /\ IsComplete(t1, 15, M1) /\ IsComplete(t2, 15, M2)

\* One of them has a code for it.
HasCode(t1, M1, t2, M2, item) ==
  IF item.type = "distance" THEN row(item)[1] \in 0 .. M2 - 1 /\ t2[row(item)[1]] > 0
  ELSE row(item)[1] \in 0 .. M1 - 1 /\ t1[row(item)[1]] > 0

\* The bits of an item are a code of t and extra bits.
IsPiece(s, t, M, c, x, n) ==
  /\ c \in 0 .. M - 1 /\ t[c] \in Nat /\ t[c] > 0 /\ Fits(x, n)
  /\ s = tree_bits(t, c) \o little(x, n)
  /\ tree_bits(t, c) \in Seq(Bit) /\ Len(tree_bits(t, c)) = t[c]
  /\ little(x, n) \in Seq(Bit)
  /\ s \in Seq(Bit) /\ Len(s) = t[c] + n

LEMMA PieceIs ==
  ASSUME NEW M \in Nat, NEW t, IsComplete(t, 15, M), NEW c \in 0 .. M - 1, t[c] > 0,
         NEW x, NEW n, Fits(x, n)
  PROVE  IsPiece(tree_bits(t, c) \o little(x, n), t, M, c, x, n)
<1>1. tree_bits(t, c) \in Seq(Bit) /\ Len(tree_bits(t, c)) = t[c] /\ t[c] \in Nat
  BY TreeBits
<1>2. little(x, n) \in Seq(Bit) /\ Len(little(x, n)) = n
  BY LittleIs DEF Fits
<1>3. /\ tree_bits(t, c) \o little(x, n) \in Seq(Bit)
      /\ Len(tree_bits(t, c) \o little(x, n)) = Len(tree_bits(t, c)) + Len(little(x, n))
  BY <1>1, <1>2, Joined
<1>4. Len(tree_bits(t, c) \o little(x, n)) = t[c] + n
  BY <1>1, <1>2, <1>3, Zenon
<1>5. QED
  BY <1>1, <1>2, <1>3, <1>4 DEF IsPiece

\* What a reader finds in a piece.
LEMMA PieceRead ==
  ASSUME NEW M \in Nat, NEW t, IsComplete(t, 15, M), NEW s, NEW c, NEW x, NEW n,
         IsPiece(s, t, M, c, x, n),
         NEW bits \in Seq(Bit), NEW pos \in Nat, Holds(bits, pos, s)
  PROVE  /\ Reader!symbol(Reader!decoder(t), bits, pos) = c
         /\ Reader!decoder(t)[c].len = t[c]
         /\ Reader!number(bits, pos + t[c], n) = x
         /\ pos + t[c] \in Nat /\ pos + t[c] + n = pos + Len(s)
<1>1. /\ c \in 0 .. M - 1 /\ t[c] \in Nat /\ t[c] > 0
      /\ x \in Nat /\ n \in Nat /\ x < 2 ^ n
      /\ s = tree_bits(t, c) \o little(x, n)
      /\ tree_bits(t, c) \in Seq(Bit) /\ Len(tree_bits(t, c)) = t[c]
      /\ little(x, n) \in Seq(Bit) /\ Len(s) = t[c] + n
  BY DEF IsPiece, Fits
<1>2. Holds(bits, pos, tree_bits(t, c)) /\ Holds(bits, pos + t[c], little(x, n))
  BY <1>1, HoldsBoth
<1>3. /\ Reader!symbol(Reader!decoder(t), bits, pos) = c
      /\ Reader!decoder(t)[c].len = t[c]
  BY <1>1, <1>2, CodeRead
<1>4. pos + t[c] \in Nat /\ pos + t[c] + n = pos + Len(s)
  <2>1. PICK m, l : l \in Nat /\ l = t[c] /\ m = Len(s)
    BY <1>1
  <2>2. n \in Nat /\ m = l + n
    BY <1>1, <2>1
  <2>3. pos + l \in Nat /\ pos + l + n = pos + m
    BY <2>1, <2>2
  <2>4. QED
    BY <2>1, <2>3
<1>5. Reader!number(bits, pos + t[c], n) = x
  BY <1>1, <1>2, <1>4, NumberRead
<1>6. QED
  BY <1>3, <1>4, <1>5

LEMMA ItemPiece ==
  ASSUME NEW item \in LZ77Items, NEW t1, NEW M1, NEW t2, NEW M2,
         AreTrees(t1, M1, t2, M2), HasCode(t1, M1, t2, M2, item)
  PROVE  LET s == TwoTreeBits(t1, t2, item)
             r == row(item)
         IN  IF item.type = "distance" THEN IsPiece(s, t2, M2, r[1], r[3], r[2])
             ELSE IsPiece(s, t1, M1, r[1], r[3], r[2])
<1>1. Fits(row(item)[3], row(item)[2])
  BY RowIs DEF IsRow
<1>2. /\ M1 \in Nat /\ M2 \in Nat /\ IsComplete(t1, 15, M1) /\ IsComplete(t2, 15, M2)
  BY DEF AreTrees
<1>3. CASE item.type = "distance"
  <2>1. row(item)[1] \in 0 .. M2 - 1 /\ t2[row(item)[1]] > 0
    BY <1>3 DEF HasCode
  <2>2. TwoTreeBits(t1, t2, item)
          = tree_bits(t2, row(item)[1]) \o little(row(item)[3], row(item)[2])
    BY <1>3 DEF TwoTreeBits, extra_bits
  <2>3. QED
    BY <1>1, <1>2, <1>3, <2>1, <2>2, PieceIs
<1>4. CASE item.type # "distance"
  <2>1. row(item)[1] \in 0 .. M1 - 1 /\ t1[row(item)[1]] > 0
    BY <1>4 DEF HasCode
  <2>2. TwoTreeBits(t1, t2, item)
          = tree_bits(t1, row(item)[1]) \o little(row(item)[3], row(item)[2])
    BY <1>4 DEF TwoTreeBits, extra_bits
  <2>3. QED
    BY <1>1, <1>2, <1>4, <2>1, <2>2, PieceIs
<1>5. QED
  BY <1>3, <1>4

\* What read_item does, with what it finds.
ItemCase(r, bits, c, at, extra, d, then) ==
  CASE c < 256 ->
         [r EXCEPT !.pos = at, !.out = Append(@, [type |-> "literal", val |-> c])]
    [] c = 256 ->
         [r EXCEPT !.pos = at, !.pc = "done",
                   !.out = Append(@, [type |-> "eob", val |-> 256])]
    [] c \in 257 .. 285 /\ d < 30 ->
         [r EXCEPT !.pos = then + Reader!DistanceExtra(d),
                   !.out = @ \o <<[type |-> "length",
                       val |-> Reader!LengthBase[c - 256] + Reader!number(bits, at, extra)],
                     [type |-> "distance",
                      val |-> Reader!DistanceBase[d + 1]
                                + Reader!number(bits, then, Reader!DistanceExtra(d))]>>]
    [] OTHER -> Reader!refuse(r)

LEMMA ItemUnfolds ==
  ASSUME NEW r, NEW bits, NEW pos, NEW lel, NEW dis,
         r.pos = pos, r.lel = lel, r.dis = dis,
         NEW c, c = Reader!symbol(lel, bits, pos),
         NEW at, at = pos + lel[c].len, NEW extra, extra = Reader!LengthExtra[c - 256],
         NEW d, d = Reader!symbol(dis, bits, at + extra)
  PROVE  Reader!read_item(r, bits)
           = ItemCase(r, bits, c, at, extra, d, at + extra + dis[d].len)
<1> DEFINE c1 == Reader!symbol(r.lel, bits, r.pos)
           at1 == r.pos + r.lel[c1].len
           extra1 == Reader!LengthExtra[c1 - 256]
           d1 == Reader!symbol(r.dis, bits, at1 + extra1)
           then1 == at1 + extra1 + r.dis[d1].len
<1>1. Reader!read_item(r, bits) = ItemCase(r, bits, c1, at1, extra1, d1, then1)
  BY Zenon DEF Reader!read_item, ItemCase
<1>2. c1 = c
  BY Zenon
<1> HIDE DEF c1
<1>3. at1 = at /\ extra1 = extra
  BY <1>2, Zenon
<1> HIDE DEF at1, extra1
<1>4. d1 = d
  BY <1>3, Zenon
<1> HIDE DEF d1
<1>5. then1 = at + extra + dis[d].len
  <2>1. at1 + extra1 = at + extra
    BY <1>3, Zenon
  <2>2. r.dis[d1].len = dis[d].len
    BY <1>4, Zenon
  <2>3. QED
    BY <2>1, <2>2, Zenon
<1> HIDE DEF then1
<1>6. ItemCase(r, bits, c1, at1, extra1, d1, then1) = ItemCase(r, bits, c, at, extra, d, then1)
  BY <1>2, <1>3, <1>4, SMT
<1>7. QED
  BY <1>1, <1>5, <1>6, SMT

LEMMA SingleRead ==
  ASSUME NEW item \in LZ77Items, NEW t1, NEW M1, NEW t2, NEW M2,
         AreTrees(t1, M1, t2, M2), HasCode(t1, M1, t2, M2, item),
         item.type \in {"literal", "eob"},
         NEW bits \in Seq(Bit), NEW pos \in Nat,
         Holds(bits, pos, TwoTreeBits(t1, t2, item)),
         NEW final, NEW hlit, NEW hdist, NEW lens, NEW dec, NEW dis, NEW out
  PROVE  Reader!read_item(Rd("items", pos, final, hlit, hdist, lens, dec,
                             Reader!decoder(t1), dis, out), bits)
           = Rd(IF item.type = "eob" THEN "done" ELSE "items",
                pos + Len(TwoTreeBits(t1, t2, item)), final, hlit, hdist, lens, dec,
                Reader!decoder(t1), dis, Append(out, item))
<1> DEFINE s == TwoTreeBits(t1, t2, item)
           c == row(item)[1]
<1>1. PICK lel : lel = Reader!decoder(t1)
  OBVIOUS
<1> DEFINE r == Rd("items", pos, final, hlit, hdist, lens, dec, lel, dis, out)
<1>2. M1 \in Nat /\ IsComplete(t1, 15, M1)
  BY DEF AreTrees
<1>3. IsPiece(s, t1, M1, c, row(item)[3], row(item)[2])
  BY ItemPiece
<1>4. /\ Reader!symbol(lel, bits, pos) = c
      /\ lel[c].len = t1[c]
      /\ pos + t1[c] + row(item)[2] = pos + Len(s)
      /\ pos + t1[c] \in Nat
  <2> HIDE DEF s, c
  <2>1. Holds(bits, pos, s)
    BY DEF s
  <2>2. QED
    BY <1>1, <1>2, <1>3, <2>1, PieceRead
<1>5. IsRow(row(item), item)
  BY RowIs
<1>6. row(item)[2] = 0
  BY <1>5 DEF IsRow
<1>7. pos + t1[c] = pos + Len(s)
  BY <1>4, <1>6
<1>8. PICK at : at = pos + Len(s)
  OBVIOUS
<1>9. PICK extra, d : /\ extra = Reader!LengthExtra[c - 256]
                      /\ d = Reader!symbol(dis, bits, at + extra)
  OBVIOUS
<1>10. r.pos = pos /\ r.lel = lel /\ r.dis = dis /\ r.out = out
  BY RdFields, SMT
<1> HIDE DEF r, c, s
<1>11. Reader!read_item(r, bits) = ItemCase(r, bits, c, at, extra, d, at + extra + dis[d].len)
  <2>1. at = pos + lel[c].len
    BY <1>4, <1>7, <1>8
  <2>2. QED
    BY <1>4, <1>9, <1>10, <2>1, ItemUnfolds
<1>12. CASE item.type = "literal"
  <2>1. c \in 0 .. 255 /\ item = [type |-> "literal", val |-> c]
    BY <1>5, <1>12, Zenon DEF IsRow, c
  <2>2. ItemCase(r, bits, c, at, extra, d, at + extra + dis[d].len)
          = [r EXCEPT !.pos = at, !.out = Append(@, item)]
    <3> DEFINE l == [type |-> "literal", val |-> c]
    <3>1. c < 256 /\ c # 256 /\ c \notin 257 .. 285
      BY <2>1
    <3>2. ItemCase(r, bits, c, at, extra, d, at + extra + dis[d].len)
            = [r EXCEPT !.pos = at, !.out = Append(@, l)]
      BY <3>1, Zenon DEF ItemCase
    <3>3. QED
      BY <2>1, <3>2, Zenon
  <2>3. PICK o : o = Append(out, item)
    OBVIOUS
  <2> DEFINE r1 == Rd("items", at, final, hlit, hdist, lens, dec, lel, dis, out)
             r2 == Rd("items", at, final, hlit, hdist, lens, dec, lel, dis, o)
  <2>4. [r EXCEPT !.pos = at] = r1
    BY RdPos, SMT DEF r
  <2>5. [r1 EXCEPT !.out = o] = r2
    BY RdOut, SMT
  <2> HIDE DEF r1, r2
  <2>6. [r EXCEPT !.pos = at, !.out = Append(@, item)] = r2
    BY <1>10, <2>3, <2>4, <2>5, Zenon
  <2>7. Reader!read_item(r, bits) = r2
    BY <1>11, <2>2, <2>6, Zenon
  <2>8. item.type # "eob"
    BY <1>12
  <2>9. QED
    BY <1>1, <1>8, <2>3, <2>7, <2>8, Zenon DEF r, r2, s
<1>13. CASE item.type = "eob"
  <2>1. c = 256 /\ item = [type |-> "eob", val |-> 256]
    BY <1>5, <1>13 DEF IsRow, c
  <2>2. ItemCase(r, bits, c, at, extra, d, at + extra + dis[d].len)
          = [r EXCEPT !.pos = at, !.pc = "done", !.out = Append(@, item)]
    BY <2>1 DEF ItemCase
  <2>3. PICK o : o = Append(out, item)
    OBVIOUS
  <2> DEFINE r1 == Rd("items", at, final, hlit, hdist, lens, dec, lel, dis, out)
             r2 == Rd("done", at, final, hlit, hdist, lens, dec, lel, dis, out)
             r3 == Rd("done", at, final, hlit, hdist, lens, dec, lel, dis, o)
  <2>4. [r EXCEPT !.pos = at] = r1
    BY RdPos, SMT DEF r
  <2>5. [r1 EXCEPT !.pc = "done"] = r2
    BY RdPc, SMT
  <2>6. [r2 EXCEPT !.out = o] = r3
    BY RdOut, SMT
  <2> HIDE DEF r1, r2, r3
  <2>7. [r EXCEPT !.pos = at, !.pc = "done", !.out = Append(@, item)] = r3
    BY <1>10, <2>3, <2>4, <2>5, <2>6, Zenon
  <2>8. Reader!read_item(r, bits) = r3
    BY <1>11, <2>2, <2>7, Zenon
  <2>9. QED
    BY <1>1, <1>8, <1>13, <2>3, <2>8, Zenon DEF r, r3, s
<1>14. QED
  BY <1>12, <1>13

LEMMA PairRead ==
  ASSUME NEW item \in LZ77Items, NEW next \in LZ77Items,
         NEW t1, NEW M1, NEW t2, NEW M2,
         AreTrees(t1, M1, t2, M2), HasCode(t1, M1, t2, M2, item),
         HasCode(t1, M1, t2, M2, next),
         item.type = "length", next.type = "distance",
         NEW bits \in Seq(Bit), NEW pos \in Nat,
         Holds(bits, pos, TwoTreeBits(t1, t2, item)),
         NEW pos2 \in Nat, pos2 = pos + Len(TwoTreeBits(t1, t2, item)),
         Holds(bits, pos2, TwoTreeBits(t1, t2, next)),
         NEW final, NEW hlit, NEW hdist, NEW lens, NEW dec, NEW out
  PROVE  Reader!read_item(Rd("items", pos, final, hlit, hdist, lens, dec,
                             Reader!decoder(t1), Reader!decoder(t2), out), bits)
           = Rd("items", pos2 + Len(TwoTreeBits(t1, t2, next)), final, hlit, hdist,
                lens, dec, Reader!decoder(t1), Reader!decoder(t2), out \o <<item, next>>)
<1> DEFINE s == TwoTreeBits(t1, t2, item)
           u == TwoTreeBits(t1, t2, next)
           c == row(item)[1]
           d == row(next)[1]
<1>1. PICK lel, dis : lel = Reader!decoder(t1) /\ dis = Reader!decoder(t2)
  OBVIOUS
<1> DEFINE r == Rd("items", pos, final, hlit, hdist, lens, dec, lel, dis, out)
<1>2. M1 \in Nat /\ IsComplete(t1, 15, M1) /\ M2 \in Nat /\ IsComplete(t2, 15, M2)
  BY DEF AreTrees
<1>3. /\ IsPiece(s, t1, M1, c, row(item)[3], row(item)[2])
      /\ IsPiece(u, t2, M2, d, row(next)[3], row(next)[2])
  <2>1. item.type # "distance"
    OBVIOUS
  <2>2. IsPiece(s, t1, M1, c, row(item)[3], row(item)[2])
    BY <2>1, ItemPiece
  <2>3. IsPiece(u, t2, M2, d, row(next)[3], row(next)[2])
    BY ItemPiece
  <2>4. QED
    BY <2>2, <2>3
<1>4. IsLengthRow(row(item), item.val) /\ item = [type |-> "length", val |-> item.val]
  BY RowIs DEF IsRow
<1>5. IsDistanceRow(row(next), next.val) /\ next = [type |-> "distance", val |-> next.val]
  BY RowIs DEF IsRow
<1> HIDE DEF s, u, c, d
<1>6. PICK x1, n1, x2, n2 : /\ x1 = row(item)[3] /\ n1 = row(item)[2]
                            /\ x2 = row(next)[3] /\ n2 = row(next)[2]
  OBVIOUS
<1>7. /\ Reader!symbol(lel, bits, pos) = c
      /\ lel[c].len = t1[c]
      /\ Reader!number(bits, pos + t1[c], n1) = x1
      /\ pos + t1[c] + n1 = pos + Len(s)
  <2>1. Holds(bits, pos, s)
    BY DEF s
  <2>2. QED
    BY <1>1, <1>2, <1>3, <1>6, <2>1, PieceRead
<1>8. /\ Reader!symbol(dis, bits, pos2) = d
      /\ dis[d].len = t2[d]
      /\ Reader!number(bits, pos2 + t2[d], n2) = x2
      /\ pos2 + t2[d] + n2 = pos2 + Len(u)
  <2>1. Holds(bits, pos2, u)
    BY DEF u
  <2>2. QED
    BY <1>1, <1>2, <1>3, <1>6, <2>1, PieceRead
<1>9. /\ c \in 257 .. 285 /\ n1 = Reader!LengthExtra[c - 256]
      /\ Reader!LengthBase[c - 256] + x1 = item.val
  BY <1>4, <1>6 DEF IsLengthRow, c
<1>10. /\ d \in 0 .. 29 /\ n2 = Reader!DistanceExtra(d)
       /\ Reader!DistanceBase[d + 1] + x2 = next.val
  BY <1>5, <1>6 DEF IsDistanceRow, d
<1>11. PICK at, then : at = pos + t1[c] /\ then = pos2 + t2[d]
  OBVIOUS
<1>12. at + n1 = pos2
  BY <1>7, <1>11 DEF s
<1>13. r.pos = pos /\ r.lel = lel /\ r.dis = dis /\ r.out = out
  BY RdFields, SMT
<1> HIDE DEF r
<1>14. Reader!read_item(r, bits) = ItemCase(r, bits, c, at, n1, d, then)
  <2>1. at = pos + lel[c].len /\ c = Reader!symbol(lel, bits, pos)
    BY <1>7, <1>11
  <2>2. d = Reader!symbol(dis, bits, at + n1)
    BY <1>8, <1>12, Zenon
  <2>3. at + n1 + dis[d].len = then
    BY <1>8, <1>11, <1>12, Zenon
  <2>4. Reader!read_item(r, bits) = ItemCase(r, bits, c, at, n1, d, at + n1 + dis[d].len)
    BY <1>9, <1>13, <2>1, <2>2, ItemUnfolds, SMTT(60)
  <2>5. QED
    BY <2>3, <2>4, Zenon
<1>15. PICK p, o : p = then + n2 /\ o = out \o <<item, next>>
  OBVIOUS
<1>16. ItemCase(r, bits, c, at, n1, d, then)
         = [r EXCEPT !.pos = p, !.out = @ \o <<item, next>>]
  <2> DEFINE Pair(w, y, z) ==
               [r EXCEPT !.pos = w,
                         !.out = @ \o <<[type |-> "length", val |-> y],
                                        [type |-> "distance", val |-> z]>>]
  <2>1. ~ (c < 256) /\ c # 256 /\ d < 30 /\ c \in 257 .. 285
    BY <1>9, <1>10
  <2>2. ItemCase(r, bits, c, at, n1, d, then)
          = Pair(then + Reader!DistanceExtra(d),
                 Reader!LengthBase[c - 256] + Reader!number(bits, at, n1),
                 Reader!DistanceBase[d + 1]
                   + Reader!number(bits, then, Reader!DistanceExtra(d)))
    BY <2>1 DEF ItemCase
  <2>3. /\ then + Reader!DistanceExtra(d) = p
        /\ Reader!LengthBase[c - 256] + Reader!number(bits, at, n1) = item.val
        /\ Reader!DistanceBase[d + 1] + Reader!number(bits, then, Reader!DistanceExtra(d))
             = next.val
    BY <1>7, <1>8, <1>9, <1>10, <1>11, <1>15, Zenon
  <2>4. Pair(p, item.val, next.val) = [r EXCEPT !.pos = p, !.out = @ \o <<item, next>>]
    BY <1>4, <1>5, Zenon
  <2> HIDE DEF Pair
  <2>5. QED
    BY <2>2, <2>3, <2>4, Zenon
<1> DEFINE r1 == Rd("items", p, final, hlit, hdist, lens, dec, lel, dis, out)
           r2 == Rd("items", p, final, hlit, hdist, lens, dec, lel, dis, o)
<1>17. [r EXCEPT !.pos = p] = r1
  BY RdPos, SMT DEF r
<1>18. [r1 EXCEPT !.out = o] = r2
  BY RdOut, SMT
<1> HIDE DEF r1, r2
<1>19. [r EXCEPT !.pos = p, !.out = @ \o <<item, next>>] = r2
  BY <1>13, <1>15, <1>17, <1>18, Zenon
<1>20. Reader!read_item(r, bits) = r2
  BY <1>14, <1>16, <1>19, Zenon
<1>21. p = pos2 + Len(u)
  BY <1>8, <1>11, <1>15, Zenon
<1>22. QED
  BY <1>1, <1>15, <1>20, <1>21, Zenon DEF r, r2, u

-------------------------------------------------------------------------------
(* The pieces of a block.                                                  *)

Fixed == coding_type = "static_coding"

\* The codes of the items, as a reader has them.
C1 == IF Fixed THEN Reader!StaticLengths ELSE T1
C2 == IF Fixed THEN FiveBits ELSE T2
M1 == IF Fixed THEN 288 ELSE K1
M2 == IF Fixed THEN 32 ELSE K2

\* An item's code, as it is written.
ItemBits(item) ==
  IF Fixed THEN static_bits(item)
  ELSE tree_bits(IF item.type = "distance" THEN H2 ELSE H1, row(item)[1])

CodeBits(t1, t2, item) ==
  tree_bits(IF item.type = "distance" THEN t2 ELSE t1, row(item)[1])

HeadBits ==
  IF Fixed THEN <<last_block>> \o little(1, 2)
  ELSE Fields(last_block, K1 - 257, K2 - 1, N3 - 4, H3, N3)

\* The pieces before the items, and all of them.
B == IF Fixed THEN 1 ELSE 1 + Len(Rlc)
P == [j \in 1 .. B + Len(items) |->
        IF j = 1 THEN HeadBits
        ELSE IF j <= B THEN LengthBits(H3, Rlc[j - 1])
        ELSE TwoTreeBits(C1, C2, items[j - B])]

LEMMA FixedItems ==
  ASSUME IsBlock(items), Fixed
  PROVE  /\ AreTrees(C1, M1, C2, M2)
         /\ \A k \in 1 .. Len(items) :
              /\ HasCode(C1, M1, C2, M2, items[k])
              /\ CodeBits(C1, C2, items[k]) = ItemBits(items[k])
<1>1. /\ C1 = Reader!StaticLengths /\ C2 = FiveBits /\ M1 = 288 /\ M2 = 32
      /\ IsComplete(C1, 15, 288) /\ IsComplete(C2, 15, 32)
      /\ \A c \in 0 .. 287 : C1[c] > 0
      /\ \A c \in 0 .. 31 : C2[c] > 0
  <2>1. C1 = Reader!StaticLengths /\ C2 = FiveBits /\ M1 = 288 /\ M2 = 32
    BY DEF C1, C2, M1, M2
  <2>2. /\ IsComplete(C1, 15, 288)
        /\ \A c \in 0 .. 287 :
             C1[c] = IF c < 144 THEN 8 ELSE IF c < 256 THEN 9 ELSE IF c < 280 THEN 7 ELSE 8
    BY <2>1, StaticLiterals
  <2>3. IsComplete(C2, 15, 32) /\ \A c \in 0 .. 31 : C2[c] = 5
    BY <2>1, StaticDistances
  <2>4. (\A c \in 0 .. 287 : C1[c] > 0) /\ (\A c \in 0 .. 31 : C2[c] > 0)
    BY <2>2, <2>3
  <2>5. QED
    BY <2>1, <2>2, <2>3, <2>4
<1>2. AreTrees(C1, M1, C2, M2)
  BY <1>1 DEF AreTrees
<1>3. ASSUME NEW k \in 1 .. Len(items)
      PROVE  /\ HasCode(C1, M1, C2, M2, items[k])
             /\ CodeBits(C1, C2, items[k]) = ItemBits(items[k])
  <2>1. PICK item \in LZ77Items : item = items[k]
    BY DEF IsBlock
  <2>2. /\ item.type # "distance" => row(item)[1] \in 0 .. 285
        /\ item.type = "distance" => row(item)[1] \in 0 .. 29
    BY BaseIs
  <2>3. PICK base : base = row(item)[1]
    OBVIOUS
  <2>4. base \in 0 .. 285 /\ (item.type = "distance" => base < 30)
    <3>1. CASE item.type = "distance"
      <4>1. base \in 0 .. 29
        BY <2>2, <2>3, <3>1, Zenon
      <4>2. base \in 0 .. 285 /\ base < 30
        BY <4>1
      <4>3. QED
        BY <3>1, <4>2, Zenon
    <3>2. CASE item.type # "distance"
      <4>1. base \in 0 .. 285
        BY <2>2, <2>3, <3>2, Zenon
      <4>2. QED
        BY <3>2, <4>1, Zenon
    <3>3. QED
      BY <3>1, <3>2
  <2>5. static_bits(item) = IF item.type = "distance" THEN tree_bits(FiveBits, base)
                            ELSE tree_bits(Reader!StaticLengths, base)
    BY <2>3, <2>4, StaticTrees
  <2>6. HasCode(C1, M1, C2, M2, item)
    <3>1. CASE item.type = "distance"
      <4>1. base \in 0 .. 32 - 1 /\ base \in 0 .. 31
        BY <2>4, <3>1
      <4>2. QED
        BY <1>1, <2>3, <3>1, <4>1 DEF HasCode
    <3>2. CASE item.type # "distance"
      <4>1. base \in 0 .. 288 - 1 /\ base \in 0 .. 287
        BY <2>4
      <4>2. QED
        BY <1>1, <2>3, <3>2, <4>1 DEF HasCode
    <3>3. QED
      BY <3>1, <3>2
  <2>7. CodeBits(C1, C2, item) = ItemBits(item)
    BY <1>1, <2>3, <2>5 DEF CodeBits, ItemBits
  <2>8. QED
    BY <2>1, <2>6, <2>7
<1>4. QED
  BY <1>2, <1>3

LEMMA DynamicItems ==
  ASSUME IsBlock(items), ~ Fixed
  PROVE  /\ AreTrees(C1, M1, C2, M2)
         /\ \A k \in 1 .. Len(items) :
              /\ HasCode(C1, M1, C2, M2, items[k])
              /\ CodeBits(C1, C2, items[k]) = ItemBits(items[k])
<1>1. C1 = T1 /\ C2 = T2 /\ M1 = K1 /\ M2 = K2
  BY DEF C1, C2, M1, M2
<1>2. /\ K1 \in 257 .. 286 /\ K2 \in 1 .. 30
      /\ StandsFor(T1, K1, H1, 286, used(lel_bucket))
      /\ StandsFor(T2, K2, H2, 30, used(dis_bucket))
  BY TreesSent
<1>3. /\ IsComplete(T1, 15, K1) /\ IsComplete(T2, 15, K2)
      /\ K1 \in Nat /\ K2 \in Nat
  BY <1>2 DEF StandsFor
<1>4. /\ \A c \in used(lel_bucket) : /\ c \in 0 .. K1 - 1 /\ T1[c] > 0
                                     /\ tree_bits(T1, c) = tree_bits(H1, c)
      /\ \A c \in used(dis_bucket) : /\ c \in 0 .. K2 - 1 /\ T2[c] > 0
                                     /\ tree_bits(T2, c) = tree_bits(H2, c)
  <2>1. /\ IsTree(H1, 15, 286, used(lel_bucket)) /\ IsTree(H2, 15, 30, used(dis_bucket))
    BY TreesAre DEF H1, H2
  <2>2. /\ \A c \in used(lel_bucket) : c \in 0 .. 286 - 1 /\ H1[c] > 0
        /\ \A c \in used(dis_bucket) : c \in 0 .. 30 - 1 /\ H2[c] > 0
    BY <2>1 DEF IsTree
  <2>3. ASSUME NEW c \in used(lel_bucket)
        PROVE  /\ c \in 0 .. K1 - 1 /\ T1[c] > 0
               /\ tree_bits(T1, c) = tree_bits(H1, c)
    <3>1. c \in 0 .. K1 - 1 /\ T1[c] > 0
      BY <1>2 DEF StandsFor
    <3>2. T1[c] = H1[c] /\ code(T1, c) = code(H1, c)
      BY <1>2, <2>2, SMTT(60) DEF StandsFor
    <3>3. QED
      BY <3>1, <3>2 DEF tree_bits
  <2>4. ASSUME NEW c \in used(dis_bucket)
        PROVE  /\ c \in 0 .. K2 - 1 /\ T2[c] > 0
               /\ tree_bits(T2, c) = tree_bits(H2, c)
    <3>1. c \in 0 .. K2 - 1 /\ T2[c] > 0
      BY <1>2 DEF StandsFor
    <3>2. T2[c] = H2[c] /\ code(T2, c) = code(H2, c)
      BY <1>2, <2>2 DEF StandsFor
    <3>3. QED
      BY <3>1, <3>2 DEF tree_bits
  <2>5. QED
    BY <2>3, <2>4
<1>5. AreTrees(C1, M1, C2, M2)
  BY <1>1, <1>3 DEF AreTrees
<1>6. ASSUME NEW k \in 1 .. Len(items)
      PROVE  /\ HasCode(C1, M1, C2, M2, items[k])
             /\ CodeBits(C1, C2, items[k]) = ItemBits(items[k])
  <2>1. PICK item, base : item = items[k] /\ base = row(item)[1]
    OBVIOUS
  <2>2. IF item.type = "distance" THEN base \in used(dis_bucket)
        ELSE base \in used(lel_bucket)
    BY <2>1, BucketsAre
  <2>3. CASE item.type = "distance"
    <3>1. base \in 0 .. K2 - 1 /\ T2[base] > 0 /\ tree_bits(T2, base) = tree_bits(H2, base)
      BY <1>4, <2>2, <2>3
    <3>2. HasCode(C1, M1, C2, M2, item)
      BY <1>1, <2>1, <2>3, <3>1 DEF HasCode
    <3>3. CodeBits(C1, C2, item) = ItemBits(item)
      BY <1>1, <2>1, <2>3, <3>1 DEF CodeBits, ItemBits
    <3>4. QED
      BY <2>1, <3>2, <3>3
  <2>4. CASE item.type # "distance"
    <3>1. base \in 0 .. K1 - 1 /\ T1[base] > 0 /\ tree_bits(T1, base) = tree_bits(H1, base)
      BY <1>4, <2>2, <2>4
    <3>2. HasCode(C1, M1, C2, M2, item)
      BY <1>1, <2>1, <2>4, <3>1 DEF HasCode
    <3>3. CodeBits(C1, C2, item) = ItemBits(item)
      BY <1>1, <2>1, <2>4, <3>1 DEF CodeBits, ItemBits
    <3>4. QED
      BY <2>1, <3>2, <3>3
  <2>5. QED
    BY <2>3, <2>4
<1>7. QED
  BY <1>5, <1>6

LEMMA ItemsAre ==
  ASSUME IsBlock(items)
  PROVE  /\ AreTrees(C1, M1, C2, M2)
         /\ \A k \in 1 .. Len(items) :
              /\ HasCode(C1, M1, C2, M2, items[k])
              /\ TwoTreeBits(C1, C2, items[k]) = ItemBits(items[k]) \o extra_bits(items[k])
              /\ TwoTreeBits(C1, C2, items[k]) \in Seq(Bit)
              /\ ItemBits(items[k]) \in Seq(Bit) /\ extra_bits(items[k]) \in Seq(Bit)
<1>1. /\ AreTrees(C1, M1, C2, M2)
      /\ \A k \in 1 .. Len(items) :
           /\ HasCode(C1, M1, C2, M2, items[k])
           /\ CodeBits(C1, C2, items[k]) = ItemBits(items[k])
  <2>1. CASE Fixed
    BY <2>1, FixedItems
  <2>2. CASE ~ Fixed
    BY <2>2, DynamicItems
  <2>3. QED
    BY <2>1, <2>2
<1>2. ASSUME NEW k \in 1 .. Len(items)
      PROVE  /\ TwoTreeBits(C1, C2, items[k]) = ItemBits(items[k]) \o extra_bits(items[k])
             /\ TwoTreeBits(C1, C2, items[k]) \in Seq(Bit)
             /\ ItemBits(items[k]) \in Seq(Bit) /\ extra_bits(items[k]) \in Seq(Bit)
  <2>1. PICK item \in LZ77Items : item = items[k]
    BY DEF IsBlock
  <2>2. HasCode(C1, M1, C2, M2, item) /\ CodeBits(C1, C2, item) = ItemBits(item)
    BY <1>1, <2>1
  <2>3. /\ TwoTreeBits(C1, C2, item) \in Seq(Bit)
        /\ CodeBits(C1, C2, item) \in Seq(Bit) /\ extra_bits(item) \in Seq(Bit)
    <3>1. CASE item.type = "distance"
      BY <1>1, <2>2, <3>1, ItemPiece DEF IsPiece, CodeBits, extra_bits
    <3>2. CASE item.type # "distance"
      BY <1>1, <2>2, <3>2, ItemPiece DEF IsPiece, CodeBits, extra_bits
    <3>3. QED
      BY <3>1, <3>2
  <2>4. TwoTreeBits(C1, C2, item) = CodeBits(C1, C2, item) \o extra_bits(item)
    BY DEF TwoTreeBits, CodeBits
  <2>5. QED
    BY <2>1, <2>2, <2>3, <2>4
<1>3. QED
  BY <1>1, <1>2

LEMMA LengthsAreBits ==
  ASSUME IsBlock(items), NEW k \in 1 .. Len(Rlc)
  PROVE  LengthBits(H3, Rlc[k]) \in Seq(Bit)
<1>1. Encodes(Rlc, Sent, 0, Len(Sent))
  BY TreesSent
<1>2. PICK p : IsProgress(p, Rlc, Sent, 0, Len(Sent))
  BY <1>1 DEF Encodes
<1>3. Tells(Rlc[k], Sent, p[k], p[k + 1])
  BY <1>2 DEF IsProgress
<1>4. IsComplete(H3, 15, 19) /\ H3[Rlc[k] % 32] > 0
  BY ThirdSent
<1>5. QED
  BY <1>3, <1>4, LengthBitsAre

\* The header, and what it says to a reader.
LEMMA HeadBitsAre ==
  ASSUME IsBlock(items), last_block \in Bit
  PROVE  /\ HeadBits \in Seq(Bit) /\ Len(HeadBits) > 0
         /\ \A bits \in Seq(Bit) : Len(bits) > 0 /\ Holds(bits, 0, HeadBits) =>
              Reader!read_header(Reader!Start, bits)
                = IF Fixed
                  THEN Rd("items", Len(HeadBits), last_block, 0, 0, <<>>, <<>>,
                          Reader!decoder(C1), Reader!decoder(C2), <<>>)
                  ELSE Rd("lengths", Len(HeadBits), last_block, K1, K2, <<>>,
                          Reader!decoder(H3), <<>>, <<>>, <<>>)
<1>1. CASE Fixed
  <2>1. HeadBits = <<last_block>> \o little(1, 2)
    BY <1>1 DEF HeadBits
  <2>2. C1 = Reader!StaticLengths /\ C2 = [c \in 0 .. 31 |-> 5]
    BY <1>1 DEF C1, C2, FiveBits
  <2>3. Reader!StaticLEL = Reader!decoder(C1) /\ Reader!StaticDis = Reader!decoder(C2)
    BY <2>2, Zenon DEF Reader!StaticLEL, Reader!StaticDis
  <2>4. /\ HeadBits \in Seq(Bit) /\ Len(HeadBits) = 3
        /\ \A bits \in Seq(Bit) : Len(bits) > 0 /\ Holds(bits, 0, HeadBits) =>
             Reader!read_header(Reader!Start, bits)
               = Rd("items", 3, last_block, 0, 0, <<>>, <<>>, Reader!StaticLEL,
                    Reader!StaticDis, <<>>)
    BY <2>1, StaticHeaderIs
  <2>5. Len(HeadBits) > 0
    BY <2>4
  <2>6. QED
    BY <1>1, <2>3, <2>4, <2>5, Zenon
<1>2. CASE ~ Fixed
  <2>1. K1 \in 257 .. 286 /\ K2 \in 1 .. 30
    BY TreesSent
  <2>2. /\ IsComplete(H3, 15, 19) /\ H3 \in [0 .. 18 -> 0 .. 7] /\ N3 \in 4 .. 19
        /\ ZeroBehind(H3, N3)
    BY ThirdSent DEF ZeroBehind
  <2>3. PICK a \in 257 .. 286, b \in 1 .. 30, h \in [0 .. 18 -> 0 .. 7], n \in 4 .. 19 :
          a = K1 /\ b = K2 /\ h = H3 /\ n = N3
    BY <2>1, <2>2
  <2>4. HeadBits = Fields(last_block, a - 257, b - 1, n - 4, h, n)
    BY <1>2, <2>3 DEF HeadBits
  <2>5. a - 257 \in 0 .. 31 /\ b - 1 \in 0 .. 31 /\ n - 4 \in 0 .. 15 /\ n \in 1 .. 19
    OBVIOUS
  <2>6. PICK x, y, z : x = a - 257 /\ y = b - 1 /\ z = n - 4
    OBVIOUS
  <2>7. /\ HeadBits \in Seq(Bit) /\ Len(HeadBits) = 17 + 3 * n
        /\ \A bits : Holds(bits, 0, HeadBits) => HeadFound(bits, last_block, x, y, z, h, n)
    <3>1. x \in 0 .. 31 /\ y \in 0 .. 31 /\ z \in 0 .. 15 /\ n \in 1 .. 19
      BY <2>5, <2>6
    <3>2. HeadBits = Fields(last_block, x, y, z, h, n)
      BY <2>4, <2>6
    <3>3. QED
      BY <3>1, <3>2, HeadIs
  <2>8. Len(HeadBits) > 0
    <3>1. 17 + 3 * n > 0
      OBVIOUS
    <3>2. QED
      BY <2>7, <3>1, Zenon
  <2>9. ASSUME NEW bits \in Seq(Bit), Len(bits) > 0, Holds(bits, 0, HeadBits)
        PROVE  Reader!read_header(Reader!Start, bits)
                 = Rd("lengths", Len(HeadBits), last_block, K1, K2, <<>>,
                      Reader!decoder(H3), <<>>, <<>>, <<>>)
    <3>1. HeadFound(bits, last_block, a - 257, b - 1, n - 4, h, n)
      BY <2>6, <2>7, <2>9, Zenon
    <3>2. IsComplete(h, 15, 19) /\ ZeroBehind(h, n)
      BY <2>2, <2>3
    <3>3. Reader!read_header(Reader!Start, bits)
            = Rd("lengths", 17 + 3 * n, last_block, a, b, <<>>, Reader!decoder(h), <<>>,
                 <<>>, <<>>)
      <4>1. Len(bits) > 0
        BY <2>9
      <4>2. HeaderFits(bits, last_block, a, b, h, n)
        BY <3>1, <3>2, <4>1 DEF HeaderFits
      <4>3. QED
        BY <4>2, HeaderRead
    <3>4. QED
      BY <2>3, <2>7, <3>3, Zenon
  <2>10. QED
    BY <1>2, <2>7, <2>8, <2>9, Zenon
<1>3. QED
  BY <1>1, <1>2, Zenon

LEMMA PlanIs ==
  ASSUME IsBlock(items), last_block \in Bit
  PROVE  /\ B \in Nat \ {0} /\ Len(items) \in Nat
         /\ (Fixed => B = 1) /\ (~ Fixed => Len(Rlc) \in Nat /\ B = 1 + Len(Rlc))
         /\ IsPieces(P) /\ Len(P) = B + Len(items)
         /\ P[1] = HeadBits
         /\ ~ Fixed => \A k \in 1 .. Len(Rlc) : P[1 + k] = LengthBits(H3, Rlc[k])
         /\ \A k \in 1 .. Len(items) : P[B + k] = TwoTreeBits(C1, C2, items[k])
<1>1. Len(items) \in Nat
  BY DEF IsBlock
<1>2. Len(Rlc) \in Nat
  BY ThirdSent DEF IsCodes
<1>3. /\ B \in Nat \ {0}
      /\ (Fixed => B = 1) /\ (~ Fixed => B = 1 + Len(Rlc))
  BY <1>2 DEF B
<1>4. PICK n \in Nat : n = Len(items)
  BY <1>1
<1>5. PICK b \in Nat : b = B /\ b > 0
  BY <1>3
<1>6. P = [j \in 1 .. b + n |->
             IF j = 1 THEN HeadBits
             ELSE IF j <= b THEN LengthBits(H3, Rlc[j - 1])
             ELSE TwoTreeBits(C1, C2, items[j - b])]
  BY <1>4, <1>5 DEF P
<1>7. Len(P) = b + n
  BY <1>6
<1>8. P[1] = HeadBits
  <2>1. 1 \in 1 .. b + n
    BY <1>5
  <2>2. QED
    BY <1>6, <2>1
<1>9. ~ Fixed => \A k \in 1 .. Len(Rlc) : P[1 + k] = LengthBits(H3, Rlc[k])
  <2>1. SUFFICES ASSUME ~ Fixed, NEW k \in 1 .. Len(Rlc)
                 PROVE  P[1 + k] = LengthBits(H3, Rlc[k])
    OBVIOUS
  <2>2. /\ 1 + k \in 1 .. b + n /\ 1 + k # 1 /\ 1 + k <= b /\ (1 + k) - 1 = k
    <3>1. PICK m \in Nat : m = Len(Rlc)
      BY <1>2
    <3>2. b = 1 + m
      BY <1>3, <1>5, <2>1, <3>1, Zenon
    <3>3. k \in 1 .. m
      BY <2>1, <3>1
    <3>4. QED
      BY <3>2, <3>3
  <2>3. PICK j : j = 1 + k
    OBVIOUS
  <2>4. P[j] = LengthBits(H3, Rlc[j - 1])
    BY <1>6, <2>2, <2>3
  <2>5. j - 1 = k
    BY <2>2, <2>3
  <2>6. QED
    BY <2>3, <2>4, <2>5
<1>10. \A k \in 1 .. Len(items) : P[B + k] = TwoTreeBits(C1, C2, items[k])
  <2>1. SUFFICES ASSUME NEW k \in 1 .. n
                 PROVE  P[b + k] = TwoTreeBits(C1, C2, items[k])
    BY <1>4, <1>5
  <2>2. /\ b + k \in 1 .. b + n /\ b + k # 1 /\ ~ (b + k <= b) /\ (b + k) - b = k
    BY <1>5
  <2>3. PICK j : j = b + k
    OBVIOUS
  <2>4. P[j] = TwoTreeBits(C1, C2, items[j - b])
    BY <1>6, <2>2, <2>3
  <2>5. j - b = k
    BY <2>2, <2>3
  <2>6. QED
    BY <2>3, <2>4, <2>5
<1>11. IsPieces(P)
  <2>1. ASSUME NEW j \in 1 .. b + n
        PROVE  P[j] \in Seq(Bit)
    <3>1. CASE j = 1
      BY <1>8, <3>1, HeadBitsAre
    <3>2. CASE j # 1 /\ j <= b
      <4>1. ~ Fixed
        BY <1>3, <1>5, <3>2
      <4>2. PICK k \in 1 .. Len(Rlc) : j = 1 + k
        <5>1. j - 1 \in 1 .. Len(Rlc) /\ j = 1 + (j - 1)
          BY <1>2, <1>3, <1>5, <3>2, <4>1
        <5>2. QED
          BY <5>1
      <4>3. QED
        BY <1>9, <4>1, <4>2, LengthsAreBits
    <3>3. CASE ~ (j <= b)
      <4>1. PICK k \in 1 .. Len(items) : j = B + k
        <5>1. j - b \in 1 .. n /\ j = b + (j - b)
          BY <3>3
        <5>2. QED
          BY <1>4, <1>5, <5>1
      <4>2. QED
        BY <1>10, <4>1, ItemsAre
    <3>4. QED
      BY <3>1, <3>2, <3>3
  <2>2. QED
    BY <1>7, <2>1 DEF IsPieces
<1>12. Len(P) = B + Len(items)
  BY <1>4, <1>5, <1>7
<1>13. QED
  BY <1>1, <1>2, <1>3, <1>8, <1>9, <1>10, <1>11, <1>12

-------------------------------------------------------------------------------
(* The plan depends on nothing but what is to be written.                  *)

LEMMA BucketsKept ==
  ASSUME UNCHANGED items
  PROVE  lel_bucket' = lel_bucket /\ dis_bucket' = dis_bucket
<1>1. \A S, c : occurrences(S, c)' = occurrences(S, c)
  BY DEF occurrences
<1>2. QED
  BY <1>1 DEF lel_bucket, dis_bucket, occurrences

LEMMA TreesKept ==
  ASSUME UNCHANGED items
  PROVE  /\ H1' = H1 /\ H2' = H2 /\ H3' = H3 /\ K1' = K1 /\ K2' = K2 /\ N3' = N3
         /\ Sent' = Sent /\ Rlc' = Rlc /\ T1' = T1 /\ T2' = T2
<1>1. lel_bucket' = lel_bucket /\ dis_bucket' = dis_bucket
  BY BucketsKept
<1>2. H1' = H1 /\ H2' = H2
  BY <1>1 DEF H1, H2
<1>3. K1' = K1 /\ K2' = K2
  BY <1>2 DEF K1, K2
<1>4. Sent' = Sent /\ Rlc' = Rlc
  BY <1>2 DEF Sent, Rlc
<1>5. H3' = H3
  BY <1>4 DEF H3
<1>6. N3' = N3
  BY <1>5 DEF N3
<1>7. T1' = T1 /\ T2' = T2
  BY <1>3, <1>4 DEF T1, T2
<1>8. QED
  BY <1>2, <1>3, <1>4, <1>5, <1>6, <1>7

LEMMA PlanKept ==
  ASSUME UNCHANGED args
  PROVE  /\ Fixed' = Fixed /\ C1' = C1 /\ C2' = C2 /\ HeadBits' = HeadBits
         /\ B' = B /\ P' = P
<1>1. items' = items /\ last_block' = last_block /\ coding_type' = coding_type
  BY DEF args
<1>2. /\ H1' = H1 /\ H2' = H2 /\ H3' = H3 /\ K1' = K1 /\ K2' = K2 /\ N3' = N3
      /\ Rlc' = Rlc /\ T1' = T1 /\ T2' = T2
  BY <1>1, TreesKept
<1>3. Fixed' = Fixed
  BY <1>1 DEF Fixed
<1>4. C1' = C1 /\ C2' = C2
  BY <1>2, <1>3 DEF C1, C2
<1>5. HeadBits' = HeadBits
  BY <1>1, <1>2, <1>3 DEF HeadBits
<1>6. B' = B
  BY <1>2, <1>3 DEF B
<1>7. P' = P
  BY <1>1, <1>2, <1>4, <1>5, <1>6 DEF P
<1>8. QED
  BY <1>3, <1>4, <1>5, <1>6, <1>7

-------------------------------------------------------------------------------
(* The invariant: where the writer is, what it has by then, and how far    *)
(* the reader has come.                                                    *)

W(pc, k, h1, h2, h3, rlc) ==
  [pc |-> pc, k |-> k, h1 |-> h1, h2 |-> h2, h3 |-> h3, rlc |-> rlc]

\* The writer's fields, each changed.
LEMMA WFields ==
  ASSUME NEW pc, NEW k, NEW h1, NEW h2, NEW h3, NEW rlc
  PROVE  /\ W(pc, k, h1, h2, h3, rlc).pc = pc
         /\ W(pc, k, h1, h2, h3, rlc).k = k
         /\ W(pc, k, h1, h2, h3, rlc).h1 = h1
         /\ W(pc, k, h1, h2, h3, rlc).h2 = h2
         /\ W(pc, k, h1, h2, h3, rlc).h3 = h3
         /\ W(pc, k, h1, h2, h3, rlc).rlc = rlc
  BY DEF W

\* One field is changed.
LEMMA WPc ==
  ASSUME NEW pc, NEW k, NEW h1, NEW h2, NEW h3, NEW rlc, NEW x
  PROVE  [W(pc, k, h1, h2, h3, rlc) EXCEPT !.pc = x] = W(x, k, h1, h2, h3, rlc)
  BY SMT DEF W

LEMMA WK ==
  ASSUME NEW pc, NEW k, NEW h1, NEW h2, NEW h3, NEW rlc, NEW x
  PROVE  [W(pc, k, h1, h2, h3, rlc) EXCEPT !.k = x] = W(pc, x, h1, h2, h3, rlc)
  BY SMT DEF W

LEMMA WH1 ==
  ASSUME NEW pc, NEW k, NEW h1, NEW h2, NEW h3, NEW rlc, NEW x
  PROVE  [W(pc, k, h1, h2, h3, rlc) EXCEPT !.h1 = x] = W(pc, k, x, h2, h3, rlc)
  BY SMT DEF W

LEMMA WH2 ==
  ASSUME NEW pc, NEW k, NEW h1, NEW h2, NEW h3, NEW rlc, NEW x
  PROVE  [W(pc, k, h1, h2, h3, rlc) EXCEPT !.h2 = x] = W(pc, k, h1, x, h3, rlc)
  BY SMT DEF W

LEMMA WH3 ==
  ASSUME NEW pc, NEW k, NEW h1, NEW h2, NEW h3, NEW rlc, NEW x
  PROVE  [W(pc, k, h1, h2, h3, rlc) EXCEPT !.h3 = x] = W(pc, k, h1, h2, x, rlc)
  BY SMT DEF W

LEMMA WRlc ==
  ASSUME NEW pc, NEW k, NEW h1, NEW h2, NEW h3, NEW rlc, NEW x
  PROVE  [W(pc, k, h1, h2, h3, rlc) EXCEPT !.rlc = x] = W(pc, k, h1, h2, h3, x)
  BY SMT DEF W

\* Two or three are.
PcK(w, x, y) == [w EXCEPT !.pc = x, !.k = y]

LEMMA WPcK ==
  ASSUME NEW pc, NEW k, NEW h1, NEW h2, NEW h3, NEW rlc, NEW x, NEW y
  PROVE  PcK(W(pc, k, h1, h2, h3, rlc), x, y) = W(x, y, h1, h2, h3, rlc)
<1>1. [W(pc, k, h1, h2, h3, rlc) EXCEPT !.pc = x] = W(x, k, h1, h2, h3, rlc)
  BY WPc
<1>2. [W(x, k, h1, h2, h3, rlc) EXCEPT !.k = y] = W(x, y, h1, h2, h3, rlc)
  BY WK
<1>3. QED
  BY <1>1, <1>2, Zenon DEF PcK

PcH3(w, x, y) == [w EXCEPT !.pc = x, !.h3 = y]

LEMMA WPcH3 ==
  ASSUME NEW pc, NEW k, NEW h1, NEW h2, NEW h3, NEW rlc, NEW x, NEW y
  PROVE  PcH3(W(pc, k, h1, h2, h3, rlc), x, y) = W(x, k, h1, h2, y, rlc)
<1>1. [W(pc, k, h1, h2, h3, rlc) EXCEPT !.pc = x] = W(x, k, h1, h2, h3, rlc)
  BY WPc
<1>2. [W(x, k, h1, h2, h3, rlc) EXCEPT !.h3 = y] = W(x, k, h1, h2, y, rlc)
  BY WH3
<1>3. QED
  BY <1>1, <1>2, Zenon DEF PcH3

PcRlc(w, x, y) == [w EXCEPT !.pc = x, !.rlc = y]

LEMMA WPcRlc ==
  ASSUME NEW pc, NEW k, NEW h1, NEW h2, NEW h3, NEW rlc, NEW x, NEW y
  PROVE  PcRlc(W(pc, k, h1, h2, h3, rlc), x, y) = W(x, k, h1, h2, h3, y)
<1>1. [W(pc, k, h1, h2, h3, rlc) EXCEPT !.pc = x] = W(x, k, h1, h2, h3, rlc)
  BY WPc
<1>2. [W(x, k, h1, h2, h3, rlc) EXCEPT !.rlc = y] = W(x, k, h1, h2, h3, y)
  BY WRlc
<1>3. QED
  BY <1>1, <1>2, Zenon DEF PcRlc

PcTrees(w, x, y, z) == [w EXCEPT !.pc = x, !.h1 = y, !.h2 = z]

LEMMA WPcTrees ==
  ASSUME NEW pc, NEW k, NEW h1, NEW h2, NEW h3, NEW rlc, NEW x, NEW y, NEW z
  PROVE  PcTrees(W(pc, k, h1, h2, h3, rlc), x, y, z)
           = W(x, k, y, z, h3, rlc)
<1>1. [W(pc, k, h1, h2, h3, rlc) EXCEPT !.pc = x] = W(x, k, h1, h2, h3, rlc)
  BY WPc
<1>2. [W(x, k, h1, h2, h3, rlc) EXCEPT !.h1 = y] = W(x, k, y, h2, h3, rlc)
  BY WH1
<1>3. [W(x, k, y, h2, h3, rlc) EXCEPT !.h2 = z] = W(x, k, y, z, h3, rlc)
  BY WH2
<1>4. QED
  BY <1>1, <1>2, <1>3, Zenon DEF PcTrees

\* Where all bits of the header are written.
Full(pc, k) == IF Fixed THEN W(pc, k, NoTree, NoTree, NoTree, <<>>)
               ELSE W(pc, k, H1, H2, H3, Rlc)

AtStart == bs = <<>> /\ writer = W("start", 1, NoTree, NoTree, NoTree, <<>>)
AtTrees == ~ Fixed /\ bs = <<>> /\ writer = W("trees", 1, lel_bucket, dis_bucket, NoTree, <<>>)
AtRuns == ~ Fixed /\ bs = <<>> /\ writer = W("runs", 1, H1, H2, NoTree, <<>>)
AtThird == ~ Fixed /\ bs = <<>> /\ writer = W("third", 1, H1, H2, NoTree, Rlc)
AtHeader == ~ Fixed /\ bs = <<>> /\ writer = W("header", 1, H1, H2, H3, Rlc)
AtLengths ==
  ~ Fixed /\ \E k \in 1 .. Len(Rlc) + 1 :
               writer = W("lengths", k, H1, H2, H3, Rlc) /\ Laid(bs, P, 1 + k)
AtItems == \E k \in 1 .. Len(items) + 1 : writer = Full("items", k) /\ Laid(bs, P, B + k)
AtDone == writer = Full("done", Len(items) + 1) /\ Laid(bs, P, B + Len(items) + 1)

\* What the reader has of the two trees' lengths, once it has them.
HL == IF Fixed THEN 0 ELSE K1
HD == IF Fixed THEN 0 ELSE K2
LS == IF Fixed THEN <<>> ELSE Sent

ReadsLengths ==
  ~ Fixed /\ \E p : IsProgress(p, Rlc, Sent, 0, Len(Sent)) /\ \E k \in 1 .. Len(Rlc) + 1 :
    reader = Rd("lengths", At(P, 1 + k), last_block, K1, K2, Prefix(Sent, p[k]),
                Reader!decoder(H3), <<>>, <<>>, <<>>)

ReadsItems ==
  \E k \in 1 .. Len(items) :
    /\ items[k].type # "distance"
    /\ reader = Rd("items", At(P, B + k), last_block, HL, HD, LS, <<>>,
                   Reader!decoder(C1), Reader!decoder(C2), Prefix(items, k - 1))

HasRead ==
  reader = Rd("done", At(P, B + Len(items) + 1), last_block, HL, HD, LS, <<>>,
              Reader!decoder(C1), Reader!decoder(C2), items)

Scene ==
  /\ IsBlock(items) /\ last_block \in Bit
  /\ coding_type \in {"static_coding", "dynamic_coding"}

Writes ==
  AtStart \/ AtTrees \/ AtRuns \/ AtThird \/ AtHeader \/ AtLengths \/ AtItems

Inv ==
  /\ Scene
  /\ \/ Writes /\ reader = Reader!Start
     \/ AtDone /\ (reader = Reader!Start \/ ReadsLengths \/ ReadsItems \/ HasRead)

LEMMA StageIs ==
  ASSUME Inv
  PROVE  /\ writer.pc \in {"start", "trees", "runs", "third", "header", "lengths",
                           "items", "done"}
         /\ writer.pc = "start" => AtStart
         /\ writer.pc = "trees" => AtTrees
         /\ writer.pc = "runs" => AtRuns
         /\ writer.pc = "third" => AtThird
         /\ writer.pc = "header" => AtHeader
         /\ writer.pc = "lengths" => AtLengths
         /\ writer.pc = "items" => AtItems
         /\ writer.pc = "done" => AtDone
         /\ writer.pc # "done" => reader = Reader!Start
<1>1. AtStart => writer.pc = "start"
  BY WFields DEF AtStart
<1>2. AtTrees => writer.pc = "trees"
  BY WFields DEF AtTrees
<1>3. AtRuns => writer.pc = "runs"
  BY WFields DEF AtRuns
<1>4. AtThird => writer.pc = "third"
  BY WFields DEF AtThird
<1>5. AtHeader => writer.pc = "header"
  BY WFields DEF AtHeader
<1>6. AtLengths => writer.pc = "lengths"
  BY WFields DEF AtLengths
<1>7. AtItems => writer.pc = "items"
  BY WFields DEF AtItems, Full
<1>8. AtDone => writer.pc = "done"
  BY WFields DEF AtDone, Full
<1>9. QED
  BY <1>1, <1>2, <1>3, <1>4, <1>5, <1>6, <1>7, <1>8 DEF Inv, Writes

LEMMA InitInv ==
  ASSUME Init
  PROVE  Inv
<1>1. Scene
  <2>1. last_block \in Bit
    BY DEF Init, Bit
  <2>2. QED
    BY <2>1, ContentsAre DEF Init, Scene
<1>2. AtStart
  BY DEF Init, AtStart, W
<1>3. QED
  BY <1>1, <1>2 DEF Init, Inv, Writes

LEMMA SceneKept ==
  ASSUME Scene, UNCHANGED args
  PROVE  Scene'
  BY DEF Scene, args

\* A step of the writer that comes to a stage of its.
LEMMA WriterComes ==
  ASSUME Scene, UNCHANGED args, UNCHANGED reader, reader = Reader!Start,
         Writes' \/ AtDone'
  PROVE  Inv'
  BY SceneKept DEF Inv

LEMMA FullKept ==
  ASSUME UNCHANGED args, NEW pc, NEW k
  PROVE  Full(pc, k)' = Full(pc, k)
<1>1. Fixed' = Fixed /\ H1' = H1 /\ H2' = H2 /\ H3' = H3 /\ Rlc' = Rlc
  BY PlanKept, TreesKept DEF args
<1>2. QED
  BY <1>1 DEF Full

LEMMA ItemsStage ==
  ASSUME UNCHANGED args, NEW k, k \in 1 .. Len(items) + 1, writer' = Full("items", k),
         Laid(bs', P, B + k)
  PROVE  AtItems'
<1>1. items' = items
  BY DEF args
<1>2. Full("items", k)' = Full("items", k)
  BY FullKept
<1>3. P' = P /\ B' = B
  BY PlanKept
<1>4. QED
  BY <1>1, <1>2, <1>3 DEF AtItems

LEMMA LengthsStage ==
  ASSUME UNCHANGED args, ~ Fixed, NEW k, k \in 1 .. Len(Rlc) + 1,
         writer' = W("lengths", k, H1, H2, H3, Rlc), Laid(bs', P, 1 + k)
  PROVE  AtLengths'
<1>1. Fixed' = Fixed /\ H1' = H1 /\ H2' = H2 /\ H3' = H3 /\ Rlc' = Rlc /\ P' = P
  BY PlanKept, TreesKept DEF args
<1>2. QED
  BY <1>1 DEF AtLengths

\* The header is the first piece.
LEMMA HeadLaid ==
  ASSUME Scene
  PROVE  Laid(HeadBits, P, 2)
<1>1. IsPieces(P) /\ P[1] = HeadBits /\ 1 \in 1 .. Len(P)
  <2>1. /\ B \in Nat \ {0} /\ Len(items) \in Nat
        /\ IsPieces(P) /\ Len(P) = B + Len(items) /\ P[1] = HeadBits
    BY PlanIs DEF Scene
  <2>2. QED
    BY <2>1
<1>2. Laid(<<>>, P, 1)
  BY <1>1, LaidNone
<1>3. Laid(<<>> \o HeadBits, P, 1 + 1)
  BY <1>1, <1>2, LaidMore
<1>4. <<>> \o HeadBits = HeadBits
  <2>1. HeadBits \in Seq(Bit)
    BY HeadBitsAre DEF Scene
  <2>2. QED
    BY <2>1
<1>5. 1 + 1 = 2
  OBVIOUS
<1>6. QED
  BY <1>3, <1>4, <1>5, Zenon

LEMMA StaticHeaderStep ==
  ASSUME Scene, AtStart, reader = Reader!Start, StaticHeader
  PROVE  Inv'
<1>1. UNCHANGED args /\ UNCHANGED reader /\ Fixed /\ bs' = HeadBits
  BY DEF StaticHeader, Fixed, HeadBits
<1>2. writer' = Full("items", 1)
  <2>1. writer' = [writer EXCEPT !.pc = "items"]
    BY DEF StaticHeader
  <2>2. writer = W("start", 1, NoTree, NoTree, NoTree, <<>>)
    BY DEF AtStart
  <2>3. writer' = W("items", 1, NoTree, NoTree, NoTree, <<>>)
    BY <2>1, <2>2, WPc
  <2>4. QED
    BY <1>1, <2>3 DEF Full
<1>3. 1 \in 1 .. Len(items) + 1
  BY DEF Scene, IsBlock
<1>4. Laid(bs', P, B + 1)
  <2>1. B = 1 /\ B + 1 = 2
    BY <1>1 DEF B
  <2>2. QED
    BY <1>1, <2>1, HeadLaid
<1>5. AtItems'
  BY <1>1, <1>2, <1>3, <1>4, ItemsStage
<1>6. QED
  BY <1>1, <1>5, WriterComes DEF Writes

LEMMA CollectStep ==
  ASSUME Scene, AtStart, reader = Reader!Start, Collect
  PROVE  Inv'
<1>1. UNCHANGED args /\ UNCHANGED reader /\ ~ Fixed /\ bs' = <<>>
  <2>1. coding_type # "static_coding"
    BY DEF Collect
  <2>2. QED
    BY <2>1 DEF Collect, Fixed, AtStart
<1>2. writer' = W("trees", 1, lel_bucket, dis_bucket, NoTree, <<>>)
  <2>1. writer' = PcTrees(writer, "trees", lel_bucket, dis_bucket)
    BY DEF Collect, PcTrees
  <2>2. writer = W("start", 1, NoTree, NoTree, NoTree, <<>>)
    BY DEF AtStart
  <2>3. QED
    BY <2>1, <2>2, WPcTrees
<1>3. AtTrees'
  <2>1. Fixed' = Fixed /\ lel_bucket' = lel_bucket /\ dis_bucket' = dis_bucket
    BY <1>1, PlanKept, BucketsKept DEF args
  <2>2. QED
    BY <1>1, <1>2, <2>1 DEF AtTrees
<1>4. QED
  BY <1>1, <1>3, WriterComes DEF Writes

LEMMA BuildTreesStep ==
  ASSUME Scene, AtTrees, reader = Reader!Start, BuildTrees
  PROVE  Inv'
<1>1. UNCHANGED args /\ UNCHANGED reader /\ ~ Fixed /\ bs' = <<>>
  BY DEF BuildTrees, AtTrees
<1>2. writer = W("trees", 1, lel_bucket, dis_bucket, NoTree, <<>>)
  BY DEF AtTrees
<1>3. writer.h1 = lel_bucket /\ writer.h2 = dis_bucket
  BY <1>2, WFields
<1>4. used(lel_bucket) # {} /\ used(dis_bucket) # {}
  BY BucketsAre DEF Scene
<1>5. writer' = PcTrees(writer, "runs", H1, H2)
  BY <1>3, <1>4 DEF BuildTrees, H1, H2, PcTrees
<1>6. writer' = W("runs", 1, H1, H2, NoTree, <<>>)
  BY <1>2, <1>5, WPcTrees
<1>7. AtRuns'
  <2>1. Fixed' = Fixed /\ H1' = H1 /\ H2' = H2
    BY <1>1, PlanKept, TreesKept DEF args
  <2>2. QED
    BY <1>1, <1>6, <2>1 DEF AtRuns
<1>8. QED
  BY <1>1, <1>7, WriterComes DEF Writes

LEMMA RunLengthsStep ==
  ASSUME Scene, AtRuns, reader = Reader!Start, RunLengths
  PROVE  Inv'
<1>1. UNCHANGED args /\ UNCHANGED reader /\ ~ Fixed /\ bs' = <<>>
  BY DEF RunLengths, AtRuns
<1>2. writer = W("runs", 1, H1, H2, NoTree, <<>>)
  BY DEF AtRuns
<1>3. writer.h1 = H1 /\ writer.h2 = H2
  BY <1>2, WFields
<1>4. writer' = PcRlc(writer, "third", Rlc)
  BY <1>3, Zenon DEF RunLengths, Rlc, PcRlc
<1>5. writer' = W("third", 1, H1, H2, NoTree, Rlc)
  BY <1>2, <1>4, WPcRlc
<1>6. AtThird'
  <2>1. Fixed' = Fixed /\ H1' = H1 /\ H2' = H2 /\ Rlc' = Rlc
    BY <1>1, PlanKept, TreesKept DEF args
  <2>2. QED
    BY <1>1, <1>5, <2>1 DEF AtThird
<1>7. QED
  BY <1>1, <1>6, WriterComes DEF Writes

LEMMA ThirdTreeStep ==
  ASSUME Scene, AtThird, reader = Reader!Start, ThirdTree
  PROVE  Inv'
<1>1. UNCHANGED args /\ UNCHANGED reader /\ ~ Fixed /\ bs' = <<>>
  BY DEF ThirdTree, AtThird
<1>2. writer = W("third", 1, H1, H2, NoTree, Rlc)
  BY DEF AtThird
<1>3. writer.rlc = Rlc
  BY <1>2, WFields
<1>4. writer' = PcH3(writer, "header", H3)
  BY <1>3, Zenon DEF ThirdTree, H3, PcH3
<1>5. writer' = W("header", 1, H1, H2, H3, Rlc)
  BY <1>2, <1>4, WPcH3
<1>6. AtHeader'
  <2>1. Fixed' = Fixed /\ H1' = H1 /\ H2' = H2 /\ H3' = H3 /\ Rlc' = Rlc
    BY <1>1, PlanKept, TreesKept DEF args
  <2>2. QED
    BY <1>1, <1>5, <2>1 DEF AtHeader
<1>7. QED
  BY <1>1, <1>6, WriterComes DEF Writes

LEMMA LastCodesAre ==
  ASSUME Scene
  PROVE  last_code(H1) \in Nat /\ last_code(H2) \in Nat /\ rlc_last_code_index(H3) \in Nat
<1>1. /\ IsTree(H1, 15, 286, used(lel_bucket)) /\ 256 \in used(lel_bucket)
      /\ IsTree(H2, 15, 30, used(dis_bucket)) /\ used(dis_bucket) # {}
  BY TreesAre, BucketsAre DEF H1, H2, Scene
<1>2. PICK d : d \in used(dis_bucket)
  BY <1>1
<1>3. /\ H1 \in [0 .. 286 - 1 -> 0 .. 15] /\ H1[256] > 0
      /\ H2 \in [0 .. 30 - 1 -> 0 .. 15] /\ d \in 0 .. 30 - 1 /\ H2[d] > 0
  BY <1>1, <1>2, Zenon DEF IsTree, IsComplete
<1>4. last_code(H1) \in 256 .. 286 - 1
  <2>1. PICK M \in Nat, c \in Nat : M = 286 /\ c = 256
    OBVIOUS
  <2>2. H1 \in [0 .. M - 1 -> 0 .. 15] /\ c \in 0 .. M - 1 /\ H1[c] > 0
    BY <1>3, <2>1
  <2>3. last_code(H1) \in c .. M - 1
    BY <2>2, LastCodeIs
  <2>4. QED
    BY <2>1, <2>3
<1>5. last_code(H2) \in d .. 30 - 1
  <2>1. PICK M \in Nat, c \in Nat : M = 30 /\ c = d
    BY <1>3
  <2>2. H2 \in [0 .. M - 1 -> 0 .. 15] /\ c \in 0 .. M - 1 /\ H2[c] > 0
    BY <1>3, <2>1
  <2>3. last_code(H2) \in c .. M - 1
    BY <2>2, LastCodeIs
  <2>4. QED
    BY <2>1, <2>3
<1>6. PICK n : n = rlc_last_code_index(H3)
  OBVIOUS
<1>7. n + 1 \in 4 .. 19
  BY <1>6, ThirdSent DEF N3, Scene
<1>8. n \in Nat
  <2>1. PICK x \in 0 .. 15 : H3[x] > 0
    <3>1. /\ IsCodes(Rlc) /\ \E k \in 1 .. Len(Rlc) : Rlc[k] % 32 \in 1 .. 15
      <4>1. /\ K1 \in 257 .. 286 /\ K2 \in 1 .. 30 /\ Sent[K1] > 0
            /\ Sent \in Seq(0 .. 15) /\ Len(Sent) = K1 + K2
            /\ Encodes(Rlc, Sent, 0, Len(Sent))
        BY TreesSent DEF Scene
      <4>2. K1 \in 1 .. Len(Sent)
        BY <4>1
      <4>3. QED
        BY <4>1, <4>2, CodesAre
    <3>2. QED
      BY <3>1, ThirdSent, SMTT(60) DEF Scene
  <2>2. H3 \in [0 .. 18 -> 0 .. 7]
    BY ThirdSent DEF Scene
  <2>3. n \in 3 .. 18
    BY <1>6, <2>1, <2>2, LastIndexIs
  <2>4. QED
    BY <2>3
<1>9. QED
  BY <1>3, <1>4, <1>5, <1>6, <1>8

LEMMA DynamicHeaderStep ==
  ASSUME Scene, AtHeader, reader = Reader!Start, DynamicHeader
  PROVE  Inv'
<1>1. UNCHANGED args /\ UNCHANGED reader /\ ~ Fixed
  BY DEF DynamicHeader, AtHeader
<1>2. writer = W("header", 1, H1, H2, H3, Rlc)
  BY DEF AtHeader
<1>3. writer.h1 = H1 /\ writer.h2 = H2 /\ writer.h3 = H3
  BY <1>2, WFields
<1>4. bs' = HeadBits
  <2>1. bs' = Fields(last_block, last_code(H1) + 1 - 257, last_code(H2) + 1 - 1,
                   rlc_last_code_index(H3) + 1 - 4, H3, rlc_last_code_index(H3) + 1)
    BY <1>3, Zenon DEF DynamicHeader, Fields, LengthFields
  <2>2. PICK x \in Nat, y \in Nat, z \in Nat :
          x = last_code(H1) /\ y = last_code(H2) /\ z = rlc_last_code_index(H3)
    BY LastCodesAre
  <2>3. x + 1 - 257 = (x + 1) - 257 /\ y + 1 - 1 = (y + 1) - 1 /\ z + 1 - 4 = (z + 1) - 4
    OBVIOUS
  <2>4. bs' = Fields(last_block, (x + 1) - 257, (y + 1) - 1, (z + 1) - 4, H3, z + 1)
    BY <2>1, <2>2, <2>3, Zenon
  <2>5. QED
    BY <1>1, <2>2, <2>4, Zenon DEF HeadBits, K1, K2, N3
<1>5. writer' = W("lengths", 1, H1, H2, H3, Rlc)
  <2>1. writer' = [writer EXCEPT !.pc = "lengths"]
    BY DEF DynamicHeader
  <2>2. QED
    BY <1>2, <2>1, WPc
<1>6. Laid(bs', P, 1 + 1)
  <2>1. 1 + 1 = 2
    OBVIOUS
  <2>2. QED
    BY <1>4, <2>1, HeadLaid, Zenon
<1>7. 1 \in 1 .. Len(Rlc) + 1
  <2>1. Len(Rlc) \in Nat
    BY <1>1, PlanIs DEF Scene
  <2>2. QED
    BY <2>1
<1>8. AtLengths'
  BY <1>1, <1>5, <1>6, <1>7, LengthsStage
<1>9. QED
  BY <1>1, <1>8, WriterComes DEF Writes

LEMMA WriteLengthStep ==
  ASSUME Scene, AtLengths, reader = Reader!Start, WriteLength
  PROVE  Inv'
<1>1. UNCHANGED args /\ UNCHANGED reader /\ ~ Fixed
  BY DEF WriteLength, AtLengths
<1>2. PICK k \in 1 .. Len(Rlc) + 1 :
        writer = W("lengths", k, H1, H2, H3, Rlc) /\ Laid(bs, P, 1 + k)
  BY DEF AtLengths
<1>3. writer.k = k /\ writer.h3 = H3 /\ writer.rlc = Rlc
  BY <1>2, WFields
<1>4. PICK n \in Nat, m \in Nat : n = Len(Rlc) /\ m = Len(items)
  BY <1>1, PlanIs DEF Scene
<1>5. k \in 1 .. n /\ k + 1 \in 1 .. n + 1
  <2>1. k <= n
    BY <1>3, <1>4 DEF WriteLength
  <2>2. k \in 1 .. n + 1
    BY <1>4
  <2>3. QED
    BY <2>1, <2>2
<1>6. /\ IsPieces(P) /\ P[1 + k] = LengthBits(H3, Rlc[k])
      /\ 1 + k \in 1 .. Len(P)
  <2>1. /\ IsPieces(P) /\ Len(P) = B + Len(items) /\ B = 1 + Len(Rlc)
        /\ \A i \in 1 .. Len(Rlc) : P[1 + i] = LengthBits(H3, Rlc[i])
    BY <1>1, PlanIs DEF Scene
  <2>2. Len(P) = (1 + n) + m
    BY <1>4, <2>1
  <2>3. P[1 + k] = LengthBits(H3, Rlc[k])
    BY <1>4, <1>5, <2>1
  <2>4. 1 + k \in 1 .. (1 + n) + m
    BY <1>5
  <2>5. QED
    BY <2>1, <2>2, <2>3, <2>4, Zenon
<1>7. bs' = bs \o P[1 + k]
  <2>1. length_bits(Rlc[k]) = LengthBits(H3, Rlc[k])
    BY <1>3, Zenon DEF length_bits, LengthBits
  <2>2. bs' = bs \o length_bits(Rlc[k])
    BY <1>3, Zenon DEF WriteLength
  <2>3. QED
    BY <1>6, <2>1, <2>2, Zenon
<1>8. Laid(bs', P, 1 + (k + 1))
  <2>1. Laid(bs', P, (1 + k) + 1)
    BY <1>2, <1>6, <1>7, LaidMore
  <2>2. (1 + k) + 1 = 1 + (k + 1)
    BY <1>5
  <2>3. QED
    BY <2>1, <2>2, Zenon
<1>9. writer' = W("lengths", k + 1, H1, H2, H3, Rlc)
  <2>1. writer' = [writer EXCEPT !.k = k + 1]
    BY <1>3, Zenon DEF WriteLength
  <2>2. QED
    BY <1>2, <2>1, WK
<1>10. k + 1 \in 1 .. Len(Rlc) + 1
  BY <1>4, <1>5
<1>11. AtLengths'
  BY <1>1, <1>8, <1>9, <1>10, LengthsStage
<1>12. QED
  BY <1>1, <1>11, WriterComes DEF Writes

LEMMA LengthsWrittenStep ==
  ASSUME Scene, AtLengths, reader = Reader!Start, LengthsWritten
  PROVE  Inv'
<1>1. UNCHANGED args /\ UNCHANGED reader /\ ~ Fixed /\ bs' = bs
  BY DEF LengthsWritten, AtLengths
<1>2. PICK k \in 1 .. Len(Rlc) + 1 :
        writer = W("lengths", k, H1, H2, H3, Rlc) /\ Laid(bs, P, 1 + k)
  BY DEF AtLengths
<1>3. writer.k = k /\ writer.rlc = Rlc
  BY <1>2, WFields
<1>4. Len(Rlc) \in Nat /\ Len(items) \in Nat /\ B = 1 + Len(Rlc)
  BY <1>1, PlanIs DEF Scene
<1>5. 1 + k = B + 1
  <2>1. k > Len(Rlc)
    BY <1>3 DEF LengthsWritten
  <2>2. QED
    BY <1>4, <2>1
<1>6. writer' = Full("items", 1)
  <2>1. writer' = PcK(writer, "items", 1)
    BY DEF LengthsWritten, PcK
  <2>2. writer' = W("items", 1, H1, H2, H3, Rlc)
    BY <1>2, <2>1, WPcK
  <2>3. QED
    BY <1>1, <2>2 DEF Full
<1>7. Laid(bs', P, B + 1) /\ 1 \in 1 .. Len(items) + 1
  BY <1>1, <1>2, <1>4, <1>5
<1>8. AtItems'
  BY <1>1, <1>6, <1>7, ItemsStage
<1>9. QED
  BY <1>1, <1>8, WriterComes DEF Writes

\* The writer goes on in the items.
LEMMA FullChanges ==
  ASSUME NEW pc, NEW k, NEW x
  PROVE  /\ Full(pc, k).pc = pc /\ Full(pc, k).k = k
         /\ Fixed => /\ Full(pc, k).h1 = NoTree /\ Full(pc, k).h2 = NoTree
                     /\ Full(pc, k).rlc = <<>>
         /\ ~ Fixed => /\ Full(pc, k).h1 = H1 /\ Full(pc, k).h2 = H2
                       /\ Full(pc, k).rlc = Rlc
         /\ [Full(pc, k) EXCEPT !.pc = x] = Full(x, k)
         /\ [Full(pc, k) EXCEPT !.k = x] = Full(pc, x)
<1>1. CASE Fixed
  <2>1. PICK e, t : e = <<>> /\ t = NoTree
    OBVIOUS
  <2>2. \A i, j : Full(i, j) = W(i, j, t, t, t, e)
    BY <1>1, <2>1 DEF Full
  <2>3. QED
    BY <1>1, <2>1, <2>2, WFields, WPc, WK
<1>2. CASE ~ Fixed
  <2>1. PICK t1, t2, t3, r : t1 = H1 /\ t2 = H2 /\ t3 = H3 /\ r = Rlc
    OBVIOUS
  <2>2. \A i, j : Full(i, j) = W(i, j, t1, t2, t3, r)
    BY <1>2, <2>1 DEF Full
  <2>3. QED
    BY <1>2, <2>1, <2>2, WFields, WPc, WK
<1>3. QED
  BY <1>1, <1>2, Zenon

LEMMA JoinAgain ==
  ASSUME NEW s \in Seq(Bit), NEW t \in Seq(Bit), NEW u \in Seq(Bit)
  PROVE  (s \o t) \o u = s \o (t \o u)
  OBVIOUS

LEMMA WriteItemStep ==
  ASSUME Scene, AtItems, reader = Reader!Start, WriteItem
  PROVE  Inv'
<1>1. UNCHANGED args /\ UNCHANGED reader
  BY DEF WriteItem
<1>2. PICK k \in 1 .. Len(items) + 1 : writer = Full("items", k) /\ Laid(bs, P, B + k)
  BY DEF AtItems
<1>3. /\ writer.k = k
      /\ ~ Fixed => writer.h1 = H1 /\ writer.h2 = H2
  BY <1>2, FullChanges
<1>4. PICK m \in Nat, b \in Nat : m = Len(items) /\ b = B /\ b > 0
  BY PlanIs DEF Scene
<1>5. k \in 1 .. m /\ k + 1 \in 1 .. m + 1
  <2>1. k <= m
    BY <1>3, <1>4 DEF WriteItem
  <2>2. k \in 1 .. m + 1
    BY <1>4
  <2>3. QED
    BY <2>1, <2>2
<1>6. /\ IsPieces(P) /\ P[b + k] = TwoTreeBits(C1, C2, items[k])
      /\ b + k \in 1 .. Len(P)
  <2>1. /\ IsPieces(P) /\ Len(P) = B + Len(items)
        /\ \A i \in 1 .. Len(items) : P[B + i] = TwoTreeBits(C1, C2, items[i])
    BY PlanIs DEF Scene
  <2>2. Len(P) = b + m
    BY <1>4, <2>1
  <2>3. P[b + k] = TwoTreeBits(C1, C2, items[k])
    BY <1>4, <1>5, <2>1
  <2>4. b + k \in 1 .. b + m
    BY <1>5
  <2>5. QED
    BY <2>1, <2>2, <2>3, <2>4, Zenon
<1>7. bs' = bs \o P[b + k]
  <2>1. PICK item, x, e : item = items[k] /\ x = ItemBits(item) /\ e = extra_bits(item)
    OBVIOUS
  <2>2. bs' = bs \o x \o e
    <3>1. bs' = bs \o (IF coding_type = "static_coding" THEN static_bits(item)
                       ELSE dynamic_bits(item)) \o e
      BY <1>3, <2>1, Zenon DEF WriteItem
    <3>2. CASE Fixed
      BY <2>1, <3>1, <3>2 DEF Fixed, ItemBits
    <3>3. CASE ~ Fixed
      <4>1. dynamic_bits(item) = x
        BY <1>3, <2>1, <3>3 DEF dynamic_bits, ItemBits
      <4>2. QED
        BY <3>1, <3>3, <4>1 DEF Fixed
    <3>4. QED
      BY <3>2, <3>3
  <2>3. /\ TwoTreeBits(C1, C2, item) = x \o e
        /\ x \in Seq(Bit) /\ e \in Seq(Bit)
    BY <1>4, <1>5, <2>1, ItemsAre DEF Scene
  <2>4. bs \in Seq(Bit)
    BY <1>2 DEF Laid
  <2>5. bs \o x \o e = bs \o (x \o e)
    BY <2>3, <2>4, JoinAgain
  <2>6. QED
    BY <1>6, <2>1, <2>2, <2>3, <2>5, Zenon
<1>8. Laid(bs', P, B + (k + 1))
  <2>1. Laid(bs', P, (b + k) + 1)
    BY <1>2, <1>4, <1>6, <1>7, LaidMore
  <2>2. (b + k) + 1 = b + (k + 1)
    BY <1>5
  <2>3. QED
    BY <1>4, <2>1, <2>2, Zenon
<1>9. writer' = Full("items", k + 1)
  <2>1. writer' = [writer EXCEPT !.k = k + 1]
    BY <1>3, Zenon DEF WriteItem
  <2>2. PICK x : x = k + 1
    OBVIOUS
  <2>3. [Full("items", k) EXCEPT !.k = x] = Full("items", x)
    BY FullChanges
  <2>4. QED
    BY <1>2, <2>1, <2>2, <2>3, Zenon
<1>10. k + 1 \in 1 .. Len(items) + 1
  BY <1>4, <1>5
<1>11. AtItems'
  BY <1>1, <1>8, <1>9, <1>10, ItemsStage
<1>12. QED
  BY <1>1, <1>11, WriterComes DEF Writes

LEMMA WrittenStep ==
  ASSUME Scene, AtItems, reader = Reader!Start, Written
  PROVE  Inv'
<1>1. UNCHANGED args /\ UNCHANGED reader /\ bs' = bs
  BY DEF Written
<1>2. PICK k \in 1 .. Len(items) + 1 : writer = Full("items", k) /\ Laid(bs, P, B + k)
  BY DEF AtItems
<1>3. writer.k = k
  BY <1>2, FullChanges
<1>4. PICK m \in Nat, b \in Nat : m = Len(items) /\ b = B
  BY PlanIs DEF Scene
<1>5. k = m + 1 /\ b + k = b + m + 1
  <2>1. k > m
    BY <1>3, <1>4 DEF Written
  <2>2. k \in 1 .. m + 1
    BY <1>4
  <2>3. QED
    BY <2>1, <2>2
<1>6. writer' = Full("done", m + 1)
  <2>1. writer' = [writer EXCEPT !.pc = "done"]
    BY DEF Written
  <2>2. [Full("items", k) EXCEPT !.pc = "done"] = Full("done", k)
    BY FullChanges
  <2>3. QED
    BY <1>2, <1>5, <2>1, <2>2, Zenon
<1>7. Laid(bs', P, b + m + 1)
  BY <1>1, <1>2, <1>4, <1>5
<1>8. AtDone'
  <2>1. items' = items /\ B' = B /\ P' = P
    BY <1>1, PlanKept DEF args
  <2>2. Full("done", m + 1)' = Full("done", m + 1)
    BY <1>1, FullKept
  <2>3. Full("done", Len(items) + 1)' = Full("done", Len(items) + 1)
    BY <1>1, <2>1, FullKept
  <2>4. QED
    BY <1>4, <1>6, <1>7, <2>1, <2>3 DEF AtDone
<1>9. QED
  BY <1>1, <1>8, WriterComes

-------------------------------------------------------------------------------
(* The reader.                                                             *)

LEMMA ReaderIs ==
  ASSUME reader = Reader!Start \/ ReadsLengths \/ ReadsItems \/ HasRead
  PROVE  /\ reader.pc \in {"header", "lengths", "items", "done"}
         /\ reader.pc = "header" => reader = Reader!Start
         /\ reader.pc = "lengths" => ReadsLengths
         /\ reader.pc = "items" => ReadsItems
         /\ reader.pc = "done" => HasRead
<1>1. reader = Reader!Start => reader.pc = "header"
  BY DEF Reader!Start
<1>2. ReadsLengths => reader.pc = "lengths"
  <2>1. SUFFICES ASSUME ReadsLengths PROVE reader.pc = "lengths"
    OBVIOUS
  <2>2. PICK p, k : reader = Rd("lengths", At(P, 1 + k), last_block, K1, K2,
                                Prefix(Sent, p[k]), Reader!decoder(H3), <<>>, <<>>, <<>>)
    BY <2>1 DEF ReadsLengths
  <2>3. QED
    BY <2>2 DEF Rd
<1>3. ReadsItems => reader.pc = "items"
  <2>1. SUFFICES ASSUME ReadsItems PROVE reader.pc = "items"
    OBVIOUS
  <2>2. PICK k : reader = Rd("items", At(P, B + k), last_block, HL, HD, LS, <<>>,
                             Reader!decoder(C1), Reader!decoder(C2), Prefix(items, k - 1))
    BY <2>1 DEF ReadsItems
  <2>3. QED
    BY <2>2 DEF Rd
<1>4. HasRead => reader.pc = "done"
  BY DEF HasRead, Rd
<1>5. QED
  BY <1>1, <1>2, <1>3, <1>4

LEMMA AllHeld ==
  ASSUME Scene, AtDone
  PROVE  /\ bs \in Seq(Bit) /\ IsPieces(P) /\ Len(bs) = At(P, B + Len(items) + 1)
         /\ \A j \in 1 .. B + Len(items) :
              /\ At(P, j) \in Nat /\ At(P, j + 1) = At(P, j) + Len(P[j])
              /\ P[j] \in Seq(Bit) /\ Holds(bs, At(P, j), P[j])
         /\ Holds(bs, 0, HeadBits) /\ Len(bs) > 0 /\ At(P, 2) = Len(HeadBits)
<1>1. PICK n \in Nat : n = B + Len(items) /\ n > 0
  <2>1. B \in Nat \ {0} /\ Len(items) \in Nat
    BY PlanIs DEF Scene
  <2>2. B + Len(items) \in Nat /\ B + Len(items) > 0
    BY <2>1
  <2>3. QED
    BY <2>2
<1>2. Len(P) = n /\ IsPieces(P) /\ P[1] = HeadBits
  BY <1>1, PlanIs DEF Scene
<1>3. Laid(bs, P, n + 1)
  <2>1. Laid(bs, P, B + Len(items) + 1)
    BY DEF AtDone
  <2>2. QED
    BY <1>1, <2>1, Zenon
<1>4. /\ bs \in Seq(Bit) /\ Len(bs) = At(P, n + 1)
      /\ \A j \in 1 .. n : Holds(bs, At(P, j), P[j])
  <2>1. (n + 1) - 1 = n
    OBVIOUS
  <2>2. QED
    BY <1>3, <2>1 DEF Laid
<1>5. /\ At(P, 1) = 0
      /\ \A k \in 1 .. n : At(P, k) \in Nat /\ At(P, k + 1) = At(P, k) + Len(P[k])
      /\ \A k \in 1 .. n + 1 : At(P, k) \in Nat
      /\ \A j, k \in 1 .. n + 1 : j <= k => At(P, j) <= At(P, k)
  BY <1>2, AtIs
<1>6. \A j \in 1 .. n : P[j] \in Seq(Bit)
  BY <1>2 DEF IsPieces
<1>7. Holds(bs, 0, HeadBits)
  <2>1. 1 \in 1 .. n
    BY <1>1
  <2>2. QED
    BY <1>2, <1>4, <1>5, <2>1
<1>8. At(P, 2) = Len(HeadBits) /\ Len(bs) > 0
  <2>1. 1 \in 1 .. n /\ 2 \in 1 .. n + 1 /\ n + 1 \in 1 .. n + 1 /\ 2 <= n + 1 /\ 1 + 1 = 2
    BY <1>1
  <2>2. HeadBits \in Seq(Bit) /\ Len(HeadBits) > 0
    BY HeadBitsAre DEF Scene
  <2>3. PICK l \in Nat : l = Len(HeadBits) /\ l > 0
    BY <2>2
  <2>4. At(P, 1 + 1) = At(P, 1) + Len(P[1])
    BY <1>5, <2>1
  <2>5. At(P, 2) = 0 + l
    BY <1>2, <1>5, <2>1, <2>3, <2>4, Zenon
  <2>6. At(P, 2) <= At(P, n + 1) /\ At(P, n + 1) \in Nat
    BY <1>5, <2>1
  <2>7. QED
    BY <1>4, <2>3, <2>5, <2>6
<1>9. QED
  BY <1>1, <1>2, <1>4, <1>5, <1>6, <1>7, <1>8

\* A step of the reader that comes to a stage of its.
LEMMA ReaderComes ==
  ASSUME Scene, AtDone, UNCHANGED <<args, bs, writer>>,
         ReadsLengths' \/ ReadsItems' \/ HasRead'
  PROVE  Inv'
<1>1. UNCHANGED args /\ bs' = bs /\ writer' = writer
  OBVIOUS
<1>2. items' = items /\ B' = B /\ P' = P
  BY <1>1, PlanKept DEF args
<1>3. Full("done", Len(items) + 1)' = Full("done", Len(items) + 1)
  BY <1>1, <1>2, FullKept
<1>4. AtDone'
  BY <1>1, <1>2, <1>3 DEF AtDone
<1>5. QED
  BY <1>1, <1>4, SceneKept DEF Inv

LEMMA ReaderKept ==
  ASSUME UNCHANGED args
  PROVE  /\ Fixed' = Fixed /\ items' = items /\ last_block' = last_block /\ B' = B /\ P' = P
         /\ C1' = C1 /\ C2' = C2 /\ H3' = H3 /\ Rlc' = Rlc /\ Sent' = Sent
         /\ K1' = K1 /\ K2' = K2 /\ HL' = HL /\ HD' = HD /\ LS' = LS
<1>1. items' = items /\ last_block' = last_block
  BY DEF args
<1>2. /\ Fixed' = Fixed /\ B' = B /\ P' = P /\ C1' = C1 /\ C2' = C2
      /\ H3' = H3 /\ Rlc' = Rlc /\ Sent' = Sent /\ K1' = K1 /\ K2' = K2
  BY <1>1, PlanKept, TreesKept
<1>3. HL' = HL /\ HD' = HD /\ LS' = LS
  BY <1>2 DEF HL, HD, LS
<1>4. QED
  BY <1>1, <1>2, <1>3

LEMMA ItemsComes ==
  ASSUME UNCHANGED args, NEW k \in 1 .. Len(items), items[k].type # "distance",
         reader' = Rd("items", At(P, B + k), last_block, HL, HD, LS, <<>>,
                      Reader!decoder(C1), Reader!decoder(C2), Prefix(items, k - 1))
  PROVE  ReadsItems'
  BY ReaderKept, Zenon DEF ReadsItems

LEMMA LengthsComes ==
  ASSUME UNCHANGED args, ~ Fixed, NEW p, IsProgress(p, Rlc, Sent, 0, Len(Sent)),
         NEW k \in 1 .. Len(Rlc) + 1,
         reader' = Rd("lengths", At(P, 1 + k), last_block, K1, K2, Prefix(Sent, p[k]),
                      Reader!decoder(H3), <<>>, <<>>, <<>>)
  PROVE  ReadsLengths'
<1>1. /\ Fixed' = Fixed /\ last_block' = last_block /\ P' = P /\ H3' = H3 /\ Rlc' = Rlc
      /\ Sent' = Sent /\ K1' = K1 /\ K2' = K2
  BY ReaderKept
<1>2. QED
  BY <1>1, Zenon DEF ReadsLengths

LEMMA ReadHeaderStep ==
  ASSUME Scene, AtDone, reader = Reader!Start, ReadHeader
  PROVE  Inv'
<1>1. UNCHANGED args /\ UNCHANGED <<args, bs, writer>>
  BY DEF ReadHeader, Reads
<1>2. reader' = Reader!read_header(Reader!Start, bs)
  BY DEF ReadHeader, Reads
<1>3. bs \in Seq(Bit) /\ Len(bs) > 0 /\ Holds(bs, 0, HeadBits) /\ At(P, 2) = Len(HeadBits)
  BY AllHeld
<1>4. reader' = IF Fixed
                THEN Rd("items", Len(HeadBits), last_block, 0, 0, <<>>, <<>>,
                        Reader!decoder(C1), Reader!decoder(C2), <<>>)
                ELSE Rd("lengths", Len(HeadBits), last_block, K1, K2, <<>>,
                        Reader!decoder(H3), <<>>, <<>>, <<>>)
  BY <1>2, <1>3, HeadBitsAre DEF Scene
<1>5. CASE Fixed
  <2>1. HL = 0 /\ HD = 0 /\ LS = <<>>
    BY <1>5 DEF HL, HD, LS
  <2>2. 1 \in 1 .. Len(items) /\ items[1].type # "distance" /\ Len(items) \in Nat
    BY DEF Scene, IsBlock
  <2>3. At(P, B + 1) = Len(HeadBits)
    <3>1. B = 1 /\ 1 + 1 = 2
      BY <1>5 DEF B
    <3>2. QED
      BY <1>3, <3>1, Zenon
  <2>4. Prefix(items, 1 - 1) = <<>>
    <3>1. 1 - 1 = 0 /\ 0 \in 0 .. Len(items)
      BY <2>2
    <3>2. Prefix(items, 0) = <<>>
      BY <2>2, <3>1, PrefixIs
    <3>3. QED
      BY <3>1, <3>2, Zenon
  <2>5. reader' = Rd("items", At(P, B + 1), last_block, HL, HD, LS, <<>>,
                     Reader!decoder(C1), Reader!decoder(C2), Prefix(items, 1 - 1))
    BY <1>4, <1>5, <2>1, <2>3, <2>4, Zenon
  <2>6. ReadsItems'
    BY <1>1, <2>2, <2>5, ItemsComes
  <2>7. QED
    BY <1>1, <2>6, ReaderComes
<1>6. CASE ~ Fixed
  <2>1. /\ Encodes(Rlc, Sent, 0, Len(Sent)) /\ Sent \in Seq(0 .. 15)
    BY TreesSent DEF Scene
  <2>2. PICK p : IsProgress(p, Rlc, Sent, 0, Len(Sent))
    BY <2>1 DEF Encodes
  <2>3. p[1] = 0
    BY <2>2 DEF IsProgress
  <2>4. 1 \in 1 .. Len(Rlc) + 1
    <3>1. Len(Rlc) \in Nat
      BY <1>6, PlanIs DEF Scene
    <3>2. QED
      BY <3>1
  <2>5. Prefix(Sent, p[1]) = <<>>
    <3>1. Len(Sent) \in Nat
      BY <2>1
    <3>2. 0 \in 0 .. Len(Sent)
      BY <3>1
    <3>3. Prefix(Sent, 0) = <<>>
      BY <3>1, <3>2, PrefixIs
    <3>4. QED
      BY <2>3, <3>3, Zenon
  <2>6. At(P, 1 + 1) = Len(HeadBits)
    <3>1. 1 + 1 = 2
      OBVIOUS
    <3>2. QED
      BY <1>3, <3>1, Zenon
  <2>7. reader' = Rd("lengths", At(P, 1 + 1), last_block, K1, K2, Prefix(Sent, p[1]),
                     Reader!decoder(H3), <<>>, <<>>, <<>>)
    BY <1>4, <1>6, <2>5, <2>6, Zenon
  <2>8. ReadsLengths'
    BY <1>1, <1>6, <2>2, <2>4, <2>7, LengthsComes
  <2>9. QED
    BY <1>1, <2>8, ReaderComes
<1>7. QED
  BY <1>5, <1>6

\* How far the lengths are read: p grows with every code, and ends at the end.
LEMMA ProgressIs ==
  ASSUME NEW rlc, NEW src, Len(src) \in Nat, NEW p, IsProgress(p, rlc, src, 0, Len(src))
  PROVE  /\ Len(rlc) \in Nat
         /\ \A k \in 1 .. Len(rlc) : /\ p[k] \in Nat /\ p[k] < Len(src)
                                     /\ Tells(rlc[k], src, p[k], p[k + 1])
         /\ p[Len(rlc) + 1] = Len(src)
<1>1. /\ Len(rlc) \in Nat /\ p \in [1 .. Len(rlc) + 1 -> Nat]
      /\ p[Len(rlc) + 1] = Len(src)
      /\ \A k \in 1 .. Len(rlc) : Tells(rlc[k], src, p[k], p[k + 1])
  BY DEF IsProgress
<1>2. ASSUME NEW k \in 1 .. Len(rlc)
      PROVE  p[k] \in Nat /\ p[k] < Len(src)
  <2>1. Tells(rlc[k], src, p[k], p[k + 1])
    BY <1>1
  <2>2. PICK a, b, y, x : /\ a = p[k] /\ b = p[k + 1] /\ y = rlc[k] \div 32
                          /\ x = rlc[k] % 32
    OBVIOUS
  <2>3. /\ a \in Nat /\ b \in Nat /\ b <= Len(src)
        /\ \/ y = 0 /\ b = a + 1
           \/ y \in 0 .. 3 /\ b = a + y + 3
           \/ y \in 0 .. 7 /\ b = a + y + 3
           \/ y \in 0 .. 127 /\ b = a + y + 11
    BY <2>1, <2>2, Zenon DEF Tells
  <2>4. a < b
    <3>1. a \in Nat /\ b \in Nat
      BY <2>3, Zenon
    <3>2. CASE y = 0 /\ b = a + 1
      BY <3>1, <3>2
    <3>3. CASE y \in 0 .. 3 /\ b = a + y + 3
      BY <3>1, <3>3
    <3>4. CASE y \in 0 .. 7 /\ b = a + y + 3
      BY <3>1, <3>4
    <3>5. CASE y \in 0 .. 127 /\ b = a + y + 11
      BY <3>1, <3>5
    <3>6. QED
      BY <2>3, <3>2, <3>3, <3>4, <3>5, Zenon
  <2>5. QED
    BY <2>2, <2>3, <2>4
<1>3. QED
  BY <1>1, <1>2

\* The reader within the lengths: the fields that its guards look at.
LEMMA LengthsSeen ==
  ASSUME Scene, ~ Fixed, NEW p, IsProgress(p, Rlc, Sent, 0, Len(Sent)),
         NEW k \in 1 .. Len(Rlc) + 1, NEW pos, NEW final, NEW dec, NEW e,
         reader = Rd("lengths", pos, final, K1, K2, Prefix(Sent, p[k]), dec, e, e, e)
  PROVE  /\ Len(Sent) = K1 + K2 /\ Len(Sent) \in Nat /\ Len(Rlc) \in Nat
         /\ p[k] \in 0 .. Len(Sent)
         /\ AllLengths <=> p[k] = Len(Sent)
         /\ AllLengths <=> k = Len(Rlc) + 1
<1>1. /\ K1 \in Nat /\ K2 \in Nat /\ Len(Sent) = K1 + K2 /\ Len(Sent) \in Nat
  <2>1. K1 \in 257 .. 286 /\ K2 \in 1 .. 30 /\ Len(Sent) = K1 + K2
    BY TreesSent DEF Scene
  <2>2. QED
    BY <2>1
<1>2. /\ Len(Rlc) \in Nat
      /\ \A i \in 1 .. Len(Rlc) : p[i] \in Nat /\ p[i] < Len(Sent)
      /\ p[Len(Rlc) + 1] = Len(Sent)
  BY <1>1, ProgressIs
<1>3. /\ p[k] \in 0 .. Len(Sent)
      /\ p[k] = Len(Sent) <=> k = Len(Rlc) + 1
  <2>1. CASE k = Len(Rlc) + 1
    <3>1. p[k] = Len(Sent)
      BY <1>2, <2>1
    <3>2. QED
      BY <1>1, <2>1, <3>1
  <2>2. CASE k # Len(Rlc) + 1
    <3>1. k \in 1 .. Len(Rlc)
      BY <1>2, <2>2
    <3>2. p[k] \in Nat /\ p[k] < Len(Sent)
      BY <1>2, <3>1
    <3>3. QED
      BY <1>1, <2>2, <3>2
  <2>3. QED
    BY <2>1, <2>2
<1>4. Len(Prefix(Sent, p[k])) = p[k]
  BY <1>1, <1>3, PrefixIs
<1>5. reader.lens = Prefix(Sent, p[k]) /\ reader.hlit = K1 /\ reader.hdist = K2
  <2>1. PICK a, b, s : a = K1 /\ b = K2 /\ s = Prefix(Sent, p[k])
    OBVIOUS
  <2>2. reader = Rd("lengths", pos, final, a, b, s, dec, e, e, e)
    BY <2>1
  <2>3. QED
    BY <2>1, <2>2, RdFields, SMT
<1>6. AllLengths <=> p[k] = Len(Sent)
  BY <1>1, <1>4, <1>5, Zenon DEF AllLengths
<1>7. QED
  BY <1>1, <1>2, <1>3, <1>6

LEMMA ReadLengthStep ==
  ASSUME Scene, AtDone, ReadsLengths, ReadLength
  PROVE  Inv'
<1>1. UNCHANGED args /\ UNCHANGED <<args, bs, writer>> /\ ~ AllLengths
  BY DEF ReadLength, Reads
<1>2. reader' = Reader!read_length(reader, bs)
  BY DEF ReadLength, Reads
<1>3. ~ Fixed
  BY DEF ReadsLengths
<1>4. PICK e : e = <<>>
  OBVIOUS
<1>5. PICK p : IsProgress(p, Rlc, Sent, 0, Len(Sent)) /\ \E k \in 1 .. Len(Rlc) + 1 :
        reader = Rd("lengths", At(P, 1 + k), last_block, K1, K2, Prefix(Sent, p[k]),
                    Reader!decoder(H3), <<>>, <<>>, <<>>)
  BY DEF ReadsLengths
<1>6. PICK k \in 1 .. Len(Rlc) + 1 :
        reader = Rd("lengths", At(P, 1 + k), last_block, K1, K2, Prefix(Sent, p[k]),
                    Reader!decoder(H3), e, e, e)
  BY <1>4, <1>5
<1>7. /\ Len(Sent) = K1 + K2 /\ Len(Sent) \in Nat /\ Len(Rlc) \in Nat
      /\ p[k] \in 0 .. Len(Sent)
      /\ k # Len(Rlc) + 1
  BY <1>1, <1>3, <1>5, <1>6, LengthsSeen
<1>8. k \in 1 .. Len(Rlc) /\ k + 1 \in 1 .. Len(Rlc) + 1
  BY <1>7
<1>9. Tells(Rlc[k], Sent, p[k], p[k + 1])
  BY <1>5, <1>8 DEF IsProgress
<1>10. IsComplete(H3, 15, 19) /\ H3[Rlc[k] % 32] > 0
  BY <1>8, ThirdSent DEF Scene
<1>11. /\ bs \in Seq(Bit) /\ At(P, 1 + k) \in Nat
       /\ Holds(bs, At(P, 1 + k), LengthBits(H3, Rlc[k]))
       /\ At(P, 1 + (k + 1)) = At(P, 1 + k) + Len(LengthBits(H3, Rlc[k]))
  <2>1. /\ B = 1 + Len(Rlc) /\ Len(items) \in Nat
        /\ P[1 + k] = LengthBits(H3, Rlc[k])
    BY <1>3, <1>8, PlanIs DEF Scene
  <2>2. 1 + k \in 1 .. B + Len(items) /\ (1 + k) + 1 = 1 + (k + 1)
    <3>1. PICK n \in Nat, m \in Nat : n = Len(Rlc) /\ m = Len(items)
      BY <1>7, <2>1
    <3>2. B = 1 + n /\ k \in 1 .. n
      BY <1>8, <2>1, <3>1
    <3>3. 1 + k \in 1 .. (1 + n) + m /\ (1 + k) + 1 = 1 + (k + 1)
      BY <3>2
    <3>4. QED
      BY <3>1, <3>2, <3>3
  <2>3. /\ bs \in Seq(Bit) /\ At(P, 1 + k) \in Nat
        /\ Holds(bs, At(P, 1 + k), P[1 + k])
        /\ At(P, (1 + k) + 1) = At(P, 1 + k) + Len(P[1 + k])
    BY <2>2, AllHeld
  <2>4. QED
    BY <2>1, <2>2, <2>3, Zenon
<1>12. PICK pos \in Nat, bits \in Seq(Bit) : pos = At(P, 1 + k) /\ bits = bs
  BY <1>11
<1>13. PICK h, c, s, a, b :
        h = H3 /\ c = Rlc[k] /\ s = Sent /\ a = p[k] /\ b = p[k + 1]
  OBVIOUS
<1>14. a <= Len(s) /\ Len(s) \in Nat /\ K1 + K2 = Len(s)
  BY <1>7, <1>13
<1>15. /\ IsComplete(h, 15, 19) /\ h[c % 32] > 0 /\ Tells(c, s, a, b)
       /\ Holds(bits, pos, LengthBits(h, c))
  BY <1>9, <1>10, <1>11, <1>12, <1>13, Zenon
<1>16. Reader!read_length(Rd("lengths", pos, last_block, K1, K2, Prefix(s, a),
                             Reader!decoder(h), e, e, e), bits)
         = Rd("lengths", pos + Len(LengthBits(h, c)), last_block, K1, K2, Prefix(s, b),
              Reader!decoder(h), e, e, e)
  BY <1>14, <1>15, LengthRead
<1>17. reader' = Rd("lengths", At(P, 1 + (k + 1)), last_block, K1, K2, Prefix(Sent, p[k + 1]),
                    Reader!decoder(H3), <<>>, <<>>, <<>>)
  BY <1>2, <1>4, <1>6, <1>11, <1>12, <1>13, <1>16, Zenon
<1>18. ReadsLengths'
  BY <1>1, <1>3, <1>5, <1>8, <1>17, LengthsComes
<1>19. QED
  BY <1>1, <1>18, ReaderComes

LEMMA PrefixAll ==
  ASSUME NEW S, NEW s \in Seq(S)
  PROVE  Prefix(s, Len(s)) = s
<1>1. Prefix(s, Len(s)) = [i \in 1 .. Len(s) |-> s[i]]
  BY PrefixIs
<1>2. s = [i \in 1 .. Len(s) |-> s[i]]
  OBVIOUS
<1>3. QED
  BY <1>1, <1>2, Zenon

LEMMA JoinedIn ==
  ASSUME NEW S, NEW s \in Seq(S), NEW t \in Seq(S)
  PROVE  s \o t \in Seq(S) /\ Len(s \o t) = Len(s) + Len(t)
  OBVIOUS

LEMMA PrefixMore ==
  ASSUME NEW S, NEW s \in Seq(S), NEW k \in 1 .. Len(s)
  PROVE  /\ Append(Prefix(s, k - 1), s[k]) = Prefix(s, k)
         /\ k < Len(s) => Prefix(s, k - 1) \o <<s[k], s[k + 1]>> = Prefix(s, k + 1)
<1>1. PICK n \in Nat : n = Len(s)
  OBVIOUS
<1>2. PICK a \in Nat : a = k - 1 /\ a < n /\ k = a + 1
  BY <1>1
<1> DEFINE p == [i \in 1 .. a |-> s[i]]
<1>3. /\ Prefix(s, k - 1) = p
      /\ Prefix(s, k) = [i \in 1 .. a + 1 |-> s[i]]
      /\ k < n => Prefix(s, k + 1) = [i \in 1 .. a + 2 |-> s[i]]
  <2>1. a \in 0 .. n /\ a + 1 \in 0 .. n /\ (a + 1 < n => a + 2 \in 0 .. n)
    BY <1>2
  <2>2. Prefix(s, a) = p /\ Prefix(s, a + 1) = [i \in 1 .. a + 1 |-> s[i]]
    BY <1>1, <2>1, PrefixIs
  <2>3. a + 1 < n => Prefix(s, a + 2) = [i \in 1 .. a + 2 |-> s[i]]
    BY <1>1, <2>1, PrefixIs
  <2>4. k - 1 = a /\ k + 1 = a + 2
    BY <1>2
  <2>5. QED
    BY <1>2, <2>2, <2>3, <2>4
<1>4. p \in Seq(S) /\ Len(p) = a /\ \A i \in 1 .. a : p[i] = s[i]
  <2>1. \A i \in 1 .. a : i \in 1 .. n
    BY <1>2
  <2>2. \A i \in 1 .. a : s[i] \in S
    BY <1>1, <2>1
  <2>3. QED
    BY <1>1, <1>2, <2>2
<1> HIDE DEF p
<1>5. s[k] \in S /\ (k < n => s[k + 1] \in S)
  BY <1>1
<1>6. Append(p, s[k]) = [i \in 1 .. a + 1 |-> s[i]]
  BY <1>2, <1>4, <1>5
<1>7. k < n => p \o <<s[k], s[k + 1]>> = [i \in 1 .. a + 2 |-> s[i]]
  <2>1. SUFFICES ASSUME k < n
                 PROVE  p \o <<s[k], s[k + 1]>> = [i \in 1 .. a + 2 |-> s[i]]
    OBVIOUS
  <2>2. PICK x \in S, y \in S : x = s[a + 1] /\ y = s[a + 2] /\ x = s[k] /\ y = s[k + 1]
    <3>1. s[k] \in S /\ s[k + 1] \in S
      BY <1>5, <2>1
    <3>2. k + 1 = a + 2
      BY <1>2
    <3>3. QED
      BY <1>2, <3>1, <3>2
  <2>3. <<x, y>> \in Seq(S) /\ Len(<<x, y>>) = 2 /\ <<x, y>>[1] = x /\ <<x, y>>[2] = y
    OBVIOUS
  <2>4. PICK q : q = <<x, y>>
    OBVIOUS
  <2>5. q \in Seq(S) /\ Len(q) = 2 /\ q[1] = x /\ q[2] = y
    BY <2>3, <2>4
  <2>6. p \o q = [i \in 1 .. a + 2 |-> s[i]]
    <3>1. PICK r, m : r = p \o q /\ m = a + 2
      OBVIOUS
    <3>2. /\ r \in Seq(S) /\ Len(r) = m
          /\ \A i \in 1 .. a : r[i] = p[i]
          /\ \A i \in 1 .. 2 : r[a + i] = q[i]
      <4>0. PICK p0 \in Seq(S), q0 \in Seq(S) : p0 = p /\ q0 = q
        BY <1>4, <2>5, Zenon
      <4>1. p \o q \in Seq(S) /\ Len(p \o q) = Len(p) + Len(q)
        <5>1. p0 \o q0 \in Seq(S) /\ Len(p0 \o q0) = Len(p0) + Len(q0)
          BY JoinedIn
        <5>2. QED
          BY <4>0, <5>1, Zenon
      <4>2. /\ \A i \in 1 .. Len(p) : (p \o q)[i] = p[i]
            /\ \A i \in 1 .. Len(q) : (p \o q)[Len(p) + i] = q[i]
        <5>1. /\ \A i \in 1 .. Len(p0) : (p0 \o q0)[i] = p0[i]
              /\ \A i \in 1 .. Len(q0) : (p0 \o q0)[Len(p0) + i] = q0[i]
          BY AppendedAt
        <5>2. QED
          BY <4>0, <5>1, Zenon
      <4>3. Len(p) = a /\ Len(q) = 2
        BY <1>4, <2>5, Zenon
      <4>4. r \in Seq(S) /\ Len(r) = m
        BY <3>1, <4>1, <4>3, Zenon
      <4>5. QED
        BY <3>1, <4>2, <4>3, <4>4, Zenon
    <3>3. r[a + 1] = q[1] /\ r[a + 2] = q[2]
      <4>1. 1 \in 1 .. 2 /\ 2 \in 1 .. 2
        OBVIOUS
      <4>2. QED
        BY <3>2, <4>1, Zenon
    <3>4. \A i \in 1 .. m : i \in 1 .. a \/ i = a + 1 \/ i = a + 2
      BY <3>1
    <3>5. \A i \in 1 .. m : r[i] = s[i]
      BY <1>4, <2>2, <2>5, <3>2, <3>3, <3>4, Zenon
    <3>6. r = [i \in 1 .. m |-> r[i]]
      BY <3>2
    <3>7. [i \in 1 .. m |-> r[i]] = [i \in 1 .. m |-> s[i]]
      BY <3>5
    <3>8. QED
      BY <3>1, <3>6, <3>7, Zenon
  <2>7. QED
    BY <2>2, <2>4, <2>6, Zenon
<1>8. QED
  BY <1>1, <1>3, <1>6, <1>7, Zenon

LEMMA BuildCodesStep ==
  ASSUME Scene, AtDone, ReadsLengths, BuildCodes
  PROVE  Inv'
<1>1. UNCHANGED args /\ UNCHANGED <<args, bs, writer>> /\ AllLengths
  BY DEF BuildCodes, Reads
<1>2. reader' = Reader!build_codes(reader)
  BY DEF BuildCodes, Reads
<1>3. ~ Fixed
  BY DEF ReadsLengths
<1>4. PICK e : e = <<>>
  OBVIOUS
<1>5. PICK p : IsProgress(p, Rlc, Sent, 0, Len(Sent)) /\ \E k \in 1 .. Len(Rlc) + 1 :
        reader = Rd("lengths", At(P, 1 + k), last_block, K1, K2, Prefix(Sent, p[k]),
                    Reader!decoder(H3), <<>>, <<>>, <<>>)
  BY DEF ReadsLengths
<1>6. PICK k \in 1 .. Len(Rlc) + 1 :
        reader = Rd("lengths", At(P, 1 + k), last_block, K1, K2, Prefix(Sent, p[k]),
                    Reader!decoder(H3), e, e, e)
  BY <1>4, <1>5
<1>7. Len(Rlc) \in Nat /\ p[k] = Len(Sent) /\ k = Len(Rlc) + 1
  BY <1>1, <1>3, <1>5, <1>6, LengthsSeen
<1>8. /\ K1 \in 257 .. 286 /\ K2 \in 1 .. 30 /\ Sent \in Seq(0 .. 15)
      /\ IsComplete(T1, 15, K1) /\ IsComplete(T2, 15, K2) /\ T1[256] > 0
  BY TreesSent DEF Scene, StandsFor
<1>9. Prefix(Sent, p[k]) = Sent
  <2>1. PICK S : S = 0 .. 15
    OBVIOUS
  <2>2. Prefix(Sent, Len(Sent)) = Sent
    BY <1>8, <2>1, PrefixAll
  <2>3. QED
    BY <1>7, <2>2, Zenon
<1>10. 1 + k = B + 1
  <2>1. B = 1 + Len(Rlc)
    BY <1>3, PlanIs DEF Scene
  <2>2. QED
    BY <1>7, <2>1
<1>11. PICK a \in Nat, b \in Nat : a = K1 /\ b = K2
  BY <1>8
<1>12. PICK s, t1, t2, pos, dec :
         /\ s = Sent /\ t1 = T1 /\ t2 = T2 /\ pos = At(P, B + 1) /\ dec = Reader!decoder(H3)
  OBVIOUS
<1>13. t1 = Received(s, a) /\ t2 = Second(s, a, b)
  BY <1>11, <1>12, Zenon DEF Received, Second, T1, T2
<1>14. IsComplete(t1, 15, a) /\ IsComplete(t2, 15, b) /\ t1[256] > 0
  BY <1>8, <1>11, <1>12
<1>15. Reader!build_codes(Rd("lengths", pos, last_block, a, b, s, dec, e, e, e))
         = Rd("items", pos, last_block, a, b, s, <<>>, Reader!decoder(t1),
              Reader!decoder(t2), e)
  BY <1>13, <1>14, CodesBuilt
<1>16. HL = a /\ HD = b /\ LS = s /\ C1 = t1 /\ C2 = t2
  BY <1>3, <1>11, <1>12 DEF HL, HD, LS, C1, C2
<1>17. 1 \in 1 .. Len(items) /\ items[1].type # "distance" /\ Len(items) \in Nat
  BY DEF Scene, IsBlock
<1>18. Prefix(items, 1 - 1) = e
  <2>1. 1 - 1 = 0 /\ 0 \in 0 .. Len(items)
    BY <1>17
  <2>2. Prefix(items, 0) = <<>>
    BY <1>17, <2>1, PrefixIs
  <2>3. QED
    BY <1>4, <2>1, <2>2, Zenon
<1>19. reader' = Rd("items", At(P, B + 1), last_block, HL, HD, LS, <<>>,
                    Reader!decoder(C1), Reader!decoder(C2), Prefix(items, 1 - 1))
  BY <1>2, <1>6, <1>9, <1>10, <1>11, <1>12, <1>15, <1>16, <1>18, Zenon
<1>20. ReadsItems'
  BY <1>1, <1>17, <1>19, ItemsComes
<1>21. QED
  BY <1>1, <1>20, ReaderComes

\* Which item may come after which.
LEMMA BlockOrder ==
  ASSUME NEW s, IsBlock(s), NEW k \in 1 .. Len(s)
  PROVE  /\ Len(s) \in Nat /\ s[k] \in LZ77Items
         /\ s[k].type \in {"literal", "length", "distance", "eob"}
         /\ s[k].type = "eob" => k = Len(s)
         /\ s[k].type # "eob" => k + 1 \in 1 .. Len(s) /\ s[k + 1] \in LZ77Items
         /\ s[k].type = "literal" => s[k + 1].type # "distance"
         /\ s[k].type = "length" =>
              /\ s[k + 1].type = "distance"
              /\ k + 2 \in 1 .. Len(s) /\ s[k + 2].type # "distance"
<1>1. /\ s \in Seq(LZ77Items)
      /\ \A i \in 1 .. Len(s) :
           /\ s[i].type = "length" => s[i + 1].type = "distance"
           /\ s[i].type = "distance" => i > 1 /\ s[i - 1].type = "length"
           /\ s[i].type = "eob" <=> i = Len(s)
  BY DEF IsBlock
<1>2. PICK n \in Nat : n = Len(s)
  BY <1>1
<1>3. \A i \in 1 .. n : s[i] \in LZ77Items
  BY <1>1, <1>2
<1>4. \A i \in 1 .. n : s[i].type \in {"literal", "length", "distance", "eob"}
  BY <1>3, BaseIs
<1>5. k \in 1 .. n /\ (k # n => k + 1 \in 1 .. n) /\ (k + 1) - 1 = k
  BY <1>2
<1>6. s[k].type # "eob" => k + 1 \in 1 .. n
  BY <1>1, <1>2, <1>5
<1>7. s[k].type = "literal" => s[k + 1].type # "distance"
  <2>1. SUFFICES ASSUME s[k].type = "literal", s[k + 1].type = "distance" PROVE FALSE
    OBVIOUS
  <2>2. k + 1 \in 1 .. n
    BY <1>6, <2>1
  <2>3. s[(k + 1) - 1].type = "length"
    BY <1>1, <1>2, <2>1, <2>2
  <2>4. s[k].type = "length"
    BY <1>5, <2>3
  <2>5. QED
    BY <2>1, <2>4
<1>8. s[k].type = "length" =>
        /\ s[k + 1].type = "distance"
        /\ k + 2 \in 1 .. n /\ s[k + 2].type # "distance"
  <2>1. SUFFICES ASSUME s[k].type = "length"
                 PROVE  /\ s[k + 1].type = "distance"
                        /\ k + 2 \in 1 .. n /\ s[k + 2].type # "distance"
    OBVIOUS
  <2>2. k + 1 \in 1 .. n
    BY <1>6, <2>1
  <2>3. s[k + 1].type = "distance"
    BY <1>1, <1>5, <1>2, <2>1
  <2>4. k + 1 # n
    BY <1>1, <1>2, <2>2, <2>3
  <2>5. k + 2 \in 1 .. n /\ (k + 2) - 1 = k + 1
    BY <1>5, <2>2, <2>4
  <2>6. s[k + 2].type = "distance" => s[(k + 2) - 1].type = "length"
    BY <1>1, <1>2, <2>5
  <2>7. s[k + 2].type # "distance"
    BY <2>3, <2>5, <2>6
  <2>8. QED
    BY <2>3, <2>5, <2>7
<1>9. s[k].type = "eob" => k = n
  BY <1>1, <1>2
<1>10. QED
  BY <1>2, <1>3, <1>4, <1>5, <1>6, <1>7, <1>8, <1>9

\* An item's bits are where the reader comes to them.
LEMMA ItemHeld ==
  ASSUME Scene, AtDone, NEW k \in 1 .. Len(items)
  PROVE  /\ At(P, B + k) \in Nat
         /\ Holds(bs, At(P, B + k), TwoTreeBits(C1, C2, items[k]))
         /\ At(P, B + (k + 1)) = At(P, B + k) + Len(TwoTreeBits(C1, C2, items[k]))
<1>1. PICK b \in Nat, m \in Nat : b = B /\ m = Len(items) /\ b > 0
  BY PlanIs DEF Scene
<1>2. P[b + k] = TwoTreeBits(C1, C2, items[k])
  BY <1>1, PlanIs DEF Scene
<1>3. b + k \in 1 .. b + m /\ (b + k) + 1 = b + (k + 1)
  BY <1>1
<1>4. /\ At(P, b + k) \in Nat /\ Holds(bs, At(P, b + k), P[b + k])
      /\ At(P, (b + k) + 1) = At(P, b + k) + Len(P[b + k])
  BY <1>1, <1>3, AllHeld
<1>5. QED
  BY <1>1, <1>2, <1>3, <1>4, Zenon

\* The reader of the items before item k.
ReaderBefore(pc, k) == Rd(pc, At(P, B + k), last_block, HL, HD, LS, <<>>, Reader!decoder(C1),
                  Reader!decoder(C2), Prefix(items, k - 1))

LEMMA SingleStep ==
  ASSUME Scene, AtDone, NEW k \in 1 .. Len(items), items[k].type \in {"literal", "eob"}
  PROVE  Reader!read_item(ReaderBefore("items", k), bs)
           = ReaderBefore(IF items[k].type = "eob" THEN "done" ELSE "items", k + 1)
<1>1. PICK item \in LZ77Items : item = items[k]
  BY BlockOrder DEF Scene
<1>2. PICK t1, t2, l1, l2 : t1 = C1 /\ t2 = C2 /\ l1 = M1 /\ l2 = M2
  OBVIOUS
<1>3. AreTrees(t1, l1, t2, l2) /\ HasCode(t1, l1, t2, l2, item)
  BY <1>1, <1>2, ItemsAre DEF Scene
<1>4. PICK pos \in Nat, bits \in Seq(Bit) : pos = At(P, B + k) /\ bits = bs
  BY ItemHeld, AllHeld
<1>5. /\ Holds(bits, pos, TwoTreeBits(t1, t2, item))
      /\ At(P, B + (k + 1)) = pos + Len(TwoTreeBits(t1, t2, item))
  BY <1>1, <1>2, <1>4, ItemHeld
<1>6. PICK dis, hl, hd, ls, e, out :
        /\ dis = Reader!decoder(C2) /\ hl = HL /\ hd = HD /\ ls = LS /\ e = <<>>
        /\ out = Prefix(items, k - 1)
  OBVIOUS
<1>7. item.type \in {"literal", "eob"}
  BY <1>1
<1>8. Reader!read_item(Rd("items", pos, last_block, hl, hd, ls, e, Reader!decoder(t1), dis,
                          out), bits)
        = Rd(IF item.type = "eob" THEN "done" ELSE "items",
             pos + Len(TwoTreeBits(t1, t2, item)), last_block, hl, hd, ls, e,
             Reader!decoder(t1), dis, Append(out, item))
  BY <1>3, <1>5, <1>7, SingleRead
<1>9. Append(out, item) = Prefix(items, (k + 1) - 1)
  <2>1. items \in Seq(LZ77Items) /\ Len(items) \in Nat
    BY DEF Scene, IsBlock
  <2>2. Append(Prefix(items, k - 1), items[k]) = Prefix(items, k)
    BY <2>1, PrefixMore
  <2>3. (k + 1) - 1 = k
    BY <2>1
  <2>4. QED
    BY <1>1, <1>6, <2>2, <2>3, Zenon
<1>10. QED
  BY <1>1, <1>2, <1>4, <1>5, <1>6, <1>8, <1>9, Zenon DEF ReaderBefore

LEMMA PairStep ==
  ASSUME Scene, AtDone, NEW k \in 1 .. Len(items), items[k].type = "length"
  PROVE  Reader!read_item(ReaderBefore("items", k), bs) = ReaderBefore("items", k + 2)
<1>1. PICK item \in LZ77Items, next \in LZ77Items, j \in 1 .. Len(items) :
        /\ item = items[k] /\ next = items[k + 1] /\ j = k + 1
        /\ item.type = "length" /\ next.type = "distance"
  BY BlockOrder DEF Scene
<1>2. PICK t1, t2, l1, l2 : t1 = C1 /\ t2 = C2 /\ l1 = M1 /\ l2 = M2
  OBVIOUS
<1>3. /\ AreTrees(t1, l1, t2, l2) /\ HasCode(t1, l1, t2, l2, item)
      /\ HasCode(t1, l1, t2, l2, next)
  BY <1>1, <1>2, ItemsAre DEF Scene
<1>4. PICK pos \in Nat, pos2 \in Nat, bits \in Seq(Bit) :
        pos = At(P, B + k) /\ pos2 = At(P, B + j) /\ bits = bs
  BY ItemHeld, AllHeld
<1>5. /\ Holds(bits, pos, TwoTreeBits(t1, t2, item))
      /\ pos2 = pos + Len(TwoTreeBits(t1, t2, item))
      /\ Holds(bits, pos2, TwoTreeBits(t1, t2, next))
      /\ At(P, B + (j + 1)) = pos2 + Len(TwoTreeBits(t1, t2, next))
  <2>1. /\ Holds(bs, At(P, B + k), TwoTreeBits(C1, C2, items[k]))
        /\ At(P, B + (k + 1)) = At(P, B + k) + Len(TwoTreeBits(C1, C2, items[k]))
    BY ItemHeld
  <2>2. /\ Holds(bs, At(P, B + j), TwoTreeBits(C1, C2, items[j]))
        /\ At(P, B + (j + 1)) = At(P, B + j) + Len(TwoTreeBits(C1, C2, items[j]))
    BY ItemHeld
  <2>3. QED
    BY <1>1, <1>2, <1>4, <2>1, <2>2, Zenon
<1>6. PICK hl, hd, ls, e, out :
        hl = HL /\ hd = HD /\ ls = LS /\ e = <<>> /\ out = Prefix(items, k - 1)
  OBVIOUS
<1>7. Reader!read_item(Rd("items", pos, last_block, hl, hd, ls, e, Reader!decoder(t1),
                          Reader!decoder(t2), out), bits)
        = Rd("items", pos2 + Len(TwoTreeBits(t1, t2, next)), last_block, hl, hd, ls, e,
             Reader!decoder(t1), Reader!decoder(t2), out \o <<item, next>>)
  BY <1>1, <1>3, <1>5, PairRead
<1>8. j + 1 = k + 2 /\ (k + 2) - 1 = k + 1 /\ k < Len(items)
  <2>1. Len(items) \in Nat
    BY DEF Scene, IsBlock
  <2>2. QED
    BY <1>1, <2>1
<1>9. out \o <<item, next>> = Prefix(items, (k + 2) - 1)
  <2>1. items \in Seq(LZ77Items)
    BY DEF Scene, IsBlock
  <2>2. Prefix(items, k - 1) \o <<items[k], items[k + 1]>> = Prefix(items, k + 1)
    BY <1>8, <2>1, PrefixMore
  <2>3. QED
    BY <1>1, <1>6, <1>8, <2>2, Zenon
<1>10. QED
  BY <1>1, <1>2, <1>4, <1>5, <1>6, <1>7, <1>8, <1>9, Zenon DEF ReaderBefore

LEMMA ReadItemStep ==
  ASSUME Scene, AtDone, ReadsItems, ReadItem
  PROVE  Inv'
<1>1. UNCHANGED args /\ UNCHANGED <<args, bs, writer>>
  BY DEF ReadItem, Reads
<1>2. reader' = Reader!read_item(reader, bs)
  BY DEF ReadItem, Reads
<1>3. PICK k \in 1 .. Len(items) :
        items[k].type # "distance" /\ reader = ReaderBefore("items", k)
  BY DEF ReadsItems, ReaderBefore
<1>4. /\ items[k].type \in {"literal", "length", "distance", "eob"} /\ Len(items) \in Nat
      /\ items[k].type = "eob" => k = Len(items)
      /\ items[k].type # "eob" => k + 1 \in 1 .. Len(items)
      /\ items[k].type = "literal" => items[k + 1].type # "distance"
      /\ items[k].type = "length" =>
           k + 2 \in 1 .. Len(items) /\ items[k + 2].type # "distance"
  BY BlockOrder DEF Scene
<1>5. CASE items[k].type = "literal"
  <2>1. reader' = ReaderBefore("items", k + 1)
    BY <1>2, <1>3, <1>5, SingleStep
  <2>2. PICK j \in 1 .. Len(items) : j = k + 1 /\ items[j].type # "distance"
    BY <1>4, <1>5
  <2>3. ReadsItems'
    BY <1>1, <2>1, <2>2, ItemsComes DEF ReaderBefore
  <2>4. QED
    BY <1>1, <2>3, ReaderComes
<1>6. CASE items[k].type = "length"
  <2>1. reader' = ReaderBefore("items", k + 2)
    BY <1>2, <1>3, <1>6, PairStep
  <2>2. PICK j \in 1 .. Len(items) : j = k + 2 /\ items[j].type # "distance"
    BY <1>4, <1>6
  <2>3. ReadsItems'
    BY <1>1, <2>1, <2>2, ItemsComes DEF ReaderBefore
  <2>4. QED
    BY <1>1, <2>3, ReaderComes
<1>7. CASE items[k].type = "eob"
  <2>1. reader' = ReaderBefore("done", k + 1) /\ k = Len(items)
    BY <1>2, <1>3, <1>4, <1>7, SingleStep
  <2>2. Prefix(items, (k + 1) - 1) = items
    <3>1. (k + 1) - 1 = Len(items)
      BY <1>4, <2>1
    <3>2. Prefix(items, Len(items)) = items
      BY PrefixAll DEF Scene, IsBlock
    <3>3. QED
      BY <3>1, <3>2, Zenon
  <2>3. B + (k + 1) = B + Len(items) + 1
    <3>1. B \in Nat
      BY PlanIs DEF Scene
    <3>2. QED
      BY <1>4, <2>1, <3>1
  <2>4. reader' = Rd("done", At(P, B + Len(items) + 1), last_block, HL, HD, LS, <<>>,
                     Reader!decoder(C1), Reader!decoder(C2), items)
    BY <2>1, <2>2, <2>3, Zenon DEF ReaderBefore
  <2>5. HasRead'
    BY <1>1, <2>4, ReaderKept, Zenon DEF HasRead
  <2>6. QED
    BY <1>1, <2>5, ReaderComes
<1>8. QED
  BY <1>3, <1>4, <1>5, <1>6, <1>7

-------------------------------------------------------------------------------
(* The theorems.                                                           *)

LEMMA StepInv ==
  ASSUME Inv, Next
  PROVE  Inv'
<1>1. Scene
  BY DEF Inv
<1>2. CASE StaticHeader
  <2>1. writer.pc = "start"
    BY <1>2 DEF StaticHeader
  <2>2. QED
    BY <1>1, <1>2, <2>1, StageIs, StaticHeaderStep
<1>3. CASE Collect
  <2>1. writer.pc = "start"
    BY <1>3 DEF Collect
  <2>2. QED
    BY <1>1, <1>3, <2>1, StageIs, CollectStep
<1>4. CASE BuildTrees
  <2>1. writer.pc = "trees"
    BY <1>4 DEF BuildTrees
  <2>2. QED
    BY <1>1, <1>4, <2>1, StageIs, BuildTreesStep
<1>5. CASE RunLengths
  <2>1. writer.pc = "runs"
    BY <1>5 DEF RunLengths
  <2>2. QED
    BY <1>1, <1>5, <2>1, StageIs, RunLengthsStep
<1>6. CASE ThirdTree
  <2>1. writer.pc = "third"
    BY <1>6 DEF ThirdTree
  <2>2. QED
    BY <1>1, <1>6, <2>1, StageIs, ThirdTreeStep
<1>7. CASE DynamicHeader
  <2>1. writer.pc = "header"
    BY <1>7 DEF DynamicHeader
  <2>2. QED
    BY <1>1, <1>7, <2>1, StageIs, DynamicHeaderStep
<1>8. CASE WriteLength
  <2>1. writer.pc = "lengths"
    BY <1>8 DEF WriteLength
  <2>2. QED
    BY <1>1, <1>8, <2>1, StageIs, WriteLengthStep
<1>9. CASE LengthsWritten
  <2>1. writer.pc = "lengths"
    BY <1>9 DEF LengthsWritten
  <2>2. QED
    BY <1>1, <1>9, <2>1, StageIs, LengthsWrittenStep
<1>10. CASE WriteItem
  <2>1. writer.pc = "items"
    BY <1>10 DEF WriteItem
  <2>2. QED
    BY <1>1, <1>10, <2>1, StageIs, WriteItemStep
<1>11. CASE Written
  <2>1. writer.pc = "items"
    BY <1>11 DEF Written
  <2>2. QED
    BY <1>1, <1>11, <2>1, StageIs, WrittenStep
<1>12. ASSUME writer.pc = "done"
       PROVE  /\ AtDone
              /\ reader.pc = "header" => reader = Reader!Start
              /\ reader.pc = "lengths" => ReadsLengths
              /\ reader.pc = "items" => ReadsItems
  <2>1. AtDone
    BY <1>12, StageIs
  <2>2. reader = Reader!Start \/ ReadsLengths \/ ReadsItems \/ HasRead
    BY DEF Inv
  <2>3. QED
    BY <2>1, <2>2, ReaderIs
<1>13. CASE ReadHeader
  <2>1. writer.pc = "done" /\ reader.pc = "header"
    BY <1>13 DEF ReadHeader, Reads
  <2>2. QED
    BY <1>1, <1>12, <1>13, <2>1, ReadHeaderStep
<1>14. CASE ReadLength
  <2>1. writer.pc = "done" /\ reader.pc = "lengths"
    BY <1>14 DEF ReadLength, Reads
  <2>2. QED
    BY <1>1, <1>12, <1>14, <2>1, ReadLengthStep
<1>15. CASE BuildCodes
  <2>1. writer.pc = "done" /\ reader.pc = "lengths"
    BY <1>15 DEF BuildCodes, Reads
  <2>2. QED
    BY <1>1, <1>12, <1>15, <2>1, BuildCodesStep
<1>16. CASE ReadItem
  <2>1. writer.pc = "done" /\ reader.pc = "items"
    BY <1>16 DEF ReadItem, Reads
  <2>2. QED
    BY <1>1, <1>12, <1>16, <2>1, ReadItemStep
<1>17. QED
  BY <1>2, <1>3, <1>4, <1>5, <1>6, <1>7, <1>8, <1>9, <1>10, <1>11, <1>13, <1>14, <1>15,
     <1>16 DEF Next, Write, Read

LEMMA StutterInv ==
  ASSUME Inv, UNCHANGED vars
  PROVE  Inv'
<1>1. UNCHANGED args /\ bs' = bs /\ writer' = writer /\ reader' = reader
  BY DEF vars
<1>2. /\ Fixed' = Fixed /\ items' = items /\ last_block' = last_block /\ B' = B /\ P' = P
      /\ C1' = C1 /\ C2' = C2 /\ H3' = H3 /\ Rlc' = Rlc /\ Sent' = Sent
      /\ K1' = K1 /\ K2' = K2 /\ HL' = HL /\ HD' = HD /\ LS' = LS
  BY <1>1, ReaderKept
<1>3. H1' = H1 /\ H2' = H2 /\ lel_bucket' = lel_bucket /\ dis_bucket' = dis_bucket
  BY <1>2, TreesKept, BucketsKept
<1>4. \A pc, k : Full(pc, k)' = Full(pc, k)
  BY <1>1, FullKept
<1>5. Scene'
  BY <1>1, SceneKept DEF Inv
<1>6. Writes' = Writes
  <2>1. AtStart' = AtStart
    BY <1>1 DEF AtStart
  <2>2. AtTrees' = AtTrees
    BY <1>1, <1>2, <1>3 DEF AtTrees
  <2>3. AtRuns' = AtRuns
    BY <1>1, <1>2, <1>3 DEF AtRuns
  <2>4. AtThird' = AtThird
    BY <1>1, <1>2, <1>3 DEF AtThird
  <2>5. AtHeader' = AtHeader
    BY <1>1, <1>2, <1>3 DEF AtHeader
  <2>6. AtLengths' = AtLengths
    BY <1>1, <1>2, <1>3, Zenon DEF AtLengths
  <2>7. AtItems' = AtItems
    BY <1>1, <1>2, <1>3, Zenon DEF AtItems, Full
  <2>8. QED
    BY <2>1, <2>2, <2>3, <2>4, <2>5, <2>6, <2>7, Zenon DEF Writes
<1>7. AtDone' = AtDone
  BY <1>1, <1>2, <1>3, Zenon DEF AtDone, Full
<1>8. ReadsLengths' = ReadsLengths
  BY <1>1, <1>2, Zenon DEF ReadsLengths
<1>9. ReadsItems' = ReadsItems
  BY <1>1, <1>2, Zenon DEF ReadsItems
<1>10. HasRead' = HasRead
  BY <1>1, <1>2, Zenon DEF HasRead
<1>11. QED
  BY <1>1, <1>5, <1>6, <1>7, <1>8, <1>9, <1>10, Zenon DEF Inv

LEMMA AlwaysInv ==
  Spec => []Inv
<1>1. Init => Inv
  BY InitInv
<1>2. Inv /\ [Next]_vars => Inv'
  BY StepInv, StutterInv
<1>3. QED
  BY <1>1, <1>2, PTL DEF Spec

\* A block has two trees, and an inflater refuses nothing that is written:
\* calculate() never panics, and what the header, the lengths and the items
\* are sent as is what RFC 1951 lets an inflater accept.
THEOREM NothingRefused ==
  Spec => []NeverRefused
<1>1. Inv => NeverRefused
  <2>1. SUFFICES ASSUME Inv PROVE NeverRefused
    OBVIOUS
  <2>2. writer.pc # "panic"
    BY <2>1, StageIs
  <2>3. reader.pc # "refused"
    <3>1. reader = Reader!Start \/ ReadsLengths \/ ReadsItems \/ HasRead
      BY <2>1 DEF Inv
    <3>2. QED
      BY <3>1, ReaderIs
  <2>4. QED
    BY <2>2, <2>3 DEF NeverRefused
<1>2. QED
  BY <1>1, AlwaysInv, PTL

\* The reader has nothing yet.
LEMMA NothingRead ==
  ASSUME NEW r, r = Reader!Start
  PROVE  r.lens = <<>> /\ r.out = <<>> /\ r.pc = "header"
<1>1. PICK z, e : z = 0 /\ e = <<>>
  OBVIOUS
<1>2. r = Rd("header", z, z, z, z, e, e, e, e, e)
  BY <1>1, Zenon DEF Reader!Start, Rd
<1>3. r.lens = e /\ r.out = e /\ r.pc = "header"
  BY <1>2, RdFields, SMT
<1>4. QED
  BY <1>1, <1>3

\* Nothing is the beginning of everything.
LEMMA NoPrefix ==
  ASSUME NEW s
  PROVE  SubSeq(s, 1, Len(<<>>)) = <<>>
<1>1. Len(<<>>) = 0
  OBVIOUS
<1>2. SubSeq(s, 1, 0) = <<>>
  OBVIOUS
<1>3. QED
  BY <1>1, <1>2, Zenon

LEMMA PrefixOfSelf ==
  ASSUME NEW S, NEW s \in Seq(S), NEW b \in 0 .. Len(s)
  PROVE  Prefix(s, b) = SubSeq(s, 1, Len(Prefix(s, b)))
<1>1. Len(Prefix(s, b)) = b
  BY PrefixIs
<1>2. QED
  BY <1>1, Zenon DEF Prefix

\* What the reader has, wherever it is.
LEMMA ReaderHas ==
  ASSUME Scene
  PROVE  /\ ReadsLengths => /\ ~ Fixed /\ reader.pc = "lengths" /\ reader.out = <<>>
                            /\ \E b \in 0 .. Len(Sent) : reader.lens = Prefix(Sent, b)
         /\ ReadsItems => /\ reader.pc = "items" /\ reader.lens = LS /\ reader.hlit = HL
                          /\ \E b \in 0 .. Len(items) : reader.out = Prefix(items, b)
         /\ HasRead => /\ reader.pc = "done" /\ reader.lens = LS /\ reader.hlit = HL
                       /\ reader.out = items /\ reader.final = last_block
                       /\ reader.pos = At(P, B + Len(items) + 1)
<1>1. ASSUME ReadsLengths
      PROVE  /\ ~ Fixed /\ reader.pc = "lengths" /\ reader.out = <<>>
             /\ \E b \in 0 .. Len(Sent) : reader.lens = Prefix(Sent, b)
  <2>1. ~ Fixed
    BY <1>1 DEF ReadsLengths
  <2>2. PICK p : IsProgress(p, Rlc, Sent, 0, Len(Sent)) /\ \E k \in 1 .. Len(Rlc) + 1 :
          reader = Rd("lengths", At(P, 1 + k), last_block, K1, K2, Prefix(Sent, p[k]),
                      Reader!decoder(H3), <<>>, <<>>, <<>>)
    BY <1>1 DEF ReadsLengths
  <2>3. PICK e : e = <<>>
    OBVIOUS
  <2>4. PICK k \in 1 .. Len(Rlc) + 1 :
          reader = Rd("lengths", At(P, 1 + k), last_block, K1, K2, Prefix(Sent, p[k]),
                      Reader!decoder(H3), e, e, e)
    BY <2>2, <2>3
  <2>5. p[k] \in 0 .. Len(Sent)
    BY <2>1, <2>2, <2>4, LengthsSeen
  <2>6. PICK s, pos, dec, x, y : /\ s = Prefix(Sent, p[k]) /\ pos = At(P, 1 + k)
                                 /\ dec = Reader!decoder(H3) /\ x = K1 /\ y = K2
    OBVIOUS
  <2>7. reader = Rd("lengths", pos, last_block, x, y, s, dec, e, e, e)
    BY <2>4, <2>6, Zenon
  <2>8. reader.pc = "lengths" /\ reader.out = e /\ reader.lens = s
    BY <2>7, RdFields, SMT
  <2>9. QED
    BY <2>1, <2>3, <2>5, <2>6, <2>8
<1>2. ASSUME ReadsItems
      PROVE  /\ reader.pc = "items" /\ reader.lens = LS /\ reader.hlit = HL
             /\ \E b \in 0 .. Len(items) : reader.out = Prefix(items, b)
  <2>1. PICK k \in 1 .. Len(items) :
          reader = Rd("items", At(P, B + k), last_block, HL, HD, LS, <<>>,
                      Reader!decoder(C1), Reader!decoder(C2), Prefix(items, k - 1))
    BY <1>2 DEF ReadsItems
  <2>2. PICK s, pos, lel, dis, x, y, e, out :
          /\ s = LS /\ pos = At(P, B + k) /\ lel = Reader!decoder(C1)
          /\ dis = Reader!decoder(C2) /\ x = HL /\ y = HD /\ e = <<>>
          /\ out = Prefix(items, k - 1)
    OBVIOUS
  <2>3. reader = Rd("items", pos, last_block, x, y, s, e, lel, dis, out)
    BY <2>1, <2>2, Zenon
  <2>4. reader.pc = "items" /\ reader.lens = s /\ reader.hlit = x /\ reader.out = out
    BY <2>3, RdFields, SMT
  <2>5. k - 1 \in 0 .. Len(items)
    BY DEF Scene, IsBlock
  <2>6. QED
    BY <2>2, <2>4, <2>5
<1>3. ASSUME HasRead
      PROVE  /\ reader.pc = "done" /\ reader.lens = LS /\ reader.hlit = HL
             /\ reader.out = items /\ reader.final = last_block
             /\ reader.pos = At(P, B + Len(items) + 1)
  <2>1. PICK s, pos, lel, dis, x, y, e :
          /\ s = LS /\ pos = At(P, B + Len(items) + 1) /\ lel = Reader!decoder(C1)
          /\ dis = Reader!decoder(C2) /\ x = HL /\ y = HD /\ e = <<>>
    OBVIOUS
  <2>2. reader = Rd("done", pos, last_block, x, y, s, e, lel, dis, items)
    BY <1>3, <2>1, Zenon DEF HasRead
  <2>3. /\ reader.pc = "done" /\ reader.lens = s /\ reader.hlit = x
        /\ reader.out = items /\ reader.final = last_block /\ reader.pos = pos
    BY <2>2, RdFields, SMT
  <2>4. QED
    BY <2>1, <2>3
<1>4. QED
  BY <1>1, <1>2, <1>3, Zenon

\* What an inflater reads is what was written: at every moment it has a
\* beginning of the items, and when it comes to the end of the block it has
\* them all, knows whether the block is the last one, and has read the block
\* to its last bit.  Both codings, whatever the items are.
THEOREM ReadAsWritten ==
  Spec => []RoundTrip
<1>1. Inv => RoundTrip
  <2>1. SUFFICES ASSUME Inv PROVE RoundTrip
    OBVIOUS
  <2>2. Scene /\ items \in Seq(LZ77Items)
    BY <2>1 DEF Inv, Scene, IsBlock
  <2>3. CASE reader = Reader!Start
    <3>1. reader.out = <<>> /\ reader.pc = "header"
      BY <2>3, NothingRead
    <3>2. SubSeq(items, 1, Len(<<>>)) = <<>>
      BY NoPrefix
    <3>3. QED
      BY <3>1, <3>2 DEF RoundTrip
  <2>4. CASE ReadsLengths
    <3>1. reader.out = <<>> /\ reader.pc = "lengths"
      BY <2>2, <2>4, ReaderHas
    <3>2. SubSeq(items, 1, Len(<<>>)) = <<>>
      BY NoPrefix
    <3>3. QED
      BY <3>1, <3>2 DEF RoundTrip
  <2>5. CASE ReadsItems
    <3>1. PICK b \in 0 .. Len(items) : reader.out = Prefix(items, b)
      BY <2>2, <2>5, ReaderHas
    <3>2. reader.pc = "items"
      BY <2>2, <2>5, ReaderHas
    <3>3. Prefix(items, b) = SubSeq(items, 1, Len(Prefix(items, b)))
      BY <2>2, PrefixOfSelf
    <3>4. QED
      BY <3>1, <3>2, <3>3 DEF RoundTrip
  <2>6. CASE AtDone /\ HasRead
    <3>1. /\ reader.out = items /\ reader.final = last_block
          /\ reader.pos = At(P, B + Len(items) + 1)
      BY <2>2, <2>6, ReaderHas
    <3>2. reader.pos = Len(bs)
      BY <2>2, <2>6, <3>1, AllHeld
    <3>3. items = SubSeq(items, 1, Len(items))
      <4>1. Prefix(items, Len(items)) = items
        BY <2>2, PrefixAll
      <4>2. QED
        BY <4>1 DEF Prefix
    <3>4. QED
      BY <3>1, <3>2, <3>3 DEF RoundTrip
  <2>7. QED
    BY <2>1, <2>3, <2>4, <2>5, <2>6 DEF Inv
<1>2. QED
  BY <1>1, AlwaysInv, PTL

\* The lengths of the two codes, cut into runs, coded with the third tree and
\* permuted, come to an inflater as they were: at every moment it has a
\* beginning of them, and before the first item it has them all and knows
\* which belong to which code.
THEOREM LengthsAsSent ==
  Spec => []LengthsAgree
<1>1. Inv => LengthsAgree
  <2>1. SUFFICES ASSUME Inv PROVE LengthsAgree
    OBVIOUS
  <2>2. Scene
    BY <2>1 DEF Inv
  <2>3. PICK sent : sent = resized(writer.h1) \o resized(writer.h2)
    OBVIOUS
  <2>4. SUFFICES /\ reader.lens = SubSeq(sent, 1, Len(reader.lens))
                 /\ reader.pc \in {"items", "done"} /\ ~ Fixed =>
                      reader.lens = sent /\ reader.hlit = last_code(writer.h1) + 1
    <3>1. coding_type = "dynamic_coding" => ~ Fixed
      BY DEF Fixed
    <3>2. QED
      BY <2>3, <2>4, <3>1, Zenon DEF LengthsAgree
  <2>5. SubSeq(sent, 1, Len(<<>>)) = <<>>
    BY NoPrefix
  <2>6. AtDone /\ ~ Fixed => sent = Sent /\ K1 = last_code(writer.h1) + 1
    <3>1. SUFFICES ASSUME AtDone, ~ Fixed PROVE sent = Sent /\ K1 = last_code(writer.h1) + 1
      OBVIOUS
    <3>2. writer.h1 = H1 /\ writer.h2 = H2
      BY <3>1, FullChanges DEF AtDone
    <3>3. QED
      BY <2>3, <3>2, Zenon DEF Sent, K1
  <2>7. CASE reader = Reader!Start
    <3>1. reader.lens = <<>> /\ reader.pc = "header"
      BY <2>7, NothingRead
    <3>2. QED
      BY <2>5, <3>1
  <2>8. CASE AtDone /\ ReadsLengths
    <3>1. PICK b \in 0 .. Len(Sent) : reader.lens = Prefix(Sent, b)
      BY <2>2, <2>8, ReaderHas
    <3>2. ~ Fixed /\ reader.pc = "lengths"
      BY <2>2, <2>8, ReaderHas
    <3>3. Sent \in Seq(0 .. 15)
      BY <2>2, TreesSent DEF Scene
    <3>4. PICK S : S = 0 .. 15
      OBVIOUS
    <3>5. Prefix(Sent, b) = SubSeq(Sent, 1, Len(Prefix(Sent, b)))
      BY <3>3, <3>4, PrefixOfSelf
    <3>6. QED
      BY <2>6, <2>8, <3>1, <3>2, <3>5
  <2>9. CASE AtDone /\ (ReadsItems \/ HasRead)
    <3>1. reader.lens = LS /\ reader.hlit = HL
      BY <2>2, <2>9, ReaderHas
    <3>2. CASE Fixed
      <4>1. reader.lens = <<>>
        BY <3>1, <3>2 DEF LS
      <4>2. QED
        BY <2>5, <3>2, <4>1
    <3>3. CASE ~ Fixed
      <4>1. reader.lens = sent /\ reader.hlit = last_code(writer.h1) + 1 /\ sent = Sent
        BY <2>6, <2>9, <3>1, <3>3, Zenon DEF LS, HL
      <4>2. Sent \in Seq(0 .. 15)
        BY <2>2, TreesSent DEF Scene
      <4>3. PICK S : S = 0 .. 15
        OBVIOUS
      <4>4. Prefix(Sent, Len(Sent)) = Sent
        BY <4>2, <4>3, PrefixAll
      <4>5. QED
        BY <4>1, <4>4, Zenon DEF Prefix
    <3>4. QED
      BY <3>2, <3>3
  <2>10. QED
    BY <2>1, <2>7, <2>8, <2>9 DEF Inv
<1>2. QED
  BY <1>1, AlwaysInv, PTL

LEMMA MaxOfTwo ==
  ASSUME NEW a \in Nat, NEW b \in Nat
  PROVE  Max({a, b}) \in Nat /\ Max({a, b}) >= a /\ Max({a, b}) >= b
<1>1. CASE a >= b
  <2>1. Max({a, b}) = a
    <3>1. {a, b} \in SUBSET Int /\ a \in {a, b} /\ \A y \in {a, b} : y <= a
      BY <1>1
    <3>2. QED
      BY <3>1, MaxIs
  <2>2. QED
    BY <1>1, <2>1
<1>2. CASE b >= a
  <2>1. Max({a, b}) = b
    <3>1. {a, b} \in SUBSET Int /\ b \in {a, b} /\ \A y \in {a, b} : y <= b
      BY <1>2
    <3>2. QED
      BY <3>1, MaxIs
  <2>2. QED
    BY <1>2, <2>1
<1>3. QED
  BY <1>1, <1>2

\* The writer's index is within what it goes through, or is the one behind.
LEMMA WriterIndexIs ==
  ASSUME Inv
  PROVE  writer.k \in 1 .. Max({Len(writer.rlc), Len(items)}) + 1
<1>1. Scene /\ Len(items) \in Nat
  BY DEF Inv, Scene, IsBlock
<1>2. /\ Len(writer.rlc) \in Nat
      /\ \/ writer.k = 1
         \/ writer.k \in 1 .. Len(writer.rlc) + 1
         \/ writer.k \in 1 .. Len(items) + 1
  <2>1. Len(Rlc) \in Nat /\ Len(<<>>) \in Nat
    BY <1>1, ThirdSent DEF IsCodes, Scene
  <2>2. CASE AtStart \/ AtTrees \/ AtRuns
    <3>1. writer.k = 1 /\ writer.rlc = <<>>
      BY <2>2, WFields DEF AtStart, AtTrees, AtRuns
    <3>2. QED
      BY <2>1, <3>1
  <2>3. CASE AtThird \/ AtHeader
    <3>1. writer.k = 1 /\ writer.rlc = Rlc
      BY <2>3, WFields DEF AtThird, AtHeader
    <3>2. QED
      BY <2>1, <3>1
  <2>4. CASE AtLengths
    <3>1. PICK k \in 1 .. Len(Rlc) + 1 : writer = W("lengths", k, H1, H2, H3, Rlc)
      BY <2>4 DEF AtLengths
    <3>2. writer.k = k /\ writer.rlc = Rlc
      BY <3>1, WFields
    <3>3. QED
      BY <2>1, <3>2
  <2>5. ASSUME NEW pc, NEW k \in 1 .. Len(items) + 1, writer = Full(pc, k)
        PROVE  Len(writer.rlc) \in Nat /\ writer.k \in 1 .. Len(items) + 1
    <3>1. writer.k = k /\ (writer.rlc = Rlc \/ writer.rlc = <<>>)
      BY <2>5, FullChanges
    <3>2. QED
      BY <2>1, <3>1
  <2>6. CASE AtItems
    BY <2>5, <2>6 DEF AtItems
  <2>7. CASE AtDone
    <3>1. Len(items) + 1 \in 1 .. Len(items) + 1
      BY <1>1
    <3>2. QED
      BY <2>5, <2>7, <3>1 DEF AtDone
  <2>8. QED
    BY <2>2, <2>3, <2>4, <2>6, <2>7 DEF Inv, Writes
<1>3. PICK a \in Nat, b \in Nat : a = Len(writer.rlc) /\ b = Len(items)
  BY <1>1, <1>2
<1>4. PICK m \in Nat : m = Max({Len(writer.rlc), Len(items)}) /\ m >= a /\ m >= b
  BY <1>3, MaxOfTwo
<1>5. writer.k \in 1 .. m + 1
  BY <1>2, <1>3, <1>4
<1>6. QED
  BY <1>4, <1>5

\* The types of a block's writer and reader: what is written is bits, no
\* index runs off what it goes through.
THEOREM TypesOfBlock ==
  Spec => []TypeOK
<1>1. Inv => TypeOK
  <2>1. SUFFICES ASSUME Inv PROVE TypeOK
    OBVIOUS
  <2>2. last_block \in {0, 1} /\ coding_type \in {"static_coding", "dynamic_coding"}
    BY <2>1 DEF Inv, Scene, Bit
  <2>3. \A i \in DOMAIN bs : bs[i] \in {0, 1}
    <3>1. bs \in Seq(Bit)
      <4>1. <<>> \in Seq(Bit)
        OBVIOUS
      <4>2. Writes \/ AtDone
        BY <2>1 DEF Inv
      <4>3. QED
        BY <4>1, <4>2, Zenon DEF Writes, AtStart, AtTrees, AtRuns, AtThird, AtHeader,
                                 AtLengths, AtItems, AtDone, Laid
    <3>2. QED
      BY <3>1 DEF Bit
  <2>4. writer.pc \in {"start", "trees", "runs", "third", "header", "lengths", "items",
                       "done"}
    BY <2>1, StageIs
  <2>5. reader.pc \in {"header", "lengths", "items", "done"}
    <3>1. reader = Reader!Start \/ ReadsLengths \/ ReadsItems \/ HasRead
      BY <2>1 DEF Inv
    <3>2. QED
      BY <3>1, ReaderIs
  <2>6. writer.k \in 1 .. Max({Len(writer.rlc), Len(items)}) + 1
    BY <2>1, WriterIndexIs
  <2>7. QED
    BY <2>2, <2>3, <2>4, <2>5, <2>6 DEF TypeOK
<1>2. QED
  BY <1>1, AlwaysInv, PTL
===============================================================================
