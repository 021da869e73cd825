------------------------------ MODULE LZ77Proofs ------------------------------
(***************************************************************************)
(* Theorems about LZ77Dictionary, for every alphabet, window, level and    *)
(* sequence of blocks: every safety property that its run checks.          *)
(*                                                                         *)
(* The lemmas come first: what Inflated computes, what a copy that         *)
(* overlaps itself holds, how far two runs of bytes agree, and when two    *)
(* positions share a slot of the ring.  The facts about a block are stated *)
(* of the block as a sequence, so that a step which keeps the block keeps  *)
(* them.                                                                   *)
(***************************************************************************)
EXTENDS LZ77Dictionary, DataLemmas

-------------------------------------------------------------------------------
(* Inflated.                                                               *)

\* f[k] is what an inflater makes of the first k items.
IsInflation(f, items, m) ==
  f = [k \in 0 .. m |-> IF k = 0 THEN <<>> ELSE Grown(f[k - 1], items, k)]

LEMMA InflationExists ==
  ASSUME NEW m \in Nat, NEW items
  PROVE  \E f : IsInflation(f, items, m)
<1> DEFINE S == {k \in 0 .. m : \E f : IsInflation(f, items, k)}
<1>1. 0 \in S
  <2>1. IsInflation([k \in 0 .. 0 |-> <<>>], items, 0)
    BY DEF IsInflation
  <2>2. QED
    BY <2>1
<1>2. ASSUME NEW p \in 0 .. m - 1, p \in S
      PROVE  p + 1 \in S
  <2>1. PICK f : IsInflation(f, items, p)
    BY <1>2
  <2> DEFINE g == [k \in 0 .. p + 1 |->
                     IF k = p + 1 THEN Grown(f[p], items, p + 1) ELSE f[k]]
  <2>2. ASSUME NEW k \in 0 .. p + 1
        PROVE  g[k] = IF k = 0 THEN <<>> ELSE Grown(g[k - 1], items, k)
    <3>1. CASE k = 0
      BY <2>1, <3>1 DEF IsInflation
    <3>2. CASE k \in 1 .. p
      <4>1. k - 1 \in 0 .. p /\ k \in 0 .. p /\ k # 0
        BY <3>2
      <4>2. f[k] = Grown(f[k - 1], items, k)
        BY <2>1, <4>1 DEF IsInflation
      <4>3. QED
        BY <4>1, <4>2
    <3>3. CASE k = p + 1
      BY <3>3
    <3>4. QED
      BY <3>1, <3>2, <3>3
  <2>3. g = [k \in 0 .. p + 1 |-> g[k]]
    OBVIOUS
  <2> HIDE DEF g
  <2>4. IsInflation(g, items, p + 1)
    BY <2>2, <2>3 DEF IsInflation
  <2>5. QED
    BY <2>4
<1>3. 0 .. m \subseteq S
  <2> HIDE DEF S
  <2>1. QED
    BY <1>1, <1>2, IntervalInduction
<1>4. QED
  BY <1>3

LEMMA InflatedIs ==
  ASSUME NEW items, Len(items) \in Nat
  PROVE  \E f : IsInflation(f, items, Len(items)) /\ Inflated(items) = f[Len(items)]
<1> DEFINE m == Len(items)
           Unfolds(f) == f = [k \in 0 .. m |->
                                IF k = 0 THEN <<>> ELSE Grown(f[k - 1], items, k)]
<1>1. PICK f : IsInflation(f, items, m)
  BY InflationExists
<1>2. Unfolds(f)
  BY <1>1 DEF IsInflation
<1> DEFINE g == CHOOSE h : Unfolds(h)
<1>3. Unfolds(g)
  <2> HIDE DEF Unfolds
  <2>1. QED
    BY <1>2
<1>4. Inflated(items) = g[m]
  BY Zenon DEF Inflated
<1> HIDE DEF g
<1>5. QED
  BY <1>3, <1>4 DEF IsInflation

\* Items behind the first ones do not change what those inflate to.
LEMMA InflationAgrees ==
  ASSUME NEW m \in Nat, NEW q \in Nat, NEW f, NEW g, NEW s, NEW t,
         IsInflation(f, s, m), IsInflation(g, t, q), m <= q,
         \A k \in 1 .. m : s[k] = t[k],
         \A k \in 1 .. m : s[k].type = "distance" => k > 1
  PROVE  f[m] = g[m]
<1> DEFINE S == {k \in 0 .. m : f[k] = g[k]}
<1>1. 0 \in S
  BY DEF IsInflation
<1>2. ASSUME NEW k \in 0 .. m - 1, k \in S
      PROVE  k + 1 \in S
  <2>1. k + 1 \in 1 .. m /\ k + 1 \in 0 .. m /\ k + 1 \in 0 .. q
        /\ k + 1 # 0 /\ (k + 1) - 1 = k
    OBVIOUS
  <2>2. f[k + 1] = Grown(f[k], s, k + 1) /\ g[k + 1] = Grown(g[k], t, k + 1)
    BY <2>1 DEF IsInflation
  <2>3. s[k + 1] = t[k + 1]
    BY <2>1
  <2>4. s[k + 1].type = "distance" => s[k] = t[k]
    BY <2>1
  <2>5. Grown(f[k], s, k + 1) = Grown(f[k], t, k + 1)
    BY <2>1, <2>3, <2>4, Zenon DEF Grown
  <2>6. f[k] = g[k]
    BY <1>2
  <2>7. QED
    BY <2>1, <2>2, <2>5, <2>6
<1>3. 0 .. m \subseteq S
  <2> HIDE DEF S
  <2>1. QED
    BY <1>1, <1>2, IntervalInduction
<1>4. QED
  BY <1>3

Items == [type : {"literal", "length", "distance"}, val : Nat]

\* No distance comes first.
Paired(items) == \A k \in 1 .. Len(items) : items[k].type = "distance" => k > 1

LEMMA InflatedNothing == Inflated(<<>>) = <<>>
<1> DEFINE e == <<>>
<1>1. Len(e) = 0
  OBVIOUS
<1> HIDE DEF e
<1>2. PICK f : IsInflation(f, e, 0) /\ Inflated(e) = f[0]
  BY <1>1, InflatedIs
<1>3. f[0] = e
  BY <1>2 DEF IsInflation, e
<1>4. QED
  BY <1>2, <1>3 DEF e

LEMMA InflatedLiteral ==
  ASSUME NEW items \in Seq(Items), Paired(items), NEW b \in Nat
  PROVE  Inflated(Append(items, literal(b))) = Append(Inflated(items), b)
<1> DEFINE m == Len(items)
           t == Append(items, literal(b))
<1>1. /\ m \in Nat /\ Len(t) = m + 1 /\ t[m + 1] = literal(b)
      /\ \A k \in 1 .. m : items[k] = t[k]
  <2> DEFINE x == literal(b)
  <2>1. x \in Items
    BY DEF literal, Items
  <2> HIDE DEF x
  <2>2. QED
    BY <2>1
<1> HIDE DEF t
<1>2. PICK f : IsInflation(f, items, m) /\ Inflated(items) = f[m]
  BY <1>1, InflatedIs
<1>3. PICK g : IsInflation(g, t, m + 1) /\ Inflated(t) = g[m + 1]
  BY <1>1, InflatedIs
<1>4. f[m] = g[m]
  <2>1. \A k \in 1 .. m : items[k].type = "distance" => k > 1
    BY DEF Paired
  <2> HIDE DEF m
  <2>2. QED
    BY <1>1, <1>2, <1>3, <2>1, InflationAgrees
<1>5. g[m + 1] = Grown(g[m], t, m + 1)
  <2>1. m + 1 \in 0 .. m + 1 /\ m + 1 # 0 /\ (m + 1) - 1 = m
    BY <1>1
  <2> HIDE DEF m
  <2>2. QED
    BY <1>3, <2>1 DEF IsInflation
<1>6. Grown(g[m], t, m + 1) = Append(g[m], b)
  BY <1>1 DEF Grown, literal
<1>7. QED
  BY <1>2, <1>3, <1>4, <1>5, <1>6 DEF t

LEMMA InflatedMatch ==
  ASSUME NEW items \in Seq(Items), Paired(items), NEW l \in Nat, NEW d \in Nat
  PROVE  Inflated(items \o <<length(l), distance(d)>>)
         = Inflated(items) \o Copied(Inflated(items), l, d)
<1> DEFINE m == Len(items)
           t == items \o <<length(l), distance(d)>>
<1>1. /\ m \in Nat /\ Len(t) = m + 2
      /\ t[m + 1] = length(l) /\ t[m + 2] = distance(d)
      /\ \A k \in 1 .. m : items[k] = t[k]
  <2> DEFINE x == length(l)
             y == distance(d)
             z == <<x, y>>
  <2>1. x \in Items /\ y \in Items
    BY DEF length, distance, Items
  <2> HIDE DEF x, y
  <2>2. z \in Seq(Items) /\ Len(z) = 2 /\ z[1] = x /\ z[2] = y
    BY <2>1
  <2> HIDE DEF z
  <2>3. m \in Nat /\ Len(items \o z) = m + 2
    <3> HIDE DEF Items
    <3>1. Len(items) \in Nat
      OBVIOUS
    <3>2. Len(items \o z) = Len(items) + Len(z)
      BY <2>2, ConcatProperties
    <3>3. QED
      BY <2>2, <3>1, <3>2
  <2>4. /\ (items \o z)[m + 1] = x /\ (items \o z)[m + 2] = y
        /\ \A k \in 1 .. m : items[k] = (items \o z)[k]
    <3>1. (m + 1) - m = 1 /\ (m + 2) - m = 2
          /\ m + 1 \in m + 1 .. m + 2 /\ m + 2 \in m + 1 .. m + 2
      BY <2>3
    <3>2. QED
      BY <2>2, <2>3, <3>1, ConcatProperties
  <2>5. QED
    BY <2>3, <2>4 DEF x, y, z
<1> HIDE DEF t
<1>2. PICK f : IsInflation(f, items, m) /\ Inflated(items) = f[m]
  BY <1>1, InflatedIs
<1>3. PICK g : IsInflation(g, t, m + 2) /\ Inflated(t) = g[m + 2]
  BY <1>1, InflatedIs
<1>4. f[m] = g[m]
  <2>1. \A k \in 1 .. m : items[k].type = "distance" => k > 1
    BY DEF Paired
  <2> HIDE DEF m
  <2>2. QED
    BY <1>1, <1>2, <1>3, <2>1, InflationAgrees
<1>5. g[m + 1] = Grown(g[m], t, m + 1) /\ g[m + 2] = Grown(g[m + 1], t, m + 2)
  <2>1. /\ m + 1 \in 0 .. m + 2 /\ m + 1 # 0 /\ (m + 1) - 1 = m
        /\ m + 2 \in 0 .. m + 2 /\ m + 2 # 0 /\ (m + 2) - 1 = m + 1
    BY <1>1
  <2> HIDE DEF m
  <2>2. QED
    BY <1>3, <2>1 DEF IsInflation
<1>6. Grown(g[m], t, m + 1) = g[m]
  BY <1>1 DEF Grown, length
<1>7. Grown(g[m], t, m + 2) = g[m] \o Copied(g[m], l, d)
  <2>1. (m + 2) - 1 = m + 1
    BY <1>1
  <2>2. t[m + 2].type = "distance" /\ t[m + 2].val = d /\ t[m + 1].val = l
    BY <1>1 DEF length, distance
  <2> HIDE DEF m
  <2>3. QED
    BY <2>1, <2>2, Zenon DEF Grown
<1>8. QED
  BY <1>2, <1>3, <1>4, <1>5, <1>6, <1>7 DEF t

\* A block of literals inflates to its bytes.
LEMMA InflatedLiterals ==
  ASSUME NEW s, s \in Seq(Nat)
  PROVE  Inflated([k \in 1 .. Len(s) |-> literal(s[k])]) = s
<1> DEFINE m == Len(s)
           t == [k \in 1 .. m |-> literal(s[k])]
           part(k) == [j \in 1 .. k |-> s[j]]
<1>1. m \in Nat /\ Len(t) = m /\ \A k \in 1 .. m : t[k] = literal(s[k])
  OBVIOUS
<1> HIDE DEF t
<1>2. PICK f : IsInflation(f, t, m) /\ Inflated(t) = f[m]
  BY <1>1, InflatedIs
<1> DEFINE S == {k \in 0 .. m : f[k] = part(k)}
<1>3. 0 \in S
  <2>1. f[0] = <<>>
    BY <1>2 DEF IsInflation
  <2>2. part(0) = <<>>
    OBVIOUS
  <2> HIDE DEF part
  <2>3. QED
    BY <1>1, <2>1, <2>2
<1>4. ASSUME NEW k \in 0 .. m - 1, k \in S
      PROVE  k + 1 \in S
  <2>1. k + 1 \in 0 .. m /\ k + 1 \in 1 .. m /\ k + 1 # 0 /\ (k + 1) - 1 = k
    OBVIOUS
  <2>2. f[k + 1] = Grown(f[k], t, k + 1)
    <3> HIDE DEF m
    <3>1. QED
      BY <1>2, <2>1 DEF IsInflation
  <2>3. Grown(f[k], t, k + 1) = Append(f[k], s[k + 1])
    <3> HIDE DEF m, part, S
    <3>1. t[k + 1] = literal(s[k + 1])
      BY <1>1, <2>1
    <3>2. t[k + 1].type = "literal" /\ t[k + 1].val = s[k + 1]
      BY <3>1 DEF literal
    <3>3. QED
      BY <3>2, Zenon DEF Grown
  <2>4. f[k] = part(k)
    BY <1>4
  <2>5. Append(part(k), s[k + 1]) = part(k + 1)
    OBVIOUS
  <2> HIDE DEF part
  <2>6. QED
    BY <2>1, <2>2, <2>3, <2>4, <2>5
<1>5. m \in S
  <2> HIDE DEF S
  <2>1. 0 .. m \subseteq S
    <3> HIDE DEF m
    <3>1. QED
      BY <1>1, <1>3, <1>4, IntervalInduction
  <2>2. QED
    BY <1>1, <2>1
<1>6. part(m) = s
  OBVIOUS
<1> HIDE DEF part
<1>7. QED
  BY <1>2, <1>5, <1>6 DEF t

-------------------------------------------------------------------------------
(* Blocks.                                                                 *)

\* hash3b and SameBytes, of a block s.
HashOf(s, k) ==
  [j \in 1 .. 3 |-> IF k + j - 1 < Len(s) THEN s[k + j - 1 + 1] ELSE NoByte]

Agree(s, p, q, from, to) == \A j \in from .. to - 1 : s[p + j + 1] = s[q + j + 1]

LEMMA BlockFacts ==
  /\ \A k : hash3b(k) = HashOf(src, k)
  /\ \A p, q, from, to : SameBytes(p, q, from, to) = Agree(src, p, q, from, to)
BY Zenon DEF hash3b, HashOf, SameBytes, Agree, Byte, n

\* The same hash: the same 3 bytes.  Near the end of the block the later
\* position has fewer bytes, and so another hash.
LEMMA SameHash ==
  ASSUME NEW s \in Seq(Nat), NEW p \in Nat, NEW q \in Nat, p < q, q < Len(s),
         HashOf(s, p) = HashOf(s, q)
  PROVE  q + 3 <= Len(s) /\ Agree(s, p, q, 0, 3)
<1>1. Len(s) \in Nat /\ \A k \in 1 .. Len(s) : s[k] \in Nat
  OBVIOUS
<1>2. ASSUME NEW j \in 1 .. 3
      PROVE  (IF p + j - 1 < Len(s) THEN s[p + j - 1 + 1] ELSE NoByte)
             = (IF q + j - 1 < Len(s) THEN s[q + j - 1 + 1] ELSE NoByte)
  <2>1. HashOf(s, p)[j] = HashOf(s, q)[j]
    OBVIOUS
  <2>2. QED
    BY <2>1 DEF HashOf
<1>3. ASSUME NEW j \in 1 .. 3, p + j - 1 < Len(s)
      PROVE  q + j - 1 < Len(s)
  <2>1. s[p + j - 1 + 1] \in Nat
    BY <1>1, <1>3
  <2>2. s[p + j - 1 + 1]
        = (IF q + j - 1 < Len(s) THEN s[q + j - 1 + 1] ELSE NoByte)
    BY <1>2, <1>3
  <2>3. QED
    BY <2>1, <2>2 DEF NoByte
<1>4. q + 1 < Len(s) /\ q + 2 < Len(s)
  <2>1. p + 2 - 1 < Len(s)
    BY <1>1
  <2>2. q + 2 - 1 < Len(s)
    BY <1>3, <2>1
  <2>3. p + 3 - 1 < Len(s)
    BY <1>1, <2>2
  <2>4. q + 3 - 1 < Len(s)
    BY <1>3, <2>3
  <2>5. QED
    BY <1>1, <2>2, <2>4
<1>5. ASSUME NEW j \in 0 .. 2
      PROVE  s[p + j + 1] = s[q + j + 1]
  <2>1. j + 1 \in 1 .. 3 /\ p + (j + 1) - 1 = p + j /\ q + (j + 1) - 1 = q + j
    OBVIOUS
  <2>2. p + j < Len(s) /\ q + j < Len(s)
    BY <1>1, <1>4
  <2> DEFINE k == j + 1
  <2>3. k \in 1 .. 3 /\ p + k - 1 = p + j /\ q + k - 1 = q + j
    OBVIOUS
  <2> HIDE DEF k
  <2>4. (IF p + k - 1 < Len(s) THEN s[p + k - 1 + 1] ELSE NoByte)
        = (IF q + k - 1 < Len(s) THEN s[q + k - 1 + 1] ELSE NoByte)
    BY <1>2, <2>3
  <2>5. QED
    BY <2>2, <2>3, <2>4
<1>6. QED
  BY <1>1, <1>4, <1>5 DEF Agree

\* The same 3 bytes: the same hash.
LEMMA HashOfSame ==
  ASSUME NEW s \in Seq(Nat), NEW p \in Nat, NEW q \in Nat, p < q,
         q + 3 <= Len(s), Agree(s, p, q, 0, 3)
  PROVE  HashOf(s, p) = HashOf(s, q)
<1>1. Len(s) \in Nat
  OBVIOUS
<1>2. ASSUME NEW j \in 1 .. 3
      PROVE  (IF p + j - 1 < Len(s) THEN s[p + j - 1 + 1] ELSE NoByte)
             = (IF q + j - 1 < Len(s) THEN s[q + j - 1 + 1] ELSE NoByte)
  <2>1. j - 1 \in 0 .. 3 - 1 /\ p + (j - 1) = p + j - 1 /\ q + (j - 1) = q + j - 1
    OBVIOUS
  <2>2. s[p + (j - 1) + 1] = s[q + (j - 1) + 1]
    BY <2>1 DEF Agree
  <2>3. p + j - 1 < Len(s) /\ q + j - 1 < Len(s)
    BY <1>1
  <2>4. QED
    BY <2>1, <2>2, <2>3
<1>3. QED
  BY <1>2 DEF HashOf

\* How far the bytes from p and from q on agree, given that they do up to base.
IsReach(s, p, q, base, l) ==
  /\ q + l <= Len(s)
  /\ Agree(s, p, q, base, l)
  /\ \/ l = DeflateRepeatLenMax
     \/ q + l = Len(s)
     \/ s[p + l + 1] # s[q + l + 1]

LEMMA ReachExists ==
  ASSUME NEW s \in Seq(Nat), NEW p \in Nat, NEW q \in Nat, NEW base \in Nat,
         base <= DeflateRepeatLenMax, q + base <= Len(s)
  PROVE  \E l \in base .. DeflateRepeatLenMax : IsReach(s, p, q, base, l)
<1> DEFINE D == DeflateRepeatLenMax
           T == {l \in Nat : l >= base /\ \/ l >= D
                                          \/ q + l >= Len(s)
                                          \/ s[p + l + 1] # s[q + l + 1]}
<1>1. D \in Nat /\ Len(s) \in Nat
  BY LZ77Assumption
<1> HIDE DEF D
<1>2. D \in T /\ Len(s) - q \in T
  BY <1>1 DEF D
<1>3. PICK l \in T : \A y \in T : l <= y
  <2>1. T \subseteq Nat
    OBVIOUS
  <2> HIDE DEF T
  <2>2. QED
    BY <1>2, <2>1, LeastExists
<1>4. l \in base .. D /\ q + l <= Len(s)
  <2>1. l \in Nat /\ l >= base
    BY <1>3
  <2>2. l <= D /\ l <= Len(s) - q
    BY <1>2, <1>3
  <2>3. QED
    BY <1>1, <2>1, <2>2
<1>5. ASSUME NEW j \in base .. l - 1
      PROVE  s[p + j + 1] = s[q + j + 1]
  <2>1. j \in Nat /\ j >= base /\ j < l
    BY <1>4
  <2>2. j \notin T
    <3> HIDE DEF T
    <3>1. QED
      BY <1>3, <1>4, <2>1
  <2>3. QED
    BY <2>1, <2>2
<1>6. l = D \/ q + l = Len(s) \/ s[p + l + 1] # s[q + l + 1]
  BY <1>1, <1>3, <1>4
<1>7. QED
  BY <1>4, <1>5, <1>6 DEF D, IsReach, Agree

LEMMA ReachUnique ==
  ASSUME NEW s \in Seq(Nat), NEW p \in Nat, NEW q \in Nat,
         NEW b \in Nat, NEW c \in Nat,
         Agree(s, p, q, 0, b), Agree(s, p, q, 0, c),
         NEW l \in b .. DeflateRepeatLenMax, IsReach(s, p, q, b, l),
         NEW m \in c .. DeflateRepeatLenMax, IsReach(s, p, q, c, m)
  PROVE  l = m
<1>1. DeflateRepeatLenMax \in Nat /\ Len(s) \in Nat
  BY LZ77Assumption
<1>2. ~ (l < m)
  <2>1. SUFFICES ASSUME l < m PROVE FALSE
    OBVIOUS
  <2>2. s[p + l + 1] # s[q + l + 1]
    BY <1>1, <2>1 DEF IsReach
  <2>3. l \in 0 .. c - 1 \/ l \in c .. m - 1
    BY <1>1, <2>1
  <2>4. QED
    BY <2>2, <2>3 DEF IsReach, Agree
<1>3. ~ (m < l)
  <2>1. SUFFICES ASSUME m < l PROVE FALSE
    OBVIOUS
  <2>2. s[p + m + 1] # s[q + m + 1]
    BY <1>1, <2>1 DEF IsReach
  <2>3. m \in 0 .. b - 1 \/ m \in b .. l - 1
    BY <1>1, <2>1
  <2>4. QED
    BY <2>2, <2>3 DEF IsReach, Agree
<1>4. QED
  BY <1>1, <1>2, <1>3

\* The bytes from q on repeat those from p up to q.
Repeats(s, p, q, l) ==
  \A j \in 0 .. l - 1 : s[q + j + 1] = s[p + (j % (q - p)) + 1]

\* A run that agrees with one before it, and overlaps it, repeats that one's
\* beginning.
LEMMA Periodic ==
  ASSUME NEW s, NEW p \in Nat, NEW q \in Nat, p < q, NEW l \in Nat,
         Agree(s, p, q, 0, l)
  PROVE  Repeats(s, p, q, l)
<1> DEFINE d == q - p
           P(x) == \A r \in 0 .. d - 1 : x + r < l => s[q + x + r + 1] = s[p + r + 1]
           S == {k \in Nat : P(d * k)}
<1>1. d \in Nat \ {0} /\ q = p + d
  OBVIOUS
<1>2. \A j \in Nat : j < l => s[p + j + 1] = s[q + j + 1]
  BY DEF Agree
<1> HIDE DEF d
<1>3. 0 \in S
  <2>1. P(0)
    BY <1>1, <1>2
  <2>2. d * 0 = 0
    BY <1>1
  <2> HIDE DEF P
  <2>3. QED
    BY <2>1, <2>2
<1>4. ASSUME NEW k \in Nat, k \in S
      PROVE  k + 1 \in S
  <2> DEFINE x == d * k
  <2>1. x \in Nat /\ d * (k + 1) = x + d /\ P(x)
    BY <1>1, <1>4
  <2> HIDE DEF x
  <2>2. P(x + d)
    <3>1. SUFFICES ASSUME NEW r \in 0 .. d - 1, x + d + r < l
                   PROVE  s[q + (x + d) + r + 1] = s[p + r + 1]
      OBVIOUS
    <3> DEFINE j == x + d + r
    <3>2. j \in Nat /\ j < l /\ q + (x + d) + r = q + j /\ p + j = q + x + r
          /\ x + r < l
      BY <1>1, <2>1, <3>1
    <3> HIDE DEF j
    <3>3. s[q + j + 1] = s[p + j + 1]
      BY <1>2, <3>2
    <3>4. s[q + x + r + 1] = s[p + r + 1]
      BY <2>1, <3>2
    <3>5. QED
      BY <3>2, <3>3, <3>4
  <2> HIDE DEF P
  <2>3. QED
    BY <2>1, <2>2
<1>5. Nat \subseteq S
  <2> HIDE DEF S
  <2>1. QED
    BY <1>3, <1>4, InductionOnSet
<1>6. ASSUME NEW j \in 0 .. l - 1
      PROVE  s[q + j + 1] = s[p + (j % d) + 1]
  <2> DEFINE k == j \div d
             r == j % d
             x == d * k
  <2>1. k \in Nat /\ r \in 0 .. d - 1 /\ j = x + r
    <3>1. j \in Nat
      OBVIOUS
    <3>2. j \div d \in Nat /\ j % d \in 0 .. d - 1 /\ j = d * (j \div d) + (j % d)
      BY <1>1, <3>1, DivIs
    <3>3. QED
      BY <3>2
  <2>2. x \in Nat
    BY <1>1, <2>1
  <2>3. P(x)
    <3>1. k \in S
      <4> HIDE DEF S, k
      <4>1. QED
        BY <1>5, <2>1
    <3>2. QED
      BY <3>1
  <2> HIDE DEF x, k, r
  <2>4. x + r < l /\ q + j = q + x + r
    BY <2>1, <2>2
  <2>5. s[q + x + r + 1] = s[p + r + 1]
    BY <2>1, <2>3, <2>4
  <2>6. QED
    BY <2>4, <2>5 DEF r
<1>7. QED
  BY <1>6 DEF d, Repeats

\* A match copies the bytes at the cursor, though it may overlap them.
LEMMA CopyContinues ==
  ASSUME NEW s \in Seq(Nat), NEW p \in Nat, NEW q \in Nat, p < q,
         NEW l \in Nat, q + l <= Len(s), Agree(s, p, q, 0, l)
  PROVE  SubSeq(s, 1, q) \o Copied(SubSeq(s, 1, q), l, q - p)
         = SubSeq(s, 1, q + l)
<1> DEFINE out == SubSeq(s, 1, q)
           c == Copied(out, l, q - p)
<1>0. \A x \in 0 .. l - 1 : s[q + x + 1] = s[p + (x % (q - p)) + 1]
  <2>1. Repeats(s, p, q, l)
    BY Periodic
  <2>2. QED
    BY <2>1 DEF Repeats
<1>1. Len(s) \in Nat
  OBVIOUS
<1>2. out = [k \in 1 .. q |-> s[k]]
  BY <1>1
<1>3. Len(out) = q /\ \A k \in 1 .. q : out[k] = s[k]
  BY <1>2
<1> HIDE DEF out
<1>4. c = [k \in 1 .. l |-> s[q + k]]
  <2>1. q - p \in 1 .. Len(out)
    BY <1>3
  <2>2. c = [k \in 1 .. l |-> out[Len(out) - (q - p) + 1 + ((k - 1) % (q - p))]]
    BY <2>1 DEF Copied
  <2>3. ASSUME NEW k \in 1 .. l
        PROVE  out[Len(out) - (q - p) + 1 + ((k - 1) % (q - p))] = s[q + k]
    <3> DEFINE d == q - p
               j == k - 1
               r == j % d
    <3>1. d \in Nat \ {0} /\ j \in 0 .. l - 1
      OBVIOUS
    <3>2. r \in 0 .. d - 1
      <4> HIDE DEF d, j
      <4>1. j \in Nat
        BY <3>1
      <4>2. QED
        BY <3>1, <4>1, DivIs
    <3>3. s[q + j + 1] = s[p + r + 1]
      <4> HIDE DEF j
      <4>1. QED
        BY <1>0, <3>1
    <3> HIDE DEF r
    <3>4. Len(out) - d + 1 + r = p + r + 1 /\ p + r + 1 \in 1 .. q /\ q + j + 1 = q + k
      BY <1>3, <3>1, <3>2
    <3>5. out[Len(out) - d + 1 + r] = s[q + k]
      <4> HIDE DEF d, j
      <4>1. QED
        BY <1>3, <3>3, <3>4
    <3>6. QED
      BY <3>5 DEF r
  <2> HIDE DEF c
  <2>4. QED
    BY <2>2, <2>3
<1> HIDE DEF c
<1>5. SubSeq(s, 1, q + l) = [k \in 1 .. q + l |-> s[k]]
  BY <1>1
<1>6. [k \in 1 .. q |-> s[k]] \o [k \in 1 .. l |-> s[q + k]]
      = [k \in 1 .. q + l |-> s[k]]
  OBVIOUS
<1>7. QED
  BY <1>2, <1>4, <1>5, <1>6 DEF out, c

-------------------------------------------------------------------------------
(* The inductive invariant.                                                *)

Walks == [at : Nat, checked : Nat, max_check : Nat, len : Nat, pos : Nat]

Typed ==
  /\ level \in Levels
  /\ racing \in BOOLEAN
  /\ todo \in Seq(Seq(Bytes))
  /\ src \in Seq(Bytes)
  /\ res \in Seq(Items)
  /\ i \in Nat /\ skip \in Nat /\ i + skip <= Len(src)
  /\ m_left \in 0 .. i
  /\ m_head3b \in [Keys -> Seq(Nat)]
  /\ m_hash \in [0 .. HashBufferSize - 1 -> Positions \cup {NoByte}]
  /\ walk \in Walks
  /\ walk.len \in {0} \cup 3 .. DeflateRepeatLenMax
  /\ finished_bytes \in Nat /\ reported \in Nat
  /\ running \in BOOLEAN

\* The list of a key names the positions before c that have this hash, each
\* once, the latest first.
ListOf(s, c, key, list) ==
  /\ \A x \in 1 .. Len(list) : list[x] \in 0 .. c - 1 /\ HashOf(s, list[x]) = key
  /\ \A x, y \in 1 .. Len(list) : x < y => list[x] > list[y]
  /\ \A p \in 0 .. c - 1 : HashOf(s, p) = key => \E x \in 1 .. Len(list) : list[x] = p

ListsOK == \A key \in Keys : ListOf(src, i, key, m_head3b[key])

\* The ring holds the prefixes of the window, but for its first position,
\* and those a match at the cursor can reach.
InRing(s, c, ring) ==
  \A q \in 0 .. Len(s) - 1 :
    c - LZ77DictionarySize <= q /\ q < c + DeflateRepeatLenMax
      => ring[q % HashBufferSize] = q

RingOK == running => InRing(src, i, m_hash)

\* A walk's match: its bytes are those from the cursor c on.
Found(s, c, w) ==
  c + w.len <= Len(s) /\ Agree(s, w.pos, c, 0, w.len)

\* The walk went past every position before w.at: it took the first of
\* those that agree with the cursor the furthest.
Passed(s, c, list, w) ==
  \A x \in 1 .. Len(list) :
    x < w.at /\ c - list[x] < LZ77DictionarySize =>
      \A l \in 0 .. DeflateRepeatLenMax :
        IsReach(s, list[x], c, 0, l) =>
          l < w.len \/ (l = w.len /\ list[x] <= w.pos)

WalkOK ==
  walk # NoWalk =>
    /\ running /\ i < n /\ skip = 0
    /\ walk.len = 0 => walk.at = 1 /\ InWindow(1)
    /\ walk.len # 0 =>
         /\ walk.pos \in left .. i - 1
         /\ Found(src, i, walk)
         /\ walk.at = 0 => \/ walk.len >= level.perfect
                           \/ walk.checked >= walk.max_check
         /\ walk.at # 0 =>
              /\ \E y \in 1 .. Len(chain) : y < walk.at /\ chain[y] = walk.pos
              /\ ~ racing => Passed(src, i, chain, walk)

\* What the bar was told and will be told is what the items hold.
Counted ==
  running \/ n > ShortBlock =>
    /\ reported + finished_bytes = IF running THEN i + skip ELSE n
    /\ finished_bytes <= ReportOver

IInv ==
  /\ Typed
  /\ ItemsLegal
  /\ ListsOK
  /\ RingOK
  /\ WalkOK
  /\ Counted
  /\ RoundTrip

-------------------------------------------------------------------------------
(* Facts about the parts of a state.                                       *)

LEMMA Constants ==
  /\ LZ77DictionarySize \in Nat \ {0}
  /\ DeflateRepeatLenMax \in Nat /\ DeflateRepeatLenMax >= 3
  /\ HashBufferSize \in Nat \ {0}
  /\ HashBufferSize = LZ77DictionarySize + DeflateRepeatLenMax
  /\ ShortBlock \in Nat /\ ShortBlock > 1
  /\ ReportOver \in Nat
  /\ Bytes \subseteq Nat
BY LZ77Assumption DEF HashBufferSize

LEMMA BytesAreNumbers ==
  ASSUME NEW s \in Seq(Bytes)
  PROVE  s \in Seq(Nat)
<1>1. s \in [1 .. Len(s) -> Bytes] /\ Len(s) \in Nat
  OBVIOUS
<1>2. s \in [1 .. Len(s) -> Nat]
  BY <1>1, Constants
<1>3. QED
  BY <1>1, <1>2

LEMMA HashIsKey ==
  ASSUME NEW s \in Seq(Bytes), NEW k \in Nat
  PROVE  HashOf(s, k) \in Keys
<1>1. \A j \in 1 .. 3 : k + j - 1 < Len(s) => s[k + j - 1 + 1] \in Bytes
  OBVIOUS
<1>2. QED
  BY <1>1 DEF HashOf, Keys

LEMMA LeftFacts ==
  ASSUME Typed
  PROVE  left \in 0 .. i /\ i - left <= LZ77DictionarySize
BY Constants DEF Typed, left

LEMMA ChainIs == chain = m_head3b[HashOf(src, i)]
BY BlockFacts DEF chain

\* A state's list at the cursor.
LEMMA ChainFacts ==
  ASSUME Typed, ListsOK
  PROVE  /\ chain = m_head3b[HashOf(src, i)]
         /\ HashOf(src, i) \in Keys
         /\ chain \in Seq(Nat)
         /\ ListOf(src, i, HashOf(src, i), chain)
<1>1. chain = m_head3b[HashOf(src, i)]
  BY ChainIs
<1>2. HashOf(src, i) \in Keys
  BY HashIsKey DEF Typed
<1>3. QED
  BY <1>1, <1>2 DEF Typed, ListsOK

-------------------------------------------------------------------------------
(* The end of a round.                                                     *)

LEMMA ListGrows ==
  ASSUME NEW s, NEW c \in Nat, NEW list \in Seq(Nat),
         ListOf(s, c, HashOf(s, c), list)
  PROVE  ListOf(s, c + 1, HashOf(s, c), <<c>> \o list)
<1> DEFINE key == HashOf(s, c)
           m == Len(list)
           new == <<c>> \o list
<1>1. /\ m \in Nat /\ Len(new) = m + 1 /\ new[1] = c
      /\ \A x \in 2 .. m + 1 : x - 1 \in 1 .. m /\ new[x] = list[x - 1]
  OBVIOUS
<1> HIDE DEF new
<1>2. ASSUME NEW x \in 1 .. m + 1
      PROVE  new[x] \in 0 .. c /\ HashOf(s, new[x]) = key
  <2>1. CASE x = 1
    BY <1>1, <2>1
  <2>2. CASE x \in 2 .. m + 1
    BY <1>1, <2>2 DEF ListOf
  <2>3. QED
    BY <1>1, <2>1, <2>2
<1>3. ASSUME NEW x \in 1 .. m + 1, NEW y \in 1 .. m + 1, x < y
      PROVE  new[x] > new[y]
  <2>1. y \in 2 .. m + 1 /\ y - 1 \in 1 .. m /\ new[y] = list[y - 1]
    BY <1>1, <1>3
  <2>2. CASE x = 1
    BY <1>1, <2>1, <2>2 DEF ListOf
  <2>3. CASE x \in 2 .. m + 1
    <3>1. x - 1 \in 1 .. m /\ new[x] = list[x - 1] /\ x - 1 < y - 1
      BY <1>1, <1>3, <2>3
    <3>2. QED
      BY <2>1, <3>1 DEF ListOf
  <2>4. QED
    BY <1>1, <2>2, <2>3
<1>4. ASSUME NEW p \in 0 .. c, HashOf(s, p) = key
      PROVE  \E x \in 1 .. m + 1 : new[x] = p
  <2>1. CASE p = c
    BY <1>1, <2>1
  <2>2. CASE p \in 0 .. c - 1
    <3>1. PICK y \in 1 .. m : list[y] = p
      BY <1>4, <2>2 DEF ListOf
    <3>2. y + 1 \in 2 .. m + 1 /\ (y + 1) - 1 = y
      BY <1>1
    <3>3. new[y + 1] = p
      BY <1>1, <3>1, <3>2
    <3>4. QED
      BY <1>1, <3>2, <3>3
  <2>3. QED
    BY <2>1, <2>2
<1>5. (c + 1) - 1 = c
  OBVIOUS
<1>6. QED
  BY <1>1, <1>2, <1>3, <1>4, <1>5 DEF ListOf, new

\* A position with another hash does not enter a list.
LEMMA ListStays ==
  ASSUME NEW s, NEW c \in Nat, NEW key, NEW list \in Seq(Nat),
         ListOf(s, c, key, list), HashOf(s, c) # key
  PROVE  ListOf(s, c + 1, key, list)
<1>1. \A p \in 0 .. (c + 1) - 1 : p = c \/ p \in 0 .. c - 1
  OBVIOUS
<1>2. 0 .. c - 1 \subseteq 0 .. (c + 1) - 1
  OBVIOUS
<1>3. QED
  BY <1>1, <1>2 DEF ListOf

LEMMA RingTurns ==
  ASSUME NEW s, Len(s) \in Nat, NEW c \in Nat, NEW ring,
         ring \in [0 .. HashBufferSize - 1 -> 0 .. Len(s) - 1 \cup {NoByte}],
         InRing(s, c, ring), NEW j, j = c + DeflateRepeatLenMax,
         NEW new, new = IF j < Len(s) THEN [ring EXCEPT ![j % HashBufferSize] = j]
                        ELSE ring
  PROVE  /\ new \in [0 .. HashBufferSize - 1 -> 0 .. Len(s) - 1 \cup {NoByte}]
         /\ InRing(s, c + 1, new)
<1> DEFINE W == LZ77DictionarySize
           D == DeflateRepeatLenMax
           H == HashBufferSize
<1>1. W \in Nat \ {0} /\ D \in Nat /\ H \in Nat \ {0} /\ H = W + D
  BY Constants
<1>2. j \in Nat /\ j = c + D /\ j % H \in 0 .. H - 1
  <2>1. j \in Nat /\ j = c + D
    BY <1>1
  <2> HIDE DEF H
  <2>2. j % H \in 0 .. H - 1
    BY <1>1, <2>1, DivIs
  <2>3. QED
    BY <2>1, <2>2
<1> HIDE DEF W, D, H
<1>3. new \in [0 .. H - 1 -> 0 .. Len(s) - 1 \cup {NoByte}]
  <2>1. CASE j < Len(s)
    <3>1. j \in 0 .. Len(s) - 1
      BY <1>2, <2>1
    <3>2. ring \in [0 .. H - 1 -> 0 .. Len(s) - 1 \cup {NoByte}]
          /\ new = [ring EXCEPT ![j % H] = j]
      BY <2>1 DEF H
    <3>3. QED
      BY <1>2, <3>1, <3>2
  <2>2. CASE ~ (j < Len(s))
    BY <2>2 DEF H
  <2>3. QED
    BY <2>1, <2>2
<1>4. ASSUME NEW q \in 0 .. Len(s) - 1, (c + 1) - W <= q, q < (c + 1) + D
      PROVE  new[q % H] = q
  <2>1. q \in Nat /\ q % H \in 0 .. H - 1
    <3>1. q \in Nat
      OBVIOUS
    <3>2. QED
      BY <1>1, <3>1, DivIs
  <2>2. CASE q = j
    <3>1. ring \in [0 .. H - 1 -> 0 .. Len(s) - 1 \cup {NoByte}]
          /\ new = [ring EXCEPT ![j % H] = j]
      BY <2>2 DEF H
    <3>2. QED
      BY <1>2, <2>2, <3>1
  <2>3. CASE q # j
    <3>1. q <= j /\ j - q < H /\ c - W <= q /\ q < c + D
      BY <1>1, <1>2, <1>4, <2>1, <2>3
    <3>2. q % H # j % H
      <4>1. SUFFICES ASSUME q % H = j % H PROVE FALSE
        OBVIOUS
      <4>2. q = j
        BY <1>1, <1>2, <2>1, <3>1, <4>1, SameRemainder
      <4>3. QED
        BY <2>3, <4>2
    <3>3. ring[q % H] = q
      BY <3>1 DEF InRing, W, D, H
    <3>4. ring \in [0 .. H - 1 -> 0 .. Len(s) - 1 \cup {NoByte}]
          /\ new = IF j < Len(s) THEN [ring EXCEPT ![j % H] = j] ELSE ring
      BY DEF H
    <3>5. QED
      BY <1>2, <2>1, <3>2, <3>3, <3>4
  <2>4. QED
    BY <2>2, <2>3
<1>5. QED
  BY <1>3, <1>4 DEF InRing, W, D, H

\* What the end of a round leaves behind.
RoundEnded ==
  /\ i' = i + 1 /\ i' \in Nat
  /\ level' = level /\ racing' = racing /\ todo' = todo /\ src' = src
  /\ running' = running /\ walk' = NoWalk
  /\ m_left' \in 0 .. i'
  /\ m_head3b' \in [Keys -> Seq(Nat)]
  /\ m_hash' \in [0 .. HashBufferSize - 1 -> 0 .. Len(src') - 1 \cup {NoByte}]
  /\ walk' \in Walks /\ walk'.len = 0
  /\ ListsOK'
  /\ RingOK'
  /\ WalkOK'

LEMMA EndOfRound ==
  ASSUME Typed, ListsOK, RingOK, running, end_of_round
  PROVE  RoundEnded
<1> DEFINE key == HashOf(src, i)
<1>1. /\ i \in Nat /\ src \in Seq(Bytes) /\ Len(src) \in Nat
      /\ m_head3b \in [Keys -> Seq(Nat)] /\ key \in Keys
  <2>1. /\ i \in Nat /\ src \in Seq(Bytes) /\ Len(src) \in Nat
        /\ m_head3b \in [Keys -> Seq(Nat)]
    BY DEF Typed
  <2>2. QED
    BY <2>1, HashIsKey
<1>2. /\ i' = i + 1 /\ m_left' = left /\ walk' = NoWalk
      /\ level' = level /\ racing' = racing /\ todo' = todo /\ src' = src
      /\ running' = running
      /\ m_head3b' = [m_head3b EXCEPT ![hash3b(i)] = <<i>> \o @]
  BY DEF end_of_round
<1>3. m_head3b' = [m_head3b EXCEPT ![key] = <<i>> \o @]
  BY <1>2, BlockFacts
<1> HIDE DEF key
<1>4. /\ m_head3b[key] \in Seq(Nat) /\ <<i>> \o m_head3b[key] \in Seq(Nat)
      /\ ListOf(src, i, key, m_head3b[key])
  <2>1. m_head3b[key] \in Seq(Nat)
    BY <1>1
  <2>2. <<i>> \in Seq(Nat)
    BY <1>1
  <2>3. QED
    BY <1>1, <2>1, <2>2, ConcatProperties DEF ListsOK
<1>5. m_head3b' \in [Keys -> Seq(Nat)]
  BY <1>1, <1>3, <1>4
<1>6. ASSUME NEW other \in Keys
      PROVE  ListOf(src, i + 1, other, m_head3b'[other])
  <2>1. CASE other = key
    <3>1. m_head3b'[key] = <<i>> \o m_head3b[key]
      BY <1>1, <1>3
    <3>2. ListOf(src, i + 1, key, <<i>> \o m_head3b[key])
      BY <1>1, <1>4, ListGrows DEF key
    <3>3. QED
      BY <2>1, <3>1, <3>2
  <2>2. CASE other # key
    <3>1. m_head3b'[other] = m_head3b[other] /\ m_head3b[other] \in Seq(Nat)
      BY <1>1, <1>3, <2>2
    <3>2. ListOf(src, i, other, m_head3b[other])
      BY DEF ListsOK
    <3>3. HashOf(src, i) # other
      BY <2>2 DEF key
    <3>4. ListOf(src, i + 1, other, m_head3b[other])
      BY <1>1, <3>1, <3>2, <3>3, ListStays
    <3>5. QED
      BY <3>1, <3>4
  <2>3. QED
    BY <2>1, <2>2
<1>7. ListsOK'
  BY <1>2, <1>6 DEF ListsOK
<1>8. /\ m_hash' \in [0 .. HashBufferSize - 1 -> 0 .. Len(src) - 1 \cup {NoByte}]
      /\ InRing(src, i + 1, m_hash')
  <2> DEFINE j == i + DeflateRepeatLenMax
  <2>1. m_hash' = IF j < Len(src) THEN [m_hash EXCEPT ![j % HashBufferSize] = j]
                  ELSE m_hash
    BY DEF end_of_round, n
  <2>2. /\ m_hash \in [0 .. HashBufferSize - 1 -> 0 .. Len(src) - 1 \cup {NoByte}]
        /\ InRing(src, i, m_hash)
    BY DEF Typed, Positions, n, RingOK
  <2> HIDE DEF j
  <2>3. QED
    BY <1>1, <2>1, <2>2, RingTurns DEF j
<1>9. RingOK'
  BY <1>2, <1>8 DEF RingOK
<1>10. WalkOK'
  BY <1>2 DEF WalkOK
<1>11. m_left' \in 0 .. i'
  <2>1. left \in 0 .. i
    BY LeftFacts
  <2>2. QED
    BY <1>1, <1>2, <2>1
<1>12. walk' \in Walks /\ walk'.len = 0
  BY <1>2 DEF NoWalk, Walks
<1>13. QED
  BY <1>1, <1>2, <1>5, <1>7, <1>8, <1>9, <1>10, <1>11, <1>12 DEF RoundEnded

-------------------------------------------------------------------------------
(* The steps.                                                              *)

LEMMA InitIsOK ==
  ASSUME Init
  PROVE  IInv
<1> DEFINE e == <<>>
<1>1. /\ level \in Levels /\ racing \in BOOLEAN /\ todo \in Workloads
      /\ src = e /\ res = e
      /\ i = 0 /\ skip = 0 /\ m_left = 0
      /\ m_head3b = EmptyHeads /\ m_hash = EmptyRing
      /\ walk = NoWalk
      /\ finished_bytes = 0 /\ reported = 0
      /\ running = FALSE
  BY DEF Init
<1>2. Len(e) = 0 /\ e \in Seq(Bytes) /\ e \in Seq(Items) /\ e \in Seq(Nat)
  OBVIOUS
<1>3. m_head3b \in [Keys -> Seq(Nat)] /\ \A key \in Keys : m_head3b[key] = e
  BY <1>1, <1>2 DEF EmptyHeads
<1> HIDE DEF e
<1>4. Typed
  <2>1. todo \in Seq(Seq(Bytes))
    BY <1>1, LZ77Assumption
  <2>2. walk \in Walks /\ walk.len = 0
    BY <1>1 DEF NoWalk, Walks
  <2>3. m_hash \in [0 .. HashBufferSize - 1 -> Positions \cup {NoByte}]
    BY <1>1 DEF EmptyRing
  <2>4. /\ i \in Nat /\ skip \in Nat /\ i + skip <= Len(src)
        /\ m_left \in 0 .. i /\ finished_bytes \in Nat /\ reported \in Nat
    BY <1>1, <1>2
  <2>5. QED
    BY <1>1, <1>2, <1>3, <2>1, <2>2, <2>3, <2>4, Zenon DEF Typed
<1>5. ItemsLegal
  BY <1>1, <1>2 DEF ItemsLegal
<1>6. ListsOK
  BY <1>1, <1>2, <1>3 DEF ListsOK, ListOf
<1>7. RingOK /\ WalkOK
  BY <1>1 DEF RingOK, WalkOK
<1>8. Counted
  BY <1>1, <1>2, Constants DEF Counted, n
<1>9. RoundTrip
  <2>1. Inflated(e) = e
    BY InflatedNothing DEF e
  <2>2. SubSeq(e, 1, 0) = e
    BY <1>2
  <2>3. QED
    BY <1>1, <1>2, <2>1, <2>2 DEF RoundTrip, n
<1>10. QED
  BY <1>4, <1>5, <1>6, <1>7, <1>8, <1>9 DEF IInv

LEMMA EmptyListsOK ==
  ASSUME NEW heads, heads = EmptyHeads
  PROVE  /\ heads \in [Keys -> Seq(Nat)]
         /\ \A s : \A key \in Keys : ListOf(s, 0, key, heads[key])
<1> DEFINE e == <<>>
<1>1. Len(e) = 0 /\ e \in Seq(Nat)
  OBVIOUS
<1>2. heads = [key \in Keys |-> e]
  BY DEF EmptyHeads
<1> HIDE DEF e
<1>3. heads \in [Keys -> Seq(Nat)]
  BY <1>1, <1>2
<1>4. ASSUME NEW s, NEW key \in Keys
      PROVE  ListOf(s, 0, key, heads[key])
  BY <1>1, <1>2 DEF ListOf
<1>5. QED
  BY <1>3, <1>4

\* A ring that is filled for the first round.
LEMMA FilledRing ==
  ASSUME NEW s, Len(s) \in Nat, NEW ring,
         ring = [x \in 0 .. HashBufferSize - 1 |->
                   IF x < Len(s) /\ x < DeflateRepeatLenMax THEN x ELSE NoByte]
  PROVE  /\ ring \in [0 .. HashBufferSize - 1 -> 0 .. Len(s) - 1 \cup {NoByte}]
         /\ InRing(s, 0, ring)
<1> DEFINE H == HashBufferSize
           D == DeflateRepeatLenMax
<1>1. D \in Nat /\ H \in Nat \ {0} /\ D <= H
  BY Constants
<1>2. ring \in [0 .. H - 1 -> 0 .. Len(s) - 1 \cup {NoByte}]
  <2>1. \A x \in 0 .. H - 1 : x < Len(s) => x \in 0 .. Len(s) - 1
    BY <1>1
  <2> HIDE DEF H
  <2>2. QED
    BY <2>1 DEF H
<1>3. ASSUME NEW q \in 0 .. Len(s) - 1, q < 0 + D
      PROVE  ring[q % H] = q
  <2> HIDE DEF H, D
  <2>1. q \in Nat /\ q < H /\ q < D
    BY <1>1, <1>3
  <2>2. q % H = q
    <3>1. q % H \in 0 .. H - 1 /\ q \div H \in Nat
          /\ q = H * (q \div H) + (q % H)
      <4>1. q \in Nat
        BY <2>1
      <4>2. QED
        BY <1>1, <4>1, DivIs
    <3> DEFINE k == q \div H
               r == q % H
    <3> HIDE DEF k, r
    <3>2. k \in Nat /\ r \in 0 .. H - 1 /\ q = H * k + r
      BY <3>1 DEF k, r
    <3>3. ~ (k >= 1)
      <4>1. SUFFICES ASSUME k >= 1 PROVE FALSE
        OBVIOUS
      <4>2. 1 * H <= k * H
        BY <1>1, <3>2, <4>1, ProductMonotonic
      <4>3. QED
        BY <1>1, <2>1, <3>2, <4>2
    <3>4. k = 0
      BY <3>2, <3>3
    <3>5. QED
      BY <1>1, <3>2, <3>4 DEF r
  <2>3. q \in 0 .. H - 1
    BY <1>1, <2>1
  <2>4. QED
    BY <2>1, <2>2, <2>3 DEF H, D
<1>4. QED
  BY <1>2, <1>3 DEF InRing

LEMMA CalcIsOK ==
  ASSUME IInv, calc
  PROVE  IInv'
<1> DEFINE b == Head(todo)
<1>1. /\ ~ running /\ todo # <<>>
      /\ src' = b /\ todo' = Tail(todo)
      /\ i' = 0 /\ skip' = 0 /\ m_left' = 0
      /\ m_head3b' = EmptyHeads
      /\ walk' = NoWalk
      /\ finished_bytes' = 0 /\ reported' = 0
      /\ level' = level /\ racing' = racing
  BY DEF calc
<1>2. b \in Seq(Bytes) /\ todo' \in Seq(Seq(Bytes)) /\ Len(b) \in Nat
  <2>1. todo \in Seq(Seq(Bytes))
    BY DEF IInv, Typed
  <2>2. QED
    BY <1>1, <2>1
<1> HIDE DEF b
<1>3. IF Len(b) <= ShortBlock
      THEN /\ res' = [k \in 1 .. Len(b) |-> literal(b[k])]
           /\ m_hash' = EmptyRing
           /\ running' = FALSE
      ELSE /\ res' = <<>>
           /\ m_hash' = [s \in 0 .. HashBufferSize - 1 |->
                           IF s < Len(b) /\ s < DeflateRepeatLenMax
                           THEN s ELSE NoByte]
           /\ running' = TRUE
  BY <1>1 DEF calc
<1>4. /\ level' \in Levels /\ racing' \in BOOLEAN
      /\ walk' \in Walks /\ walk'.len = 0
      /\ i' \in Nat /\ skip' \in Nat /\ i' + skip' <= Len(src')
      /\ m_left' \in 0 .. i' /\ finished_bytes' \in Nat /\ reported' \in Nat
  <2>1. level' \in Levels /\ racing' \in BOOLEAN
    BY <1>1 DEF IInv, Typed
  <2>2. walk' \in Walks /\ walk'.len = 0
    BY <1>1 DEF NoWalk, Walks
  <2>3. QED
    BY <1>1, <1>2, <2>1, <2>2
<1>5. m_head3b' \in [Keys -> Seq(Nat)] /\ ListsOK'
  <2>1. /\ m_head3b' \in [Keys -> Seq(Nat)]
        /\ \A key \in Keys : ListOf(b, 0, key, m_head3b'[key])
    BY <1>1, EmptyListsOK
  <2>2. QED
    BY <1>1, <2>1 DEF ListsOK
<1>6. WalkOK'
  BY <1>1 DEF WalkOK
<1>7. CASE Len(b) <= ShortBlock
  <2>1. /\ res' = [k \in 1 .. Len(b) |-> literal(b[k])]
        /\ m_hash' = EmptyRing
        /\ running' = FALSE
    BY <1>3, <1>7
  <2>2. b \in Seq(Nat)
    BY <1>2, BytesAreNumbers
  <2>3. \A k \in 1 .. Len(b) : /\ literal(b[k]) \in Items
                               /\ literal(b[k]).type = "literal"
    BY <1>2, <2>2 DEF literal, Items
  <2>4. /\ res' \in Seq(Items) /\ Len(res') = Len(b)
        /\ \A k \in 1 .. Len(b) : res'[k].type = "literal"
    <3> HIDE DEF Items
    <3>1. QED
      BY <1>2, <2>1, <2>3
  <2>5. Typed'
    <3>1. m_hash' \in [0 .. HashBufferSize - 1 -> Positions' \cup {NoByte}]
      BY <2>1 DEF EmptyRing
    <3>2. QED
      BY <1>1, <1>2, <1>4, <1>5, <2>1, <2>4, <3>1, Zenon DEF Typed
  <2>6. ItemsLegal'
    BY <2>4 DEF ItemsLegal
  <2>7. RingOK' /\ Counted'
    <3>1. ~ (n > ShortBlock)'
      BY <1>1, <1>2, <1>7, Constants DEF n
    <3>2. QED
      BY <2>1, <3>1 DEF RingOK, Counted
  <2>8. RoundTrip'
    <3>1. Inflated(res') = b
      BY <2>1, <2>2, InflatedLiterals
    <3>2. SubSeq(b, 1, Len(b)) = b
      BY <2>2
    <3>3. QED
      BY <1>1, <2>1, <3>1, <3>2 DEF RoundTrip, n
  <2>9. QED
    BY <1>5, <1>6, <2>5, <2>6, <2>7, <2>8 DEF IInv
<1>8. CASE ~ (Len(b) <= ShortBlock)
  <2> DEFINE e == <<>>
  <2>1. /\ res' = e
        /\ m_hash' = [s \in 0 .. HashBufferSize - 1 |->
                        IF s < Len(b) /\ s < DeflateRepeatLenMax
                        THEN s ELSE NoByte]
        /\ running' = TRUE
    BY <1>3, <1>8
  <2>2. Len(e) = 0 /\ e \in Seq(Items) /\ SubSeq(b, 1, 0) = e /\ Inflated(e) = e
    BY <1>2, InflatedNothing
  <2> HIDE DEF e
  <2>3. /\ m_hash' \in [0 .. HashBufferSize - 1 -> 0 .. Len(b) - 1 \cup {NoByte}]
        /\ InRing(b, 0, m_hash')
    BY <1>2, <2>1, FilledRing
  <2>4. Typed'
    <3>1. m_hash' \in [0 .. HashBufferSize - 1 -> Positions' \cup {NoByte}]
      BY <1>1, <2>3 DEF Positions, n
    <3>2. QED
      BY <1>1, <1>2, <1>4, <1>5, <2>1, <2>2, <3>1, Zenon DEF Typed
  <2>5. ItemsLegal'
    BY <2>1, <2>2 DEF ItemsLegal
  <2>6. RingOK'
    BY <1>1, <2>3 DEF RingOK
  <2>7. Counted'
    BY <1>1, <2>1, Constants DEF Counted
  <2>8. RoundTrip'
    BY <1>1, <2>1, <2>2 DEF RoundTrip, n
  <2>9. QED
    BY <1>5, <1>6, <2>4, <2>5, <2>6, <2>7, <2>8 DEF IInv
<1>9. QED
  BY <1>7, <1>8

LEMMA ProgressIsCounted ==
  ASSUME reported \in Nat, NEW bytes \in Nat, progress(bytes)
  PROVE  /\ reported' \in Nat /\ finished_bytes' \in Nat
         /\ reported' + finished_bytes' = reported + bytes
         /\ finished_bytes' <= ReportOver
BY Constants DEF progress

\* The parts of Typed that a round which ends does not settle.
LEMMA TypedAfterRound ==
  ASSUME Typed, RoundEnded, res' \in Seq(Items),
         skip' \in Nat, i' + skip' <= Len(src'),
         finished_bytes' \in Nat, reported' \in Nat
  PROVE  Typed'
<1>1. /\ level' \in Levels /\ racing' \in BOOLEAN /\ todo' \in Seq(Seq(Bytes))
      /\ src' \in Seq(Bytes) /\ running' \in BOOLEAN
  BY DEF Typed, RoundEnded
<1>2. m_hash' \in [0 .. HashBufferSize - 1 -> Positions' \cup {NoByte}]
  BY DEF RoundEnded, Positions, n
<1>3. walk'.len \in {0} \cup 3 .. DeflateRepeatLenMax
  BY DEF RoundEnded
<1>4. QED
  BY <1>1, <1>2, <1>3, Zenon DEF Typed, RoundEnded

LEMMA SkipIsOK ==
  ASSUME IInv, Skip
  PROVE  IInv'
<1>1. /\ running /\ skip > 0 /\ skip' = skip - 1 /\ end_of_round
      /\ res' = res /\ finished_bytes' = finished_bytes /\ reported' = reported
  BY DEF Skip, AtCursor
<1>2. RoundEnded
  BY <1>1, EndOfRound DEF IInv
<1>3. /\ i \in Nat /\ skip \in Nat /\ i + skip <= Len(src) /\ Len(src) \in Nat
      /\ res \in Seq(Items) /\ finished_bytes \in Nat /\ reported \in Nat
  BY DEF IInv, Typed
<1>4. i' = i + 1 /\ src' = src /\ running' = running
  BY <1>2 DEF RoundEnded
<1>5. skip' \in Nat /\ i' + skip' = i + skip
  BY <1>1, <1>3, <1>4
<1>6. Typed'
  BY <1>1, <1>2, <1>3, <1>4, <1>5, TypedAfterRound DEF IInv
<1>7. ItemsLegal'
  BY <1>1 DEF IInv, ItemsLegal
<1>8. Counted'
  BY <1>1, <1>4, <1>5 DEF IInv, Counted, n
<1>9. RoundTrip'
  BY <1>1, <1>4, <1>5 DEF IInv, RoundTrip, n
<1>10. QED
  BY <1>2, <1>6, <1>7, <1>8, <1>9 DEF IInv, RoundEnded

LEMMA LegalItemsArePaired ==
  ASSUME ItemsLegal
  PROVE  Paired(res)
BY DEF ItemsLegal, Paired

LEMMA LiteralIsOK ==
  ASSUME IInv, Literal
  PROVE  IInv'
<1> DEFINE b == src[i + 1]
           x == literal(b)
<1>1. /\ running /\ i < n /\ skip = 0 /\ skip' = skip /\ end_of_round
      /\ res' = Append(res, x)
      /\ progress(finished_bytes + 1)
  BY DEF Literal, AtCursor, Byte
<1>2. RoundEnded
  BY <1>1, EndOfRound DEF IInv
<1>3. /\ i \in Nat /\ Len(src) \in Nat /\ src \in Seq(Bytes)
      /\ res \in Seq(Items) /\ finished_bytes \in Nat /\ reported \in Nat
  BY DEF IInv, Typed
<1>4. i' = i + 1 /\ src' = src /\ running' = running
  BY <1>2 DEF RoundEnded
<1>5. i + 1 <= Len(src) /\ src \in Seq(Nat) /\ b \in Nat
  <2>1. i + 1 \in 1 .. Len(src)
    BY <1>1, <1>3 DEF n
  <2>2. src \in Seq(Nat)
    BY <1>3, BytesAreNumbers
  <2>3. QED
    BY <2>1, <2>2
<1> HIDE DEF b
<1>6. x \in Items /\ x.type = "literal"
  BY <1>5 DEF literal, Items
<1>7. /\ reported' \in Nat /\ finished_bytes' \in Nat
      /\ reported' + finished_bytes' = reported + (finished_bytes + 1)
      /\ finished_bytes' <= ReportOver
  BY <1>1, <1>3, ProgressIsCounted
<1>8. Typed'
  <2>1. res' \in Seq(Items)
    <3> HIDE DEF x, Items
    <3>1. QED
      BY <1>1, <1>3, <1>6
  <2>2. skip' \in Nat /\ i' + skip' <= Len(src')
    BY <1>1, <1>3, <1>4, <1>5
  <2>3. QED
    BY <1>2, <1>7, <2>1, <2>2, TypedAfterRound DEF IInv
<1>9. ItemsLegal'
  <2> HIDE DEF x, Items
  <2>1. /\ Len(res) \in Nat /\ Len(res') = Len(res) + 1 /\ res'[Len(res) + 1] = x
        /\ \A k \in 1 .. Len(res) : res'[k] = res[k]
    BY <1>1, <1>3, <1>6
  <2>2. ASSUME NEW k \in 1 .. Len(res')
        PROVE  /\ res'[k].type = "length" =>
                    /\ res'[k].val \in 3 .. DeflateRepeatLenMax
                    /\ k < Len(res') /\ res'[k + 1].type = "distance"
               /\ res'[k].type = "distance" =>
                    /\ res'[k].val \in 1 .. LZ77DictionarySize
                    /\ k > 1 /\ res'[k - 1].type = "length"
    <3>1. CASE k = Len(res) + 1
      BY <1>6, <2>1, <3>1
    <3>2. CASE k \in 1 .. Len(res)
      <4>1. res'[k] = res[k]
        BY <2>1, <3>2
      <4>2. /\ res[k].type = "length" =>
                 /\ res[k].val \in 3 .. DeflateRepeatLenMax
                 /\ k < Len(res) /\ res[k + 1].type = "distance"
            /\ res[k].type = "distance" =>
                 /\ res[k].val \in 1 .. LZ77DictionarySize
                 /\ k > 1 /\ res[k - 1].type = "length"
        BY <3>2 DEF IInv, ItemsLegal
      <4>3. k < Len(res) => k + 1 \in 1 .. Len(res)
        BY <2>1, <3>2
      <4>4. k > 1 => k - 1 \in 1 .. Len(res)
        BY <2>1, <3>2
      <4>5. QED
        BY <2>1, <3>2, <4>1, <4>2, <4>3, <4>4
    <3>3. QED
      BY <2>1, <3>1, <3>2
  <2>3. QED
    BY <2>2 DEF ItemsLegal
<1>10. Counted'
  <2>1. reported + finished_bytes = i
    BY <1>1, <1>3 DEF IInv, Counted
  <2>2. reported' + finished_bytes' = i' + skip'
    <3>1. i' + skip' = i + 1
      BY <1>1, <1>3, <1>4
    <3>2. reported + (finished_bytes + 1) = i + 1
      BY <1>3, <2>1
    <3>3. QED
      BY <1>7, <3>1, <3>2
  <2>3. QED
    BY <1>1, <1>4, <1>7, <2>2 DEF Counted
<1>11. RoundTrip'
  <2>1. Inflated(res) = SubSeq(src, 1, i)
    BY <1>1, <1>3 DEF IInv, RoundTrip
  <2>2. Inflated(res') = Append(SubSeq(src, 1, i), b)
    <3>1. Paired(res)
      BY LegalItemsArePaired DEF IInv
    <3>2. QED
      BY <1>1, <1>3, <1>5, <2>1, <3>1, InflatedLiteral
  <2>3. Append(SubSeq(src, 1, i), b) = SubSeq(src, 1, i + 1)
    BY <1>3, <1>5 DEF b
  <2>4. i' + skip' = i + 1
    BY <1>1, <1>3, <1>4
  <2>5. QED
    BY <1>1, <1>4, <2>2, <2>3, <2>4 DEF RoundTrip
<1>12. QED
  BY <1>2, <1>8, <1>9, <1>10, <1>11 DEF IInv, RoundEnded

\* A step of a walk changes nothing but the walk and the window.
Walking ==
  /\ level' = level /\ racing' = racing /\ todo' = todo /\ src' = src
  /\ res' = res /\ i' = i /\ skip' = skip
  /\ m_head3b' = m_head3b /\ m_hash' = m_hash
  /\ finished_bytes' = finished_bytes /\ reported' = reported
  /\ running' = running

LEMMA WalkingKeeps ==
  ASSUME IInv, Walking, m_left' \in 0 .. i, walk' \in Walks,
         walk'.len \in {0} \cup 3 .. DeflateRepeatLenMax
  PROVE  /\ Typed' /\ ItemsLegal' /\ ListsOK' /\ RingOK' /\ Counted' /\ RoundTrip'
         /\ chain' = chain /\ n' = n
<1>1. n' = n
  BY DEF Walking, n
<1>2. Typed'
  <2>1. Positions' = Positions
    BY <1>1 DEF Positions
  <2>2. QED
    BY <2>1, Zenon DEF IInv, Typed, Walking
<1>3. ItemsLegal'
  BY DEF IInv, ItemsLegal, Walking
<1>4. ListsOK' /\ RingOK'
  BY DEF IInv, ListsOK, RingOK, Walking
<1>5. Counted' /\ RoundTrip'
  BY <1>1 DEF IInv, Counted, RoundTrip, Walking
<1>6. chain' = chain
  <2>1. chain = m_head3b[HashOf(src, i)]
    BY ChainIs
  <2>2. chain' = m_head3b'[HashOf(src', i')]
    <3>1. (chain = m_head3b[HashOf(src, i)])'
      BY ChainIs, PTL
    <3>2. QED
      BY <3>1
  <2>3. QED
    BY <2>1, <2>2 DEF Walking
<1>7. QED
  BY <1>1, <1>2, <1>3, <1>4, <1>5, <1>6

LEMMA StartWalkIsOK ==
  ASSUME IInv, StartWalk
  PROVE  IInv'
<1>1. /\ Walking /\ running /\ i < n /\ skip = 0 /\ InWindow(1)
      /\ walk' = [at |-> 1, checked |-> 0, max_check |-> level.chain,
                  len |-> 0, pos |-> 0]
      /\ m_left' = left
  BY DEF StartWalk, AtCursor, Walking
<1>2. level.chain \in Nat
  BY LZ77Assumption DEF IInv, Typed
<1>3. walk' \in Walks /\ walk'.len = 0 /\ walk'.at = 1
  BY <1>1, <1>2 DEF Walks
<1>4. left \in 0 .. i
  BY LeftFacts DEF IInv
<1>5. /\ Typed' /\ ItemsLegal' /\ ListsOK' /\ RingOK' /\ Counted' /\ RoundTrip'
      /\ chain' = chain /\ n' = n
  BY <1>1, <1>3, <1>4, WalkingKeeps
<1>6. left' = left
  BY <1>1 DEF left, Walking
<1>7. InWindow(1)'
  BY <1>1, <1>5, <1>6 DEF InWindow
<1>8. WalkOK'
  BY <1>1, <1>3, <1>5, <1>7 DEF WalkOK, Walking
<1>9. QED
  BY <1>5, <1>8 DEF IInv

LEMMA ReturnIsOK ==
  ASSUME IInv, Return
  PROVE  IInv'
<1>1. /\ running /\ i = n /\ running' = FALSE
      /\ level' = level /\ racing' = racing /\ todo' = todo /\ src' = src
      /\ res' = res /\ i' = i /\ skip' = skip /\ m_left' = m_left
      /\ m_head3b' = m_head3b /\ m_hash' = m_hash /\ walk' = walk
      /\ finished_bytes' = finished_bytes /\ reported' = reported
  BY DEF Return
<1>2. n' = n /\ n \in Nat /\ i + skip = n
  BY <1>1 DEF IInv, Typed, n
<1>3. Typed'
  <2>1. Positions' = Positions
    BY <1>2 DEF Positions
  <2>2. running' \in BOOLEAN
    BY <1>1
  <2>3. QED
    BY <1>1, <2>1, <2>2, Zenon DEF IInv, Typed
<1>4. ItemsLegal' /\ ListsOK' /\ RingOK'
  BY <1>1 DEF IInv, ItemsLegal, ListsOK, RingOK
<1>5. WalkOK'
  <2>1. walk = NoWalk
    BY <1>1, <1>2 DEF IInv, WalkOK
  <2>2. QED
    BY <1>1, <2>1 DEF WalkOK
<1>6. Counted' /\ RoundTrip'
  BY <1>1, <1>2 DEF IInv, Counted, RoundTrip
<1>7. QED
  BY <1>3, <1>4, <1>5, <1>6 DEF IInv

-------------------------------------------------------------------------------
(* A position of the list is looked at.                                    *)

LEMMA ExtendedIs ==
  ASSUME src \in Seq(Nat), i \in Nat, NEW pos \in Nat, NEW len \in Nat,
         len <= DeflateRepeatLenMax, i + len <= Len(src)
  PROVE  /\ Extended(pos, len) \in len .. DeflateRepeatLenMax
         /\ IsReach(src, pos, i, len, Extended(pos, len))
<1>1. \E l \in len .. DeflateRepeatLenMax : IsReach(src, pos, i, len, l)
  BY ReachExists
<1>2. Extended(pos, len)
      = CHOOSE l \in len .. DeflateRepeatLenMax : IsReach(src, pos, i, len, l)
  BY Zenon DEF Extended, IsReach, SameBytes, Agree, Byte, n
<1>3. QED
  BY <1>1, <1>2

LEMMA CommonIs ==
  ASSUME src \in Seq(Nat), i \in Nat, i <= Len(src), NEW pos \in Nat
  PROVE  /\ Common(pos) \in 0 .. DeflateRepeatLenMax
         /\ IsReach(src, pos, i, 0, Common(pos))
<1>1. \E l \in 0 .. DeflateRepeatLenMax : IsReach(src, pos, i, 0, l)
  BY ReachExists, Constants
<1>2. Common(pos)
      = CHOOSE l \in 0 .. DeflateRepeatLenMax : IsReach(src, pos, i, 0, l)
  BY Zenon DEF Common, IsReach, SameBytes, Agree, Byte, n
<1>3. QED
  BY <1>1, <1>2

LEMMA AgreeOn ==
  ASSUME NEW s, NEW p, NEW q, NEW a \in Nat, NEW b \in Nat, a <= b
  PROVE  /\ Agree(s, p, q, 0, a) /\ Agree(s, p, q, a, b) => Agree(s, p, q, 0, b)
         /\ Agree(s, p, q, 0, b) => Agree(s, p, q, 0, a) /\ Agree(s, p, q, a, b)
<1>1. 0 .. b - 1 = (0 .. a - 1) \cup (a .. b - 1)
  OBVIOUS
<1>2. QED
  BY <1>1 DEF Agree

\* In the ring both slots of a run that begins in the window, and not at its
\* first position, are what get_hash asks for.
LEMMA RingIsIntact ==
  ASSUME Len(src) \in Nat, i \in Nat, InRing(src, i, m_hash),
         NEW pos \in Nat, NEW len \in 1 .. DeflateRepeatLenMax,
         pos <= i, i - pos < LZ77DictionarySize, i + len <= Len(src)
  PROVE  Intact(pos, len)
<1>1. LZ77DictionarySize \in Nat /\ DeflateRepeatLenMax \in Nat
  BY Constants
<1> DEFINE e == pos + len - 1
<1>2. m_hash[e % HashBufferSize] = e
  <2>1. e \in 0 .. Len(src) - 1 /\ i - LZ77DictionarySize <= e
        /\ e < i + DeflateRepeatLenMax
    BY <1>1
  <2> HIDE DEF e
  <2>2. QED
    BY <2>1 DEF InRing
<1>3. ASSUME pos > 0
      PROVE  m_hash[(pos - 1) % HashBufferSize] = pos - 1
  <2> DEFINE f == pos - 1
  <2>1. f \in 0 .. Len(src) - 1 /\ i - LZ77DictionarySize <= f
        /\ f < i + DeflateRepeatLenMax
    BY <1>1, <1>3
  <2> HIDE DEF f
  <2>2. m_hash[f % HashBufferSize] = f
    BY <2>1 DEF InRing
  <2>3. QED
    BY <2>2 DEF f
<1>4. QED
  BY <1>2, <1>3 DEF Intact

\* With the ring intact, bytes that agree are not turned down.
LEMMA AgreementIsSeen ==
  ASSUME NEW pos, NEW len, Intact(i, len), Intact(pos, len),
         Agree(src, pos, i, 0, len), Agree(src, pos, i, 3, len), ~ racing
  PROVE  Checks(pos, len) = {TRUE}
<1>1. SameBytes(pos, i, 0, len) /\ SameBytes(pos, i, 3, len)
  BY BlockFacts
<1>2. HashesAgree(pos, i, len) = {TRUE}
  BY <1>1, Zenon DEF HashesAgree
<1>3. (TRUE /\ SameBytes(pos, i, 3, len)) = TRUE
  BY <1>1, Zenon
<1>4. QED
  BY <1>2, <1>3, Zenon DEF Checks

LEMMA CandidateIsOK ==
  ASSUME IInv, Candidate
  PROVE  IInv'
<1> DEFINE pos == chain[walk.at]
           base == IF walk.len = 0 THEN 3 ELSE walk.len
           D == DeflateRepeatLenMax
           W == LZ77DictionarySize
<1>1. running /\ InWindow(walk.at) /\ Walking /\ m_left' = m_left
  BY DEF Candidate, Walking
<1>2. /\ i \in Nat /\ Len(src) \in Nat /\ src \in Seq(Nat) /\ walk \in Walks
      /\ walk.at \in Nat /\ walk.checked \in Nat /\ walk.max_check \in Nat
      /\ walk.len \in {0} \cup 3 .. D /\ walk.pos \in Nat
      /\ m_left \in 0 .. i
  <2>1. walk \in Walks /\ src \in Seq(Bytes)
    BY DEF IInv, Typed
  <2>2. src \in Seq(Nat)
    BY <2>1, BytesAreNumbers
  <2>3. QED
    BY <2>1, <2>2 DEF IInv, Typed, Walks
<1>3. D \in Nat /\ D >= 3 /\ W \in Nat \ {0}
  BY Constants
<1>4. /\ chain \in Seq(Nat) /\ Len(chain) \in Nat
      /\ ListOf(src, i, HashOf(src, i), chain)
  BY ChainFacts DEF IInv
<1>5. walk.at \in 1 .. Len(chain) /\ pos >= left
  BY <1>1 DEF InWindow
<1>6. /\ walk # NoWalk /\ i < n /\ skip = 0
      /\ walk.len = 0 => walk.at = 1
      /\ walk.len # 0 =>
           /\ walk.pos \in left .. i - 1
           /\ Found(src, i, walk)
           /\ \E y \in 1 .. Len(chain) : y < walk.at /\ chain[y] = walk.pos
           /\ ~ racing => Passed(src, i, chain, walk)
  <2>1. walk # NoWalk
    BY <1>5 DEF NoWalk
  <2>2. walk.at # 0
    BY <1>5
  <2>3. QED
    BY <2>1, <2>2 DEF IInv, WalkOK
<1>7. left \in 0 .. i /\ left' = left
  <2>1. left \in 0 .. i
    BY LeftFacts DEF IInv
  <2>2. left' = left
    BY <1>1 DEF left, Walking
  <2>3. QED
    BY <2>1, <2>2
<1> HIDE DEF D, W, pos
<1>8. /\ pos \in Nat /\ pos < i /\ pos \in left .. i - 1
      /\ i + 3 <= Len(src) /\ Agree(src, pos, i, 0, 3)
  <2>1. pos \in 0 .. i - 1 /\ HashOf(src, pos) = HashOf(src, i)
    BY <1>4, <1>5 DEF ListOf, pos
  <2>2. i < Len(src)
    BY <1>6 DEF n
  <2>3. i + 3 <= Len(src) /\ Agree(src, pos, i, 0, 3)
    BY <1>2, <2>1, <2>2, SameHash
  <2>4. QED
    BY <1>2, <1>5, <1>7, <2>1, <2>3 DEF pos
<1>9. base \in 3 .. D /\ i + base <= Len(src)
  <2>1. walk.len # 0 => i + walk.len <= Len(src)
    BY <1>6 DEF Found
  <2>2. QED
    BY <1>2, <1>3, <1>8, <2>1
<1>10. PICK base_ok \in Checks(pos, base) :
         LET len == IF base_ok THEN Extended(pos, base) ELSE 0
             better == len > walk.len
             max_check ==
               IF ~ better THEN walk.max_check
               ELSE IF len >= level.nice THEN level.chain \div 16
               ELSE IF len >= level.good THEN level.chain \div 4
               ELSE walk.max_check
             found == [walk EXCEPT !.checked = @ + 1, !.max_check = max_check,
                         !.len = IF better THEN len ELSE @,
                         !.pos = IF better THEN pos ELSE @]
         IN walk' = IF \/ better /\ len >= level.perfect
                       \/ found.checked >= max_check
                    THEN [found EXCEPT !.at = 0]
                    ELSE [found EXCEPT !.at = @ + 1]
  BY DEF Candidate, pos
<1> HIDE DEF base
<1> DEFINE len == IF base_ok THEN Extended(pos, base) ELSE 0
           better == len > walk.len
           max_check ==
             IF ~ better THEN walk.max_check
             ELSE IF len >= level.nice THEN level.chain \div 16
             ELSE IF len >= level.good THEN level.chain \div 4
             ELSE walk.max_check
           found == [walk EXCEPT !.checked = @ + 1, !.max_check = max_check,
                       !.len = IF better THEN len ELSE @,
                       !.pos = IF better THEN pos ELSE @]
<1>11. walk' = IF \/ better /\ len >= level.perfect
                  \/ found.checked >= max_check
               THEN [found EXCEPT !.at = 0]
               ELSE [found EXCEPT !.at = @ + 1]
  BY <1>10
<1>12. /\ base_ok => /\ len \in base .. D /\ IsReach(src, pos, i, base, len)
                     /\ Agree(src, pos, i, 0, base) /\ Agree(src, pos, i, 0, len)
                     /\ i + len <= Len(src)
       /\ ~ base_ok => len = 0 /\ base > 3
       /\ len \in Nat
  <2>1. CASE base_ok
    <3>1. len = Extended(pos, base)
      BY <2>1
    <3>2. len \in base .. D /\ IsReach(src, pos, i, base, len)
      <4> HIDE DEF len
      <4>1. base \in Nat /\ base <= D
        BY <1>3, <1>9
      <4>2. QED
        BY <1>2, <1>8, <1>9, <3>1, <4>1, ExtendedIs DEF D
    <3>3. Agree(src, pos, i, 0, base)
      <4>1. CASE base = 3
        BY <1>8, <4>1
      <4>2. CASE base > 3
        <5>1. SameBytes(pos, i, 3, base)
          <6>1. Checks(pos, base) = {agree /\ SameBytes(pos, i, 3, base) :
                                       agree \in HashesAgree(pos, i, base)}
            BY <4>2, Zenon DEF Checks
          <6>2. QED
            BY <2>1, <6>1, Zenon
        <5>2. Agree(src, pos, i, 3, base)
          BY <5>1, BlockFacts
        <5>3. base \in Nat /\ 3 <= base
          BY <1>3, <1>9
        <5>4. QED
          BY <1>8, <5>2, <5>3, AgreeOn
      <4>3. QED
        BY <1>3, <1>9, <4>1, <4>2
    <3> HIDE DEF len
    <3>4. Agree(src, pos, i, 0, len)
      <4>1. base \in Nat /\ len \in Nat /\ base <= len
        BY <1>3, <1>9, <3>2
      <4>2. QED
        BY <3>2, <3>3, <4>1, AgreeOn DEF IsReach
    <3>5. i + len <= Len(src) /\ len \in Nat
      BY <1>3, <1>9, <3>2 DEF IsReach
    <3>6. QED
      BY <2>1, <3>2, <3>3, <3>4, <3>5
  <2>2. CASE ~ base_ok
    <3>1. len = 0
      BY <2>2
    <3>2. base > 3
      <4>1. SUFFICES ASSUME ~ (base > 3) PROVE FALSE
        OBVIOUS
      <4>2. Checks(pos, base) = {TRUE}
        BY <4>1, Zenon DEF Checks
      <4>3. QED
        BY <2>2, <4>2, Zenon
    <3> HIDE DEF len
    <3>3. QED
      BY <2>2, <3>1, <3>2
  <2>3. QED
    BY <2>1, <2>2
<1>13. max_check \in Nat
  <2>1. level.chain \in Nat
    BY LZ77Assumption DEF IInv, Typed
  <2> DEFINE c == level.chain
  <2>2. c \div 16 \in Nat /\ c \div 4 \in Nat
    <3>1. c \in Nat
      BY <2>1
    <3>2. 16 \in Nat \ {0} /\ 4 \in Nat \ {0}
      OBVIOUS
    <3> HIDE DEF c
    <3>3. QED
      BY <3>1, <3>2, DivIs
  <2> HIDE DEF len
  <2>3. QED
    BY <1>2, <2>2 DEF c
<1> HIDE DEF len, max_check
<1>14. /\ walk' \in Walks
       /\ walk'.len = IF better THEN len ELSE walk.len
       /\ walk'.pos = IF better THEN pos ELSE walk.pos
       /\ walk'.at \in {0, walk.at + 1}
       /\ walk'.at = 0 => \/ better /\ len >= level.perfect
                          \/ walk'.checked >= walk'.max_check
  <2>1. /\ found \in Walks
        /\ found.len = IF better THEN len ELSE walk.len
        /\ found.pos = IF better THEN pos ELSE walk.pos
        /\ found.at = walk.at
        /\ found.max_check = max_check
    <3> DEFINE ln == IF better THEN len ELSE walk.len
               ps == IF better THEN pos ELSE walk.pos
               ch == walk.checked + 1
    <3>1. ln \in Nat /\ ps \in Nat /\ ch \in Nat
      <4>1. walk.len \in Nat
        BY <1>2, <1>3
      <4>2. QED
        BY <1>2, <1>8, <1>12, <4>1, SMTT(30)
    <3> HIDE DEF ln, ps, ch
    <3>2. found = [walk EXCEPT !.checked = ch, !.max_check = max_check,
                     !.len = ln, !.pos = ps]
      BY DEF ln, ps, ch
    <3> HIDE DEF found
    <3>3. /\ found \in Walks /\ found.len = ln /\ found.pos = ps
          /\ found.at = walk.at /\ found.max_check = max_check
      BY <1>2, <1>13, <3>1, <3>2 DEF Walks
    <3>4. QED
      BY <3>3 DEF ln, ps
  <2> HIDE DEF found, better
  <2>2. CASE (better /\ len >= level.perfect) \/ found.checked >= max_check
    <3>1. walk' = [found EXCEPT !.at = 0]
      BY <1>11, <2>2
    <3>2. QED
      BY <2>1, <2>2, <3>1 DEF Walks
  <2>3. CASE ~ ((better /\ len >= level.perfect) \/ found.checked >= max_check)
    <3>1. walk' = [found EXCEPT !.at = @ + 1]
      BY <1>11, <2>3
    <3>2. QED
      BY <1>2, <2>1, <3>1, SMTT(30) DEF Walks
  <2>4. QED
    BY <2>2, <2>3
<1> HIDE DEF found
<1>15. walk.len = 0 => base_ok /\ base = 3 /\ better
  <2>1. SUFFICES ASSUME walk.len = 0 PROVE base_ok /\ base = 3 /\ better
    OBVIOUS
  <2>2. base = 3
    BY <2>1 DEF base
  <2>3. base_ok
    BY <1>12, <2>2
  <2>4. len >= 3
    BY <1>3, <1>12, <2>2, <2>3
  <2>5. QED
    BY <1>12, <2>1, <2>2, <2>3, <2>4
<1>16. better => base_ok
  BY <1>2, <1>12
<1>17. walk'.len \in 3 .. D
  <2>1. CASE better
    BY <1>3, <1>9, <1>12, <1>14, <1>16, <2>1
  <2>2. CASE ~ better
    BY <1>2, <1>14, <1>15, <2>2
  <2>3. QED
    BY <2>1, <2>2
<1>18. /\ Typed' /\ ItemsLegal' /\ ListsOK' /\ RingOK' /\ Counted' /\ RoundTrip'
       /\ chain' = chain /\ n' = n
  <2>1. m_left' \in 0 .. i
    BY <1>1, <1>2
  <2>2. walk'.len \in {0} \cup 3 .. DeflateRepeatLenMax
    BY <1>17 DEF D
  <2>3. QED
    BY <1>1, <1>14, <2>1, <2>2, WalkingKeeps
<1>19. walk'.pos \in left' .. i' - 1 /\ Found(src', i', walk')
  <2>1. i' = i /\ src' = src
    BY <1>1 DEF Walking
  <2>2. CASE better
    <3>1. walk'.pos = pos /\ walk'.len = len
      BY <1>14, <2>2
    <3>2. Found(src, i, walk')
      BY <1>12, <1>16, <2>2, <3>1 DEF Found
    <3>3. QED
      BY <1>7, <1>8, <2>1, <3>1, <3>2
  <2>3. CASE ~ better
    <3>1. walk'.pos = walk.pos /\ walk'.len = walk.len /\ walk.len # 0
      BY <1>14, <1>15, <2>3
    <3>2. Found(src, i, walk')
      BY <1>6, <3>1 DEF Found
    <3>3. QED
      BY <1>6, <1>7, <2>1, <3>1, <3>2
  <2>4. QED
    BY <2>2, <2>3
<1>20. ASSUME walk'.at # 0
       PROVE  \E y \in 1 .. Len(chain) : y < walk'.at /\ chain[y] = walk'.pos
  <2>1. walk'.at = walk.at + 1
    BY <1>14, <1>20
  <2>2. CASE better
    <3>1. walk'.pos = chain[walk.at]
      BY <1>14, <2>2 DEF pos
    <3>2. walk.at < walk'.at
      BY <1>2, <2>1
    <3>3. QED
      BY <1>5, <3>1, <3>2
  <2>3. CASE ~ better
    <3>1. walk'.pos = walk.pos /\ walk.len # 0
      BY <1>14, <1>15, <2>3
    <3>2. PICK y \in 1 .. Len(chain) : y < walk.at /\ chain[y] = walk.pos
      BY <1>6, <3>1
    <3>3. y < walk'.at
      BY <1>2, <2>1, <3>2
    <3>4. QED
      BY <3>1, <3>2, <3>3
  <2>4. QED
    BY <2>2, <2>3
<1>21. ASSUME walk'.at # 0, ~ racing
       PROVE  Passed(src, i, chain, walk')
  <2>1. walk'.at = walk.at + 1
    BY <1>14, <1>21
  <2>2. SUFFICES ASSUME NEW x \in 1 .. Len(chain), x < walk'.at, i - chain[x] < W,
                        NEW l \in 0 .. D, IsReach(src, chain[x], i, 0, l)
                 PROVE  l < walk'.len \/ (l = walk'.len /\ chain[x] <= walk'.pos)
    BY DEF Passed, W, D
  <2>3. l \in Nat /\ x \in Nat /\ chain[x] \in Nat
    BY <1>3, <1>4, <2>2
  <2>4. CASE x < walk.at
    <3>1. walk.len # 0
      BY <1>2, <1>6, <2>3, <2>2, <2>4
    <3>2. l < walk.len \/ (l = walk.len /\ chain[x] <= walk.pos)
      BY <1>6, <1>21, <2>2, <2>4, <3>1 DEF Passed, W, D
    <3>3. CASE better
      <4>1. walk'.len = len /\ len > walk.len
        BY <1>14, <3>3
      <4>2. l <= walk.len /\ walk.len \in Nat /\ len \in Nat
        BY <1>2, <1>12, <2>3, <3>2, SMTT(30)
      <4>3. QED
        BY <2>3, <4>1, <4>2
    <3>4. CASE ~ better
      BY <1>14, <3>2, <3>4
    <3>5. QED
      BY <3>3, <3>4
  <2>5. CASE x = walk.at
    <3>1. IsReach(src, pos, i, 0, l) /\ chain[x] = pos /\ i - pos < W
      BY <2>2, <2>5 DEF pos
    <3>2. CASE base_ok
      <4>1. l = len
        <5>1. Agree(src, pos, i, 0, 0)
          BY DEF Agree
        <5>2. base \in Nat
          BY <1>3, <1>9
        <5>3. QED
          BY <1>2, <1>8, <1>12, <2>2, <3>1, <3>2, <5>1, <5>2, ReachUnique, SMTT(30) DEF D
      <4>2. CASE better
        BY <1>8, <1>14, <3>1, <4>1, <4>2
      <4>3. CASE ~ better
        <5>1. walk'.pos = walk.pos /\ walk'.len = walk.len /\ walk.len # 0
          BY <1>14, <1>15, <4>3
        <5>2. PICK y \in 1 .. Len(chain) : y < walk.at /\ chain[y] = walk.pos
          BY <1>6, <5>1
        <5>3. walk.pos > pos
          BY <1>4, <1>5, <5>2 DEF ListOf, pos
        <5>4. l <= walk.len
          BY <1>2, <1>12, <4>1, <4>3
        <5>5. QED
          BY <1>2, <1>8, <2>3, <3>1, <5>1, <5>3, <5>4, SMTT(30)
      <4>4. QED
        BY <4>2, <4>3
    <3>3. CASE ~ base_ok
      <4>1. ~ better /\ walk.len # 0 /\ base = walk.len /\ base > 3
        BY <1>12, <1>15, <1>16, <3>3 DEF base
      <4>2. ~ Agree(src, pos, i, 0, base)
        <5>1. SUFFICES ASSUME Agree(src, pos, i, 0, base) PROVE FALSE
          OBVIOUS
        <5>2. InRing(src, i, m_hash)
          BY <1>1 DEF IInv, RingOK
        <5>3. base \in 1 .. DeflateRepeatLenMax /\ base \in Nat /\ 3 <= base
          BY <1>3, <1>9 DEF D
        <5>4. Intact(pos, base)
          BY <1>2, <1>8, <1>9, <3>1, <5>2, <5>3, RingIsIntact DEF W
        <5>5. Intact(i, base)
          <6>1. i <= i /\ i - i < LZ77DictionarySize
            BY <1>2, <1>3 DEF W
          <6>2. QED
            BY <1>2, <1>9, <5>2, <5>3, <6>1, RingIsIntact
        <5>6. Agree(src, pos, i, 3, base)
          BY <5>1, <5>3, AgreeOn
        <5>7. Checks(pos, base) = {TRUE}
          BY <1>21, <5>1, <5>4, <5>5, <5>6, AgreementIsSeen
        <5>8. QED
          BY <3>3, <5>7, Zenon
      <4>3. l < base
        <5>1. SUFFICES ASSUME base <= l PROVE FALSE
          BY <1>3, <1>9, <2>3
        <5>2. base \in Nat
          BY <1>3, <1>9
        <5>3. QED
          BY <2>3, <3>1, <4>2, <5>1, <5>2, AgreeOn DEF IsReach
      <4>4. QED
        BY <1>14, <4>1, <4>3
    <3>4. QED
      BY <3>2, <3>3
  <2>6. QED
    BY <1>2, <2>1, <2>2, <2>3, <2>4, <2>5
<1>22. walk'.at = 0 => walk'.len >= level'.perfect \/ walk'.checked >= walk'.max_check
  BY <1>1, <1>14 DEF Walking
<1>23. WalkOK'
  <2>1. running' /\ i' < n' /\ skip' = 0 /\ i' = i /\ src' = src
        /\ racing' = racing
    BY <1>1, <1>6, <1>18 DEF Walking
  <2>2. walk'.len # 0
    BY <1>17
  <2>3. walk'.at # 0 =>
          /\ \E y \in 1 .. Len(chain') : y < walk'.at /\ chain'[y] = walk'.pos
          /\ ~ racing' => Passed(src', i', chain', walk')
    BY <1>18, <1>20, <1>21, <2>1
  <2>4. QED
    BY <1>19, <1>22, <2>1, <2>2, <2>3 DEF WalkOK
<1>24. QED
  BY <1>18, <1>23 DEF IInv

-------------------------------------------------------------------------------
(* A walk ends in a match.                                                 *)

\* Items that grow by a length and its distance.
GrowsByPair(items, new, l, d) ==
  /\ new \in Seq(Items)
  /\ Len(items) \in Nat /\ Len(new) = Len(items) + 2
  /\ new[Len(items) + 1] = length(l) /\ new[Len(items) + 2] = distance(d)
  /\ \A k \in 1 .. Len(items) : new[k] = items[k]

LEMMA PairIsAppended ==
  ASSUME NEW l \in Nat, NEW d \in Nat, NEW items \in Seq(Items)
  PROVE  GrowsByPair(items, items \o <<length(l), distance(d)>>, l, d)
<1> DEFINE m == Len(items)
           x == length(l)
           y == distance(d)
           z == <<x, y>>
           new == items \o z
<1>1. x \in Items /\ y \in Items
  BY DEF length, distance, Items
<1> HIDE DEF x, y
<1>2. z \in Seq(Items) /\ Len(z) = 2 /\ z[1] = x /\ z[2] = y
  BY <1>1
<1>3. m \in Nat
  OBVIOUS
<1>4. new = items \o z
  OBVIOUS
<1> HIDE DEF z, new, Items
<1>5. /\ new \in Seq(Items) /\ Len(new) = m + Len(z)
      /\ \A k \in 1 .. m + Len(z) :
           new[k] = IF k <= m THEN items[k] ELSE z[k - m]
  <2> HIDE DEF m
  <2>1. QED
    BY <1>2, <1>4, ConcatProperties DEF m
<1> HIDE DEF m
<1>6. /\ (m + 1) - m = 1 /\ (m + 2) - m = 2
      /\ m + 1 \in 1 .. m + 2 /\ m + 2 \in 1 .. m + 2
      /\ ~ (m + 1 <= m) /\ ~ (m + 2 <= m)
      /\ \A k \in 1 .. m : k \in 1 .. m + 2 /\ k <= m
  BY <1>3
<1>7. new[m + 1] = x /\ new[m + 2] = y /\ \A k \in 1 .. m : new[k] = items[k]
  BY <1>2, <1>5, <1>6
<1>8. QED
  BY <1>2, <1>3, <1>5, <1>7 DEF GrowsByPair, m, new, x, y, z

\* A walk that found something, as Match meets it.
LEMMA MatchFacts ==
  ASSUME IInv, running, walk.len > 0
  PROVE  /\ walk # NoWalk /\ i < Len(src) /\ skip = 0
         /\ walk.len \in 3 .. DeflateRepeatLenMax /\ walk.len \in Nat
         /\ walk.pos \in left .. i - 1 /\ walk.pos \in Nat
         /\ i - walk.pos \in 1 .. LZ77DictionarySize /\ i - walk.pos \in Nat
         /\ i + walk.len <= Len(src)
         /\ Agree(src, walk.pos, i, 0, walk.len)
<1>1. walk # NoWalk /\ walk.len # 0
  BY DEF NoWalk
<1>2. /\ i < Len(src) /\ skip = 0 /\ walk.pos \in left .. i - 1
      /\ i + walk.len <= Len(src) /\ Agree(src, walk.pos, i, 0, walk.len)
  BY <1>1 DEF IInv, WalkOK, Found, n
<1>3. walk.len \in {0} \cup 3 .. DeflateRepeatLenMax /\ i \in Nat
  BY DEF IInv, Typed
<1>4. left \in 0 .. i /\ i - left <= LZ77DictionarySize
  BY LeftFacts DEF IInv
<1>5. LZ77DictionarySize \in Nat /\ DeflateRepeatLenMax \in Nat
  BY Constants
<1>6. walk.len \in 3 .. DeflateRepeatLenMax /\ walk.len \in Nat
  BY <1>1, <1>3, <1>5
<1>7. walk.pos \in Nat /\ i - walk.pos \in 1 .. LZ77DictionarySize
      /\ i - walk.pos \in Nat
  BY <1>2, <1>3, <1>4, <1>5
<1>8. QED
  BY <1>1, <1>2, <1>6, <1>7

LEMMA MatchIsOK ==
  ASSUME IInv, Match
  PROVE  IInv'
<1> DEFINE l == walk.len
           d == i - walk.pos
<1>1. /\ running /\ walk.len > 0 /\ end_of_round
      /\ res' = res \o <<length(l), distance(d)>>
      /\ skip' = l - 1 /\ progress(finished_bytes + l)
  BY DEF Match
<1>2. RoundEnded
  BY <1>1, EndOfRound DEF IInv
<1>3. /\ i < Len(src) /\ skip = 0
      /\ l \in 3 .. DeflateRepeatLenMax /\ l \in Nat /\ l >= 3
      /\ walk.pos \in Nat /\ walk.pos < i
      /\ d \in 1 .. LZ77DictionarySize /\ d \in Nat
      /\ i + l <= Len(src)
      /\ Agree(src, walk.pos, i, 0, l)
  <2>1. left \in 0 .. i /\ i \in Nat
    BY LeftFacts DEF IInv, Typed
  <2>2. walk.pos \in left .. i - 1 /\ walk.len \in 3 .. DeflateRepeatLenMax
    BY <1>1, MatchFacts
  <2>3. walk.pos < i /\ walk.len >= 3
    BY <2>1, <2>2, Constants
  <2>4. QED
    BY <1>1, <2>3, MatchFacts
<1> HIDE DEF l
<1>4. /\ i \in Nat /\ Len(src) \in Nat /\ src \in Seq(Nat)
      /\ res \in Seq(Items) /\ finished_bytes \in Nat /\ reported \in Nat
  <2>1. src \in Seq(Bytes)
    BY DEF IInv, Typed
  <2>2. src \in Seq(Nat)
    BY <2>1, BytesAreNumbers
  <2>3. QED
    BY <2>2 DEF IInv, Typed
<1>5. i' = i + 1 /\ src' = src /\ running' = running
  BY <1>2 DEF RoundEnded
<1>6. skip' \in Nat /\ i' + skip' = i + l
  BY <1>1, <1>3, <1>4, <1>5
<1>7. /\ reported' \in Nat /\ finished_bytes' \in Nat
      /\ reported' + finished_bytes' = reported + (finished_bytes + l)
      /\ finished_bytes' <= ReportOver
  <2>1. finished_bytes + l \in Nat
    BY <1>3, <1>4
  <2>2. QED
    BY <1>1, <1>4, <2>1, ProgressIsCounted
<1>8. /\ res' \in Seq(Items)
      /\ Len(res) \in Nat /\ Len(res') = Len(res) + 2
      /\ res'[Len(res) + 1] = length(l) /\ res'[Len(res) + 2] = distance(d)
      /\ \A k \in 1 .. Len(res) : res'[k] = res[k]
  <2> HIDE DEF d
  <2>1. QED
    <3>1. GrowsByPair(res, res', l, d)
      BY <1>1, <1>3, <1>4, PairIsAppended
    <3>2. QED
      BY <3>1 DEF GrowsByPair
<1>9. Typed'
  <2>1. i' + skip' <= Len(src')
    BY <1>3, <1>5, <1>6
  <2>2. QED
    BY <1>2, <1>6, <1>7, <1>8, <2>1, TypedAfterRound DEF IInv
<1>10. ItemsLegal'
  <2> HIDE DEF d
  <2> DEFINE m == Len(res)
  <2>1. /\ res'[m + 1].type = "length" /\ res'[m + 1].val = l
        /\ res'[m + 2].type = "distance" /\ res'[m + 2].val = d
    BY <1>8 DEF length, distance
  <2>2. ASSUME NEW k \in 1 .. Len(res')
        PROVE  /\ res'[k].type = "length" =>
                    /\ res'[k].val \in 3 .. DeflateRepeatLenMax
                    /\ k < Len(res') /\ res'[k + 1].type = "distance"
               /\ res'[k].type = "distance" =>
                    /\ res'[k].val \in 1 .. LZ77DictionarySize
                    /\ k > 1 /\ res'[k - 1].type = "length"
    <3>1. CASE k = m + 1
      <4>1. k + 1 = m + 2 /\ k < Len(res')
        BY <1>8, <3>1
      <4>2. QED
        BY <1>3, <2>1, <3>1, <4>1
    <3>2. CASE k = m + 2
      <4>1. k - 1 = m + 1 /\ k > 1
        BY <1>8, <3>2
      <4>2. QED
        BY <1>3, <2>1, <3>2, <4>1
    <3>3. CASE k \in 1 .. m
      <4>1. res'[k] = res[k]
        BY <1>8, <3>3
      <4>2. /\ res[k].type = "length" =>
                 /\ res[k].val \in 3 .. DeflateRepeatLenMax
                 /\ k < m /\ res[k + 1].type = "distance"
            /\ res[k].type = "distance" =>
                 /\ res[k].val \in 1 .. LZ77DictionarySize
                 /\ k > 1 /\ res[k - 1].type = "length"
        BY <3>3 DEF IInv, ItemsLegal
      <4>3. k < m => k + 1 \in 1 .. m /\ res'[k + 1] = res[k + 1]
        BY <1>8, <3>3
      <4>4. k > 1 => k - 1 \in 1 .. m /\ res'[k - 1] = res[k - 1]
        BY <1>8, <3>3
      <4>5. k < Len(res')
        BY <1>8, <3>3
      <4>6. QED
        BY <4>1, <4>2, <4>3, <4>4, <4>5
    <3>4. k = m + 1 \/ k = m + 2 \/ k \in 1 .. m
      BY <1>8
    <3>5. QED
      BY <3>1, <3>2, <3>3, <3>4
  <2>3. QED
    BY <2>2 DEF ItemsLegal
<1>11. Counted'
  <2>1. reported + finished_bytes = i
    BY <1>1, <1>3, <1>4 DEF IInv, Counted
  <2>2. reported' + finished_bytes' = i' + skip'
    <3>1. reported + (finished_bytes + l) = i + l
      BY <1>3, <1>4, <2>1
    <3>2. QED
      BY <1>6, <1>7, <3>1
  <2>3. QED
    BY <1>1, <1>5, <1>7, <2>2 DEF Counted
<1>12. RoundTrip'
  <2>1. Inflated(res) = SubSeq(src, 1, i)
    BY <1>1, <1>3, <1>4 DEF IInv, RoundTrip
  <2>2. Paired(res)
    BY LegalItemsArePaired DEF IInv
  <2>3. Inflated(res') = SubSeq(src, 1, i) \o Copied(SubSeq(src, 1, i), l, d)
    <3> HIDE DEF d
    <3>1. Inflated(res \o <<length(l), distance(d)>>)
          = Inflated(res) \o Copied(Inflated(res), l, d)
      BY <1>3, <1>4, <2>2, InflatedMatch
    <3>2. QED
      BY <1>1, <2>1, <3>1
  <2>4. SubSeq(src, 1, i) \o Copied(SubSeq(src, 1, i), l, d) = SubSeq(src, 1, i + l)
    <3> DEFINE p == walk.pos
    <3>1. p \in Nat /\ p < i /\ l \in Nat /\ i + l <= Len(src) /\ Agree(src, p, i, 0, l)
      BY <1>3
    <3> HIDE DEF p
    <3>2. SubSeq(src, 1, i) \o Copied(SubSeq(src, 1, i), l, i - p)
          = SubSeq(src, 1, i + l)
      BY <1>4, <3>1, CopyContinues, ZenonT(30)
    <3>3. QED
      BY <3>2 DEF p
  <2>5. QED
    BY <1>1, <1>5, <1>6, <2>3, <2>4 DEF RoundTrip
<1>13. QED
  BY <1>2, <1>9, <1>10, <1>11, <1>12 DEF IInv, RoundEnded

-------------------------------------------------------------------------------
(* The theorems.                                                           *)

\* IInv holds at first and every step keeps it: whatever the hashes answer,
\* whatever the level, and for blocks that follow one another.
THEOREM Invariant == Spec => []IInv
<1>1. Init => IInv
  BY InitIsOK
<1>2. IInv /\ [Next]_vars => IInv'
  <2>1. SUFFICES ASSUME IInv, [Next]_vars PROVE IInv'
    OBVIOUS
  <2>2. CASE calc
    BY <2>1, <2>2, CalcIsOK
  <2>3. CASE Skip
    BY <2>1, <2>3, SkipIsOK
  <2>4. CASE Literal
    BY <2>1, <2>4, LiteralIsOK
  <2>5. CASE StartWalk
    BY <2>1, <2>5, StartWalkIsOK
  <2>6. CASE Candidate
    BY <2>1, <2>6, CandidateIsOK
  <2>7. CASE Match
    BY <2>1, <2>7, MatchIsOK
  <2>8. CASE Return
    BY <2>1, <2>8, ReturnIsOK
  <2>9. CASE UNCHANGED vars
    <3>1. /\ level' = level /\ racing' = racing /\ todo' = todo /\ src' = src
          /\ res' = res /\ i' = i /\ skip' = skip /\ m_left' = m_left
          /\ m_head3b' = m_head3b /\ m_hash' = m_hash /\ walk' = walk
          /\ finished_bytes' = finished_bytes /\ reported' = reported
          /\ running' = running
      BY <2>9 DEF vars
    <3>2. Walking /\ m_left' \in 0 .. i /\ walk' \in Walks
          /\ walk'.len \in {0} \cup 3 .. DeflateRepeatLenMax
      BY <2>1, <3>1 DEF IInv, Typed, Walking
    <3>3. /\ Typed' /\ ItemsLegal' /\ ListsOK' /\ RingOK' /\ Counted' /\ RoundTrip'
          /\ chain' = chain /\ n' = n
      BY <2>1, <3>2, WalkingKeeps
    <3>4. left' = left
      BY <3>1 DEF left
    <3>5. WalkOK'
      <4>1. InWindow(1)' <=> InWindow(1)
        BY <3>3, <3>4 DEF InWindow
      <4>2. QED
        BY <2>1, <3>1, <3>3, <3>4, <4>1 DEF IInv, WalkOK
    <3>6. QED
      BY <3>3, <3>5 DEF IInv
  <2>10. QED
    BY <2>1, <2>2, <2>3, <2>4, <2>5, <2>6, <2>7, <2>8, <2>9 DEF Next, Round
<1>3. QED
  BY <1>1, <1>2, PTL DEF Spec

LEMMA InvariantTypes == IInv => TypeOK
<1>1. SUFFICES ASSUME IInv PROVE TypeOK
  OBVIOUS
<1>2. /\ i \in Nat /\ skip \in Nat /\ i + skip <= n /\ n \in Nat
      /\ m_head3b \in [Keys -> Seq(Nat)]
  BY <1>1 DEF IInv, Typed, n
<1>3. ASSUME NEW key \in Keys
      PROVE  m_head3b[key] \in Seq(0 .. i)
  <2> DEFINE list == m_head3b[key]
  <2>1. list \in Seq(Nat) /\ Len(list) \in Nat
    BY <1>2
  <2>2. \A x \in 1 .. Len(list) : list[x] \in 0 .. i
    BY <1>1, <1>2 DEF IInv, ListsOK, ListOf
  <2> HIDE DEF list
  <2>3. list \in [1 .. Len(list) -> 0 .. i]
    BY <2>1, <2>2
  <2>4. list \in Seq(0 .. i)
    <3> DEFINE S == 0 .. i
    <3>1. list \in [1 .. Len(list) -> S]
      BY <2>3
    <3> HIDE DEF S
    <3>2. list \in Seq(S)
      BY <2>1, <3>1
    <3>3. QED
      BY <3>2 DEF S
  <2>5. QED
    BY <2>4 DEF list
<1>4. /\ walk.at \in Nat /\ walk.checked \in Nat /\ walk.max_check \in Nat
      /\ walk.pos \in Nat
  BY <1>1 DEF IInv, Typed, Walks
<1>5. QED
  BY <1>1, <1>2, <1>3, <1>4 DEF IInv, Typed, TypeOK

\* The variables have their types, a match ends inside the block, and the
\* lists and the ring name positions of it.
THEOREM TypeCorrect == Spec => []TypeOK
BY Invariant, InvariantTypes, PTL

\* calc: the items inflate to the block, as far as they reach after every
\* round and all of it when calc returns.
THEOREM ItemsHoldTheBlock == Spec => []RoundTrip
<1>1. IInv => RoundTrip
  BY DEF IInv
<1>2. QED
  BY <1>1, Invariant, PTL

\* calc: lengths and distances are ones deflate can code, in pairs, and no
\* distance leaves the window.
THEOREM ItemsAreLegal == Spec => []ItemsLegal
<1>1. IInv => ItemsLegal
  BY DEF IInv
<1>2. QED
  BY <1>1, Invariant, PTL

\* calc: the bar is told of no byte that the items do not hold, and at the
\* end of a searched block no more than the last few were kept from it.
THEOREM ProgressIsHonest == Spec => []ProgressHonest
<1>1. IInv => ProgressHonest
  <2>1. SUFFICES ASSUME IInv PROVE ProgressHonest
    OBVIOUS
  <2>2. finished_bytes \in Nat /\ reported \in Nat /\ n \in Nat
    BY <2>1 DEF IInv, Typed, n
  <2>3. QED
    BY <2>1, <2>2, Constants DEF IInv, Counted, ProgressHonest
<1>2. QED
  BY <1>1, Invariant, PTL

\* A position that agrees with the cursor on 3 bytes is in the list.
LEMMA InReachIsListed ==
  ASSUME IInv, i < n, NEW pos \in InReach
  PROVE  \E x \in 1 .. Len(chain) : chain[x] = pos
<1>1. /\ i \in Nat /\ Len(src) \in Nat /\ src \in Seq(Nat) /\ i < Len(src)
  <2>1. src \in Seq(Bytes) /\ i \in Nat
    BY DEF IInv, Typed
  <2>2. src \in Seq(Nat)
    BY <2>1, BytesAreNumbers
  <2>3. QED
    BY <2>1, <2>2 DEF n
<1>2. left \in 0 .. i
  BY LeftFacts DEF IInv
<1>3. pos \in Nat /\ pos < i /\ pos \in 0 .. i - 1 /\ Common(pos) >= 3
  BY <1>1, <1>2 DEF InReach
<1>4. Common(pos) \in Nat /\ IsReach(src, pos, i, 0, Common(pos))
  <2>1. /\ Common(pos) \in 0 .. DeflateRepeatLenMax
        /\ IsReach(src, pos, i, 0, Common(pos))
    BY <1>1, <1>3, CommonIs
  <2>2. QED
    BY <2>1, Constants
<1>5. i + 3 <= Len(src) /\ Agree(src, pos, i, 0, 3)
  BY <1>1, <1>3, <1>4, AgreeOn DEF IsReach
<1>6. HashOf(src, pos) = HashOf(src, i)
  BY <1>1, <1>3, <1>5, HashOfSame
<1>7. ListOf(src, i, HashOf(src, i), chain)
  BY ChainFacts DEF IInv
<1>8. QED
  BY <1>3, <1>6, <1>7 DEF ListOf

\* calc's walk: a byte is a literal only when no position of the window
\* begins with the 3 bytes at the cursor.
THEOREM LiteralsAreAlwaysNew == Spec => LiteralsAreNew
<1>1. ASSUME IInv, Literal
      PROVE  InReach = {}
  <2>1. i < n /\ ~ InWindow(1)
    BY <1>1 DEF Literal, AtCursor
  <2>2. SUFFICES ASSUME NEW pos \in InReach PROVE FALSE
    OBVIOUS
  <2>3. PICK x \in 1 .. Len(chain) : chain[x] = pos
    BY <1>1, <2>1, InReachIsListed
  <2>4. /\ chain \in Seq(Nat) /\ Len(chain) \in Nat
        /\ ListOf(src, i, HashOf(src, i), chain)
    BY <1>1, ChainFacts DEF IInv
  <2>5. pos \in Nat /\ left \in Nat /\ pos >= left
    <3>1. left \in 0 .. i
      BY <1>1, LeftFacts DEF IInv
    <3>2. pos \in left .. i - 1
      BY DEF InReach
    <3>3. i \in Nat
      BY <1>1 DEF IInv, Typed
    <3>4. QED
      BY <3>1, <3>2, <3>3
  <2>6. 1 \in 1 .. Len(chain) /\ chain[1] \in Nat
    BY <2>4
  <2>7. chain[1] >= pos
    <3>1. CASE x = 1
      BY <2>3, <2>5, <3>1
    <3>2. CASE x # 1
      <4>1. 1 < x
        BY <3>2
      <4>2. chain[1] > chain[x]
        BY <2>4, <2>6, <4>1 DEF ListOf
      <4>3. QED
        BY <2>3, <2>5, <2>6, <4>2
    <3>3. QED
      BY <3>1, <3>2
  <2>8. QED
    BY <2>1, <2>5, <2>6, <2>7 DEF InWindow
<1>2. IInv /\ [Next]_vars => [Literal => InReach = {}]_vars
  BY <1>1
<1>3. QED
  BY <1>2, Invariant, PTL DEF Spec, LiteralsAreNew

\* calc's walk: a search that the level did not end found the longest match
\* and, of those, the nearest one, the oldest position of a full window
\* aside.
THEOREM MatchesAreLongest == Spec => LongestMatch
<1> DEFINE Best == \A pos \in InReach :
                     i - pos < LZ77DictionarySize =>
                       \/ Common(pos) < walk.len
                       \/ Common(pos) = walk.len /\ pos <= walk.pos
<1>1. ASSUME IInv, Match, walk.len < level.perfect,
             walk.checked < walk.max_check, ~ racing
      PROVE  Best
  <2>1. running /\ walk.len > 0 /\ ~ InWindow(walk.at)
    BY <1>1 DEF Match
  <2>2. walk # NoWalk /\ walk.len # 0
    BY <2>1 DEF NoWalk
  <2>3. /\ walk.at \in Nat /\ walk.checked \in Nat /\ walk.max_check \in Nat
        /\ i \in Nat /\ Len(src) \in Nat /\ src \in Seq(Nat)
    <3>1. src \in Seq(Bytes)
      BY <1>1 DEF IInv, Typed
    <3>2. src \in Seq(Nat)
      BY <3>1, BytesAreNumbers
    <3>3. QED
      BY <1>1, <3>2 DEF IInv, Typed, Walks
  <2>4. walk.len \in Nat /\ level.perfect \in Nat
    BY <1>1, <2>1, MatchFacts, LZ77Assumption DEF IInv, Typed
  <2>5. i < n /\ walk.at # 0 /\ Passed(src, i, chain, walk)
    <3>1. /\ i < n
          /\ walk.at = 0 => \/ walk.len >= level.perfect
                            \/ walk.checked >= walk.max_check
          /\ walk.at # 0 => (~ racing => Passed(src, i, chain, walk))
      BY <1>1, <2>2 DEF IInv, WalkOK
    <3>2. walk.at # 0
      BY <1>1, <2>3, <2>4, <3>1
    <3>3. QED
      BY <1>1, <3>1, <3>2
  <2>6. SUFFICES ASSUME NEW pos \in InReach, i - pos < LZ77DictionarySize
                 PROVE  \/ Common(pos) < walk.len
                        \/ Common(pos) = walk.len /\ pos <= walk.pos
    OBVIOUS
  <2>7. PICK x \in 1 .. Len(chain) : chain[x] = pos
    BY <1>1, <2>5, InReachIsListed
  <2>8. /\ chain \in Seq(Nat) /\ Len(chain) \in Nat
        /\ ListOf(src, i, HashOf(src, i), chain)
    BY <1>1, ChainFacts DEF IInv
  <2>9. pos \in Nat /\ left \in Nat /\ pos >= left
    <3>1. left \in 0 .. i
      BY <1>1, LeftFacts DEF IInv
    <3>2. pos \in left .. i - 1
      BY DEF InReach
    <3>3. QED
      BY <2>3, <3>1, <3>2
  <2>10. x < walk.at
    <3>1. SUFFICES ASSUME walk.at <= x PROVE FALSE
      BY <2>3, <2>8
    <3>2. walk.at \in 1 .. Len(chain) /\ chain[walk.at] \in Nat
      BY <2>3, <2>5, <2>8, <3>1, SMTT(30)
    <3>3. chain[walk.at] >= pos
      <4>1. CASE x = walk.at
        BY <2>7, <2>9, <4>1
      <4>2. CASE x # walk.at
        <5>1. walk.at < x
          BY <2>3, <3>1, <4>2
        <5>2. chain[walk.at] > chain[x]
          BY <2>8, <3>2, <5>1 DEF ListOf
        <5>3. QED
          BY <2>7, <2>9, <3>2, <5>2
      <4>3. QED
        BY <4>1, <4>2
    <3>4. QED
      BY <2>1, <2>9, <3>2, <3>3 DEF InWindow
  <2>11. /\ Common(pos) \in 0 .. DeflateRepeatLenMax
         /\ IsReach(src, pos, i, 0, Common(pos))
    <3>1. i <= Len(src)
      BY <2>3, <2>5 DEF n
    <3>2. QED
      BY <2>3, <2>9, <3>1, CommonIs
  <2>12. QED
    BY <2>5, <2>6, <2>7, <2>10, <2>11 DEF Passed
<1> HIDE DEF Best
<1>2. IInv /\ [Next]_vars
      => [/\ Match
          /\ walk.len < level.perfect
          /\ walk.checked < walk.max_check
          /\ ~ racing
          => Best]_vars
  BY <1>1
<1>3. QED
  BY <1>2, Invariant, PTL DEF Spec, LongestMatch, Best
===============================================================================
