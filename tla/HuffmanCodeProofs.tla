-------------------------- MODULE HuffmanCodeProofs ---------------------------
(***************************************************************************)
(* What package-merge computes, and the codes that are made of its         *)
(* lengths, for every alphabet, limit and bucket and for every order that  *)
(* std::sort may leave equal codes in: a complete, canonical prefix code.  *)
(***************************************************************************)
EXTENDS HuffmanCode, DataLemmas

-------------------------------------------------------------------------------
(* Powers of two.                                                          *)

\* The subsets of 1 .. n + 1 are twice as many as those of 1 .. n.
LEMMA PowerOfTwo ==
  ASSUME NEW n \in Nat
  PROVE  /\ 2 ^ n \in Nat \ {0}
         /\ 2 ^ (n + 1) = 2 * 2 ^ n
<1> DEFINE S == 1 .. n
           A == SUBSET S
           B == {X \cup {n + 1} : X \in A}
           f == [X \in A |-> X \cup {n + 1}]
<1>1. IsFiniteSet(S) /\ Cardinality(S) = n
  BY FS_Interval
<1>2. IsFiniteSet(A) /\ Cardinality(A) = 2 ^ n /\ Cardinality(A) \in Nat
  BY <1>1, FS_SUBSET, FS_CardinalityType, Zenon
<1>3. IsFiniteSet(1 .. n + 1) /\ Cardinality(1 .. n + 1) = n + 1
  BY FS_Interval
<1>4. Cardinality(SUBSET (1 .. n + 1)) = 2 ^ (n + 1)
  BY <1>3, FS_SUBSET
<1>5. n + 1 \notin S /\ 1 .. n + 1 = S \cup {n + 1}
  OBVIOUS
<1> HIDE DEF S
<1>6. A \cup B = SUBSET (1 .. n + 1)
  <2>1. ASSUME NEW X \in SUBSET (1 .. n + 1), X \notin A
        PROVE  X \in B
    <3>1. X \ {n + 1} \in A /\ n + 1 \in X
      BY <1>5, <2>1
    <3>2. X = (X \ {n + 1}) \cup {n + 1}
      BY <3>1
    <3>3. QED
      BY <3>1, <3>2
  <2>2. QED
    BY <1>5, <2>1
<1>7. A \cap B = {}
  BY <1>5
<1>8. f \in Surjection(A, B)
  BY DEF Surjection
<1>9. f \in Injection(A, B)
  <2>1. ASSUME NEW X \in A, NEW Y \in A, f[X] = f[Y]
        PROVE  X = Y
    BY <1>5, <2>1
  <2>2. QED
    BY <1>8, <2>1 DEF Injection, IsInjective, Surjection
<1>10. IsFiniteSet(B) /\ Cardinality(B) = Cardinality(A)
  BY <1>2, <1>8, <1>9, FS_Surjection
<1> HIDE DEF A, B
<1>11. Cardinality(A \cup B) = Cardinality(A) + Cardinality(B) - Cardinality({})
  <2>1. Cardinality(A \cup B)
        = Cardinality(A) + Cardinality(B) - Cardinality(A \cap B)
    BY <1>2, <1>10, FS_Union
  <2>2. QED
    BY <1>7, <2>1
<1>12. Cardinality({}) = 0
  BY FS_EmptySet
<1>13. Cardinality(A) # 0
  <2>1. {} \in A
    BY DEF A
  <2>2. QED
    BY <1>2, <2>1, FS_EmptySet
<1>14. Cardinality(SUBSET (1 .. n + 1)) = 2 * Cardinality(A)
  <2>1. Cardinality(A \cup B) = 2 * Cardinality(A)
    BY <1>2, <1>10, <1>11, <1>12
  <2>2. QED
    BY <1>6, <2>1, Zenon
<1>15. 2 ^ n \in Nat \ {0}
  BY <1>2, <1>13
<1>16. 2 ^ (n + 1) = 2 * 2 ^ n
  BY <1>2, <1>4, <1>14, Zenon
<1>17. QED
  BY <1>15, <1>16

LEMMA PowerOfZero == 2 ^ 0 = 1
  OBVIOUS

\* Products and their order.
LEMMA ProductOrder ==
  ASSUME NEW a \in Nat, NEW b \in Nat, NEW c \in Nat \ {0}, a * c <= b * c
  PROVE  a <= b
<1>1. SUFFICES ASSUME b + 1 <= a PROVE FALSE
  OBVIOUS
<1>2. (b + 1) * c <= a * c
  BY <1>1, ProductMonotonic
<1>3. QED
  BY <1>2

LEMMA PowerSum ==
  ASSUME NEW a \in Nat, NEW b \in Nat
  PROVE  2 ^ (a + b) = 2 ^ a * 2 ^ b
<1> DEFINE S == {k \in Nat : 2 ^ (a + k) = 2 ^ a * 2 ^ k}
<1>1. 0 \in S
  <2>1. 2 ^ a \in Nat
    BY PowerOfTwo
  <2>2. QED
    BY <2>1, PowerOfZero
<1>2. ASSUME NEW k \in Nat, k \in S
      PROVE  k + 1 \in S
  <2>1. 2 ^ (a + k) = 2 ^ a * 2 ^ k
    BY <1>2
  <2>2. 2 ^ ((a + k) + 1) = 2 * 2 ^ (a + k) /\ 2 ^ (k + 1) = 2 * 2 ^ k
    BY PowerOfTwo
  <2>3. 2 ^ a \in Nat /\ 2 ^ k \in Nat
    BY PowerOfTwo
  <2>4. 2 * (2 ^ a * 2 ^ k) = 2 ^ a * (2 * 2 ^ k)
    BY <2>3
  <2>5. (a + k) + 1 = a + (k + 1)
    OBVIOUS
  <2>6. QED
    BY <2>1, <2>2, <2>4, <2>5
<1> HIDE DEF S
<1>3. Nat \subseteq S
  BY <1>1, <1>2, InductionOnSet
<1>4. QED
  BY <1>3 DEF S

\* The larger of two powers.
LEMMA PowerMonotonic ==
  ASSUME NEW a \in Nat, NEW b \in Nat, a <= b
  PROVE  2 ^ b = 2 ^ a * 2 ^ (b - a) /\ 2 ^ a <= 2 ^ b
<1>1. b - a \in Nat /\ b = a + (b - a)
  OBVIOUS
<1>2. 2 ^ b = 2 ^ a * 2 ^ (b - a)
  BY <1>1, PowerSum
<1>3. 2 ^ a \in Nat /\ 2 ^ (b - a) \in Nat \ {0}
  BY <1>1, PowerOfTwo
<1>4. 1 * 2 ^ a <= 2 ^ (b - a) * 2 ^ a
  BY <1>3, ProductMonotonic
<1>5. QED
  BY <1>2, <1>3, <1>4
-------------------------------------------------------------------------------
(* Merging leaves and packages.                                            *)

Items == [first : Int, weight : Nat]

\* Item b of m is leaf j: no package that is left is lighter.
IsLeaf(m, leaves, packs, b, j) ==
  /\ j \in 1 .. Len(leaves)
  /\ m[b] = leaves[j]
  /\ b - j < Len(packs) => leaves[j].weight <= packs[b - j + 1].weight

\* Item b of m is the package behind j leaves: the next leaf is heavier.
IsPack(m, leaves, packs, b, j) ==
  /\ b - j \in 1 .. Len(packs)
  /\ m[b] = packs[b - j]
  /\ j < Len(leaves) => packs[b - j].weight < leaves[j + 1].weight

\* m is leaves and packs, of which J[b] leaves are among the first b items.
IsMerge(m, leaves, packs, J) ==
  /\ m \in Seq(Items) /\ Len(m) = Len(leaves) + Len(packs)
  /\ J[0] = 0
  /\ \A b \in 0 .. Len(m) : J[b] \in 0 .. Len(leaves) /\ b - J[b] \in 0 .. Len(packs)
  /\ \A b \in 1 .. Len(m) :
       \/ J[b] = J[b - 1] + 1 /\ IsLeaf(m, leaves, packs, b, J[b])
       \/ J[b] = J[b - 1] /\ IsPack(m, leaves, packs, b, J[b])

\* One item more: what the loop of merge does.
Further(before, p, leaves, packs) ==
  LET j == before.j + 1
      k == p - before.j
  IN  IF /\ k <= Len(packs)
         /\ j > Len(leaves) \/ packs[k].weight < leaves[j].weight
      THEN [list |-> Append(before.list, packs[k]), j |-> before.j]
      ELSE [list |-> Append(before.list, leaves[j]), j |-> j]

IsLoop(f, leaves, packs, size) ==
  f = [p \in 0 .. size |-> IF p = 0 THEN [list |-> <<>>, j |-> 0]
                           ELSE Further(f[p - 1], p, leaves, packs)]

LEMMA LoopExists ==
  ASSUME NEW leaves, NEW packs, NEW size \in Nat
  PROVE  \E f : IsLoop(f, leaves, packs, size)
<1> DEFINE start == [list |-> <<>>, j |-> 0]
           S == {m \in 0 .. size : \E f : IsLoop(f, leaves, packs, m)}
<1>1. 0 \in S
  <2>1. IsLoop([p \in 0 .. 0 |-> start], leaves, packs, 0)
    BY DEF IsLoop
  <2>2. QED
    BY <2>1
<1>2. ASSUME NEW m \in 0 .. size - 1, m \in S
      PROVE  m + 1 \in S
  <2>1. PICK f : IsLoop(f, leaves, packs, m)
    BY <1>2
  <2> DEFINE g == [p \in 0 .. m + 1 |->
                     IF p = m + 1 THEN Further(f[m], m + 1, leaves, packs)
                     ELSE f[p]]
  <2>2. ASSUME NEW p \in 0 .. m + 1
        PROVE  g[p] = IF p = 0 THEN start
                      ELSE Further(g[p - 1], p, leaves, packs)
    <3>1. CASE p = 0
      <4>1. p # m + 1 /\ p \in 0 .. m
        BY <3>1
      <4>2. g[p] = f[p] /\ f[p] = start
        BY <2>1, <3>1, <4>1 DEF IsLoop
      <4>3. QED
        BY <3>1, <4>2
    <3>2. CASE p \in 1 .. m
      <4>1. p # m + 1 /\ p \in 0 .. m /\ p - 1 \in 0 .. m /\ p - 1 # m + 1 /\ p # 0
            /\ p - 1 \in 0 .. m + 1
        BY <3>2
      <4>2. g[p] = f[p] /\ g[p - 1] = f[p - 1]
        BY <4>1
      <4>3. f[p] = Further(f[p - 1], p, leaves, packs)
        BY <2>1, <4>1 DEF IsLoop
      <4>4. QED
        BY <4>1, <4>2, <4>3
    <3>3. CASE p = m + 1
      <4>1. p - 1 = m /\ m \in 0 .. m + 1 /\ m # m + 1 /\ p # 0
        BY <3>3
      <4>2. g[p] = Further(f[m], m + 1, leaves, packs) /\ g[p - 1] = f[m]
        BY <3>3, <4>1
      <4>3. QED
        BY <3>3, <4>1, <4>2
    <3>4. QED
      BY <3>1, <3>2, <3>3
  <2>3. IsLoop(g, leaves, packs, m + 1)
    <3>1. DOMAIN g = 0 .. m + 1
      OBVIOUS
    <3> HIDE DEF g
    <3>2. g = [p \in 0 .. m + 1 |-> g[p]]
      BY <2>2, <3>1 DEF g
    <3>3. QED
      BY <2>2, <3>2 DEF IsLoop
  <2>4. m + 1 \in 0 .. size
    OBVIOUS
  <2>5. QED
    BY <2>3, <2>4
<1> HIDE DEF S
<1>3. 0 .. size \subseteq S
  BY <1>1, <1>2, IntervalInduction
<1>4. QED
  BY <1>3 DEF S

\* The loop's state: p items are in the list, j of them leaves.
LoopState(s, p, leaves, packs) ==
  /\ s.list \in Seq(Items) /\ Len(s.list) = p
  /\ s.j \in 0 .. Len(leaves) /\ p - s.j \in 0 .. Len(packs)

LEMMA ItemType ==
  ASSUME NEW s \in Seq(Items), NEW k \in 1 .. Len(s)
  PROVE  /\ s[k] \in Items /\ s[k].weight \in Nat /\ s[k].first \in Int
<1>1. s[k] \in Items
  OBVIOUS
<1>2. QED
  BY <1>1 DEF Items

LEMMA Appended ==
  ASSUME NEW s \in Seq(Items), NEW x \in Items
  PROVE  /\ Append(s, x) \in Seq(Items) /\ Len(Append(s, x)) = Len(s) + 1
         /\ Append(s, x)[Len(s) + 1] = x
         /\ \A b \in 1 .. Len(s) : Append(s, x)[b] = s[b]
  OBVIOUS

\* A round of the loop takes a package only when no leaf is as light.
TakesPack(s, p, leaves, packs) ==
  /\ p - s.j <= Len(packs)
  /\ s.j + 1 > Len(leaves) \/ packs[p - s.j].weight < leaves[s.j + 1].weight

LEMMA FurtherTakes ==
  ASSUME NEW s, NEW p, NEW leaves, NEW packs
  PROVE  LET t == Further(s, p, leaves, packs) IN
         IF TakesPack(s, p, leaves, packs)
         THEN t.list = Append(s.list, packs[p - s.j]) /\ t.j = s.j
         ELSE t.list = Append(s.list, leaves[s.j + 1]) /\ t.j = s.j + 1
<1>1. CASE TakesPack(s, p, leaves, packs)
  <2>1. Further(s, p, leaves, packs)
        = [list |-> Append(s.list, packs[p - s.j]), j |-> s.j]
    BY <1>1, Zenon DEF Further, TakesPack
  <2>2. QED
    BY <1>1, <2>1
<1>2. CASE ~ TakesPack(s, p, leaves, packs)
  <2>1. Further(s, p, leaves, packs)
        = [list |-> Append(s.list, leaves[s.j + 1]), j |-> s.j + 1]
    BY <1>2, Zenon DEF Further, TakesPack
  <2>2. QED
    BY <1>2, <2>1
<1>3. QED
  BY <1>1, <1>2

\* What a round of the loop adds.
LEMMA FurtherIs ==
  ASSUME NEW leaves \in Seq(Items), NEW packs \in Seq(Items), NEW p \in Nat,
         p < Len(leaves) + Len(packs), NEW s, LoopState(s, p, leaves, packs)
  PROVE  LET t == Further(s, p + 1, leaves, packs) IN
         /\ LoopState(t, p + 1, leaves, packs)
         /\ \A b \in 1 .. p : t.list[b] = s.list[b]
         /\ \/ t.j = s.j + 1 /\ IsLeaf(t.list, leaves, packs, p + 1, t.j)
            \/ t.j = s.j /\ IsPack(t.list, leaves, packs, p + 1, t.j)
<1> DEFINE t == Further(s, p + 1, leaves, packs)
           j == s.j
           k == (p + 1) - s.j
           pack == TakesPack(s, p + 1, leaves, packs)
<1>1. /\ s.list \in Seq(Items) /\ Len(s.list) = p
      /\ j \in Nat /\ j <= Len(leaves)
      /\ k \in Nat /\ k >= 1 /\ k = p + 1 - j /\ k - 1 <= Len(packs)
      /\ Len(leaves) \in Nat /\ Len(packs) \in Nat
  BY DEF LoopState
<1>2. IF pack THEN t.list = Append(s.list, packs[k]) /\ t.j = j
      ELSE t.list = Append(s.list, leaves[j + 1]) /\ t.j = j + 1
  BY FurtherTakes
<1>3. pack <=> /\ k <= Len(packs)
               /\ j + 1 > Len(leaves) \/ packs[k].weight < leaves[j + 1].weight
  BY DEF TakesPack
<1> HIDE DEF t, j, k, pack
<1>4. ASSUME pack
      PROVE  /\ LoopState(t, p + 1, leaves, packs)
             /\ \A b \in 1 .. p : t.list[b] = s.list[b]
             /\ t.j = j /\ IsPack(t.list, leaves, packs, p + 1, t.j)
  <2>1. k \in 1 .. Len(packs)
    BY <1>1, <1>3, <1>4
  <2>2. packs[k] \in Items
    BY <2>1, ItemType
  <2>3. /\ t.list \in Seq(Items) /\ Len(t.list) = p + 1
        /\ t.list[p + 1] = packs[k]
        /\ \A b \in 1 .. p : t.list[b] = s.list[b]
    <3>1. t.list = Append(s.list, packs[k])
      BY <1>2, <1>4
    <3>2. QED
      BY <1>1, <2>2, <3>1, Appended
  <2>4. t.j = j /\ (p + 1) - t.j = k
    BY <1>1, <1>2, <1>4
  <2>5. LoopState(t, p + 1, leaves, packs)
    BY <1>1, <2>1, <2>3, <2>4 DEF LoopState
  <2>6. j < Len(leaves) => packs[k].weight < leaves[j + 1].weight
    BY <1>1, <1>3, <1>4
  <2>7. IsPack(t.list, leaves, packs, p + 1, t.j)
    BY <2>1, <2>3, <2>4, <2>6 DEF IsPack
  <2>8. QED
    BY <2>3, <2>4, <2>5, <2>7
<1>5. ASSUME ~ pack
      PROVE  /\ LoopState(t, p + 1, leaves, packs)
             /\ \A b \in 1 .. p : t.list[b] = s.list[b]
             /\ t.j = j + 1 /\ IsLeaf(t.list, leaves, packs, p + 1, t.j)
  <2>1. j + 1 \in 1 .. Len(leaves)
    BY <1>1, <1>3, <1>5
  <2>2. leaves[j + 1] \in Items /\ leaves[j + 1].weight \in Nat
    BY <2>1, ItemType
  <2>3. k <= Len(packs) => leaves[j + 1].weight <= packs[k].weight
    <3>1. SUFFICES ASSUME k <= Len(packs)
                   PROVE  leaves[j + 1].weight <= packs[k].weight
      OBVIOUS
    <3>2. ~ (packs[k].weight < leaves[j + 1].weight)
      BY <1>3, <1>5, <3>1
    <3>3. packs[k].weight \in Nat
      BY <1>1, <3>1, ItemType
    <3>4. QED
      BY <2>2, <3>2, <3>3
  <2>4. /\ t.list \in Seq(Items) /\ Len(t.list) = p + 1
        /\ t.list[p + 1] = leaves[j + 1]
        /\ \A b \in 1 .. p : t.list[b] = s.list[b]
    <3>1. t.list = Append(s.list, leaves[j + 1])
      BY <1>2, <1>5
    <3>2. QED
      BY <1>1, <2>2, <3>1, Appended
  <2>5. t.j = j + 1 /\ (p + 1) - t.j = k - 1 /\ (p + 1) - t.j + 1 = k
    BY <1>1, <1>2, <1>5
  <2>6. LoopState(t, p + 1, leaves, packs)
    <3>1. t.j \in 0 .. Len(leaves) /\ k - 1 \in 0 .. Len(packs)
      BY <1>1, <2>1, <2>5
    <3>2. QED
      BY <2>4, <2>5, <3>1 DEF LoopState
  <2>7. IsLeaf(t.list, leaves, packs, p + 1, t.j)
    <3>1. k - 1 < Len(packs) => leaves[j + 1].weight <= packs[k].weight
      BY <1>1, <2>3
    <3>2. QED
      BY <2>1, <2>4, <2>5, <3>1 DEF IsLeaf
  <2>8. QED
    BY <2>4, <2>5, <2>6, <2>7
<1>6. QED
  BY <1>4, <1>5 DEF t, j

LEMMA MergeUnfolds ==
  ASSUME NEW leaves, NEW packs, Len(leaves) \in Nat, Len(packs) \in Nat
  PROVE  \E f : /\ IsLoop(f, leaves, packs, Len(leaves) + Len(packs))
                /\ merge(leaves, packs) = f[Len(leaves) + Len(packs)].list
<1> DEFINE size == Len(leaves) + Len(packs)
           Unfolds(f) ==
             f = [p \in 0 .. size |->
                    IF p = 0 THEN [list |-> <<>>, j |-> 0]
                    ELSE LET before == f[p - 1]
                             j == before.j + 1
                             k == p - before.j
                         IN  IF /\ k <= Len(packs)
                                /\ \/ j > Len(leaves)
                                   \/ packs[k].weight < leaves[j].weight
                             THEN [list |-> Append(before.list, packs[k]),
                                   j |-> before.j]
                             ELSE [list |-> Append(before.list, leaves[j]),
                                   j |-> j]]
<1>1. size \in Nat
  OBVIOUS
<1>2. \E f : IsLoop(f, leaves, packs, size)
  BY <1>1, LoopExists
<1>3. \A f : IsLoop(f, leaves, packs, size) <=> Unfolds(f)
  BY Zenon DEF IsLoop, Further
<1>4. Unfolds(CHOOSE f : Unfolds(f))
  <2> HIDE DEF Unfolds
  <2>1. QED
    BY <1>2, <1>3
<1>5. merge(leaves, packs) = (CHOOSE f : Unfolds(f))[size].list
  BY Zenon DEF merge
<1> HIDE DEF Unfolds
<1>6. QED
  BY <1>3, <1>4, <1>5

\* merge(): the leaves in their order, the packages in theirs, and the
\* lighter of the two first.
LEMMA MergeIs ==
  ASSUME NEW leaves \in Seq(Items), NEW packs \in Seq(Items)
  PROVE  \E J : IsMerge(merge(leaves, packs), leaves, packs, J)
<1> DEFINE size == Len(leaves) + Len(packs)
           m == merge(leaves, packs)
<1>1. Len(leaves) \in Nat /\ Len(packs) \in Nat /\ size \in Nat
      /\ size = Len(leaves) + Len(packs)
  OBVIOUS
<1>2. PICK f : /\ IsLoop(f, leaves, packs, size)
               /\ merge(leaves, packs) = f[size].list
  BY <1>1, MergeUnfolds
<1> DEFINE J == [p \in 0 .. size |-> f[p].j]
           Step(p) == \/ /\ f[p].j = f[p - 1].j + 1
                         /\ IsLeaf(f[p].list, leaves, packs, p, f[p].j)
                      \/ /\ f[p].j = f[p - 1].j
                         /\ IsPack(f[p].list, leaves, packs, p, f[p].j)
           S == {p \in 0 .. size :
                   /\ LoopState(f[p], p, leaves, packs)
                   /\ \A b \in 1 .. p : f[p].list[b] = f[b].list[b] /\ Step(b)}
<1> HIDE DEF size
<1>3. f[0] = [list |-> <<>>, j |-> 0]
  BY <1>1, <1>2 DEF IsLoop
<1>4. \A p \in 0 .. size - 1 : f[p + 1] = Further(f[p], p + 1, leaves, packs)
  <2>1. SUFFICES ASSUME NEW p \in 0 .. size - 1
                 PROVE  f[p + 1] = Further(f[p], p + 1, leaves, packs)
    OBVIOUS
  <2>2. p + 1 \in 0 .. size /\ p + 1 # 0 /\ (p + 1) - 1 = p
    BY <1>1
  <2>3. QED
    BY <1>2, <2>2 DEF IsLoop
<1>5. 0 \in S
  <2>1. f[0].list = <<>> /\ f[0].j = 0
    BY <1>3
  <2>2. LoopState(f[0], 0, leaves, packs)
    BY <1>1, <2>1 DEF LoopState
  <2>3. QED
    BY <1>1, <2>2
<1>6. ASSUME NEW p \in 0 .. size - 1, p \in S
      PROVE  p + 1 \in S
  <2> DEFINE t == f[p + 1]
  <2>1. p \in Nat /\ p < Len(leaves) + Len(packs) /\ p + 1 \in 0 .. size
        /\ (p + 1) - 1 = p /\ \A b \in 1 .. p + 1 : b \in 1 .. p \/ b = p + 1
    BY <1>1 DEF size
  <2>2. /\ LoopState(f[p], p, leaves, packs)
        /\ \A b \in 1 .. p : f[p].list[b] = f[b].list[b] /\ Step(b)
    BY <1>6
  <2>3. t = Further(f[p], p + 1, leaves, packs)
    BY <1>4
  <2>4. /\ LoopState(t, p + 1, leaves, packs)
        /\ \A b \in 1 .. p : t.list[b] = f[p].list[b]
        /\ \/ t.j = f[p].j + 1 /\ IsLeaf(t.list, leaves, packs, p + 1, t.j)
           \/ t.j = f[p].j /\ IsPack(t.list, leaves, packs, p + 1, t.j)
    BY <2>1, <2>2, <2>3, FurtherIs
  <2>5. Step(p + 1)
    BY <2>1, <2>4
  <2>6. \A b \in 1 .. p + 1 : t.list[b] = f[b].list[b] /\ Step(b)
    <3> HIDE DEF Step
    <3>1. QED
      BY <2>1, <2>2, <2>4, <2>5
  <2>7. QED
    BY <2>1, <2>4, <2>6
<1> HIDE DEF S
<1>7. 0 .. size \subseteq S
  BY <1>1, <1>5, <1>6, IntervalInduction
<1>8. /\ LoopState(f[size], size, leaves, packs)
      /\ \A b \in 1 .. size : m[b] = f[b].list[b] /\ Step(b)
  <2> HIDE DEF Step
  <2>1. size \in S
    BY <1>1, <1>7
  <2>2. QED
    BY <1>2, <2>1 DEF S
<1>9. m \in Seq(Items) /\ Len(m) = size
  BY <1>2, <1>8 DEF LoopState
<1>10. J[0] = 0
  BY <1>1, <1>3
<1>11. \A b \in 0 .. size : J[b] \in 0 .. Len(leaves) /\ b - J[b] \in 0 .. Len(packs)
  BY <1>7 DEF S, LoopState
<1>12. ASSUME NEW b \in 1 .. size
       PROVE  \/ J[b] = J[b - 1] + 1 /\ IsLeaf(m, leaves, packs, b, J[b])
              \/ J[b] = J[b - 1] /\ IsPack(m, leaves, packs, b, J[b])
  <2>1. b \in 0 .. size /\ b - 1 \in 0 .. size
    BY <1>1
  <2>2. J[b] = f[b].j /\ J[b - 1] = f[b - 1].j
    BY <2>1
  <2>3. m[b] = f[b].list[b] /\ Step(b)
    BY <1>8
  <2> HIDE DEF m, J
  <2>4. QED
    BY <2>2, <2>3 DEF IsLeaf, IsPack
<1>13. IsMerge(m, leaves, packs, J)
  <2> HIDE DEF m, J
  <2>1. QED
    BY <1>9, <1>10, <1>11, <1>12 DEF IsMerge, size
<1>14. QED
  BY <1>13

\* The numbers of leaves and of packages only grow.
LEMMA MergeGrows ==
  ASSUME NEW m, NEW leaves \in Seq(Items), NEW packs \in Seq(Items), NEW J,
         IsMerge(m, leaves, packs, J),
         NEW a \in 0 .. Len(m), NEW b \in 0 .. Len(m), a <= b
  PROVE  J[a] <= J[b] /\ a - J[a] <= b - J[b]
<1>1. Len(m) \in Nat /\ \A p \in 0 .. Len(m) : J[p] \in Nat
  BY DEF IsMerge
<1> DEFINE S == {p \in 0 .. b - a : J[a] <= J[a + p] /\ a - J[a] <= a + p - J[a + p]}
<1>2. 0 \in S
  BY <1>1
<1>3. ASSUME NEW p \in 0 .. (b - a) - 1, p \in S
      PROVE  p + 1 \in S
  <2>1. /\ a + p + 1 \in 1 .. Len(m) /\ (a + p + 1) - 1 = a + p
        /\ a + p \in 0 .. Len(m) /\ a + (p + 1) = a + p + 1
        /\ p + 1 \in 0 .. b - a
    BY <1>1
  <2>2. J[a + p + 1] = J[a + p] + 1 \/ J[a + p + 1] = J[a + p]
    BY <2>1 DEF IsMerge
  <2>3. J[a] \in Nat /\ J[a + p] \in Nat
    BY <1>1, <2>1
  <2>4. J[a] <= J[a + p] /\ a - J[a] <= a + p - J[a + p]
    BY <1>3
  <2>5. J[a] <= J[a + p + 1] /\ a - J[a] <= a + (p + 1) - J[a + p + 1]
    BY <1>1, <2>2, <2>3, <2>4, SMTT(60)
  <2>6. QED
    BY <2>1, <2>5
<1> HIDE DEF S
<1>4. 0 .. b - a \subseteq S
  <2>1. b - a \in Nat
    BY <1>1
  <2>2. QED
    BY <1>2, <1>3, <2>1, IntervalInduction
<1>5. b - a \in S /\ a + (b - a) = b
  BY <1>1, <1>4
<1>6. QED
  BY <1>1, <1>5 DEF S

\* All of them are merged.
LEMMA MergeEnds ==
  ASSUME NEW m, NEW leaves \in Seq(Items), NEW packs \in Seq(Items), NEW J,
         IsMerge(m, leaves, packs, J)
  PROVE  J[Len(m)] = Len(leaves)
<1>1. /\ Len(m) \in 0 .. Len(m) /\ Len(m) = Len(leaves) + Len(packs)
      /\ Len(leaves) \in Nat /\ Len(packs) \in Nat
  BY DEF IsMerge
<1>2. J[Len(m)] \in 0 .. Len(leaves) /\ Len(m) - J[Len(m)] \in 0 .. Len(packs)
  BY <1>1 DEF IsMerge
<1>3. QED
  BY <1>1, <1>2

\* Where leaf j is.
LEMMA LeafAt ==
  ASSUME NEW m, NEW leaves \in Seq(Items), NEW packs \in Seq(Items), NEW J,
         IsMerge(m, leaves, packs, J),
         NEW b \in 0 .. Len(m), NEW j \in 1 .. J[b]
  PROVE  \E a \in 1 .. b : J[a] = j /\ J[a - 1] = j - 1
                           /\ IsLeaf(m, leaves, packs, a, j)
<1>1. Len(m) \in Nat /\ \A p \in 0 .. Len(m) : J[p] \in Nat
  BY DEF IsMerge
<1>2. J[0] = 0
  BY DEF IsMerge
<1> DEFINE S == {p \in 0 .. b : J[p] >= j}
<1>3. b \in S /\ S \subseteq Nat
  BY <1>1
<1>4. PICK a \in S : \A y \in S : a <= y
  BY <1>3, LeastExists
<1>5. a \in 0 .. b /\ J[a] >= j /\ a # 0
  BY <1>2, <1>4
<1>6. a \in 1 .. Len(m) /\ a - 1 \in 0 .. b /\ a - 1 \in 0 .. Len(m) /\ a \in 1 .. b
  BY <1>1, <1>5
<1>7. a - 1 \notin S
  BY <1>4, <1>6
<1>8. J[a - 1] < j /\ J[a - 1] \in Nat /\ J[a] \in Nat
  BY <1>1, <1>6, <1>7
<1>9. J[a] = J[a - 1] + 1 /\ IsLeaf(m, leaves, packs, a, J[a])
  <2>1. \/ J[a] = J[a - 1] + 1 /\ IsLeaf(m, leaves, packs, a, J[a])
        \/ J[a] = J[a - 1]
    BY <1>6 DEF IsMerge
  <2>2. QED
    BY <1>5, <1>8, <2>1
<1>10. J[a] = j
  BY <1>5, <1>8, <1>9
<1>11. QED
  BY <1>6, <1>8, <1>9, <1>10, SMTT(60)

\* Where package k is.
LEMMA PackAt ==
  ASSUME NEW m, NEW leaves \in Seq(Items), NEW packs \in Seq(Items), NEW J,
         IsMerge(m, leaves, packs, J),
         NEW b \in 0 .. Len(m), NEW k \in 1 .. b - J[b]
  PROVE  \E a \in 1 .. b : a - J[a] = k /\ J[a - 1] = J[a]
                           /\ IsPack(m, leaves, packs, a, J[a])
<1>1. Len(m) \in Nat /\ \A p \in 0 .. Len(m) : J[p] \in Nat
  BY DEF IsMerge
<1>2. J[0] = 0
  BY DEF IsMerge
<1> DEFINE S == {p \in 0 .. b : p - J[p] >= k}
<1>3. b \in S /\ S \subseteq Nat
  BY <1>1
<1>4. PICK a \in S : \A y \in S : a <= y
  BY <1>3, LeastExists
<1>5. a \in 0 .. b /\ a - J[a] >= k /\ a # 0
  BY <1>2, <1>4
<1>6. a \in 1 .. Len(m) /\ a - 1 \in 0 .. b /\ a - 1 \in 0 .. Len(m) /\ a \in 1 .. b
  BY <1>1, <1>5
<1>7. a - 1 \notin S
  BY <1>4, <1>6
<1>8. (a - 1) - J[a - 1] < k /\ J[a - 1] \in Nat /\ J[a] \in Nat
  BY <1>1, <1>6, <1>7
<1>9. J[a] = J[a - 1] /\ IsPack(m, leaves, packs, a, J[a])
  <2>1. \/ J[a] = J[a - 1] + 1
        \/ J[a] = J[a - 1] /\ IsPack(m, leaves, packs, a, J[a])
    BY <1>6 DEF IsMerge
  <2>2. QED
    BY <1>5, <1>6, <1>8, <2>1
<1>10. a - J[a] = k
  BY <1>5, <1>6, <1>8, <1>9
<1>11. QED
  BY <1>6, <1>9, <1>10

-------------------------------------------------------------------------------
(* The lists.                                                              *)

Leaves(bucket, order) ==
  [j \in DOMAIN order |-> [first |-> order[j], weight |-> bucket[order[j]]]]

\* A list is merged from the leaves and the packages of the list before it;
\* the first has leaves only.
IsLists(all, leaves, n) ==
  /\ all \in Seq(Seq(Items)) /\ Len(all) = n
  /\ all[1] = leaves
  /\ \A i \in 1 .. n - 1 : all[i + 1] = merge(leaves, packages(all[i]))

LEMMA PackagesAre ==
  ASSUME NEW list \in Seq(Items)
  PROVE  /\ packages(list) \in Seq(Items)
         /\ Len(packages(list)) = Len(list) \div 2
         /\ Len(list) \div 2 \in Nat
         /\ 2 * (Len(list) \div 2) \in {Len(list), Len(list) - 1}
         /\ \A k \in 1 .. Len(list) \div 2 :
              /\ 2 * k - 1 \in 1 .. Len(list) /\ 2 * k \in 1 .. Len(list)
              /\ packages(list)[k].first = -1 - 2 * (k - 1)
              /\ packages(list)[k].weight
                   = list[2 * k - 1].weight + list[2 * k].weight
<1> DEFINE h == Len(list) \div 2
           pack(k) == [first |-> -1 - 2 * (k - 1),
                       weight |-> list[2 * k - 1].weight + list[2 * k].weight]
<1>1. Len(list) \in Nat /\ h \in Nat /\ 2 * h \in {Len(list), Len(list) - 1}
  OBVIOUS
<1> HIDE DEF h
<1>2. ASSUME NEW k \in 1 .. h
      PROVE  2 * k - 1 \in 1 .. Len(list) /\ 2 * k \in 1 .. Len(list)
  BY <1>1
<1>3. ASSUME NEW k \in 1 .. h
      PROVE  pack(k) \in Items
  <2>1. list[2 * k - 1].weight \in Nat /\ list[2 * k].weight \in Nat
    BY <1>2, ItemType
  <2> DEFINE first == -1 - 2 * (k - 1)
             weight == list[2 * k - 1].weight + list[2 * k].weight
  <2>2. first \in Int
    <3>1. k \in Nat
      BY <1>1
    <3>2. QED
      BY <3>1
  <2>5. weight \in Nat
    <3>1. \A a, b \in Nat : a + b \in Nat
      OBVIOUS
    <3>2. QED
      BY <2>1, <3>1, Zenon
  <2> HIDE DEF first, weight
  <2>3. [first |-> first, weight |-> weight] \in Items
    BY <2>2, <2>5 DEF Items
  <2>4. QED
    BY <2>3 DEF first, weight
<1>4. packages(list) = [k \in 1 .. h |-> pack(k)]
  BY DEF packages, h
<1>5. packages(list) \in Seq(Items) /\ Len(packages(list)) = h
  <2> HIDE DEF pack
  <2>1. [k \in 1 .. h |-> pack(k)] \in Seq(Items)
        /\ Len([k \in 1 .. h |-> pack(k)]) = h
    BY <1>1, <1>3
  <2>2. QED
    BY <1>4, <2>1
<1>6. ASSUME NEW k \in 1 .. h
      PROVE  /\ packages(list)[k].first = -1 - 2 * (k - 1)
             /\ packages(list)[k].weight
                  = list[2 * k - 1].weight + list[2 * k].weight
  BY <1>4
<1>7. QED
  BY <1>1, <1>2, <1>5, <1>6 DEF h

Longer(before, i, leaves) == Append(before, merge(leaves, packages(before[i - 1])))

IsUpto(f, leaves, n) ==
  f = [i \in 1 .. n |-> IF i = 1 THEN <<leaves>> ELSE Longer(f[i - 1], i, leaves)]

LEMMA UptoExists ==
  ASSUME NEW n \in Nat \ {0}, NEW leaves
  PROVE  \E f : IsUpto(f, leaves, n)
<1> DEFINE S == {m \in 0 .. n - 1 : \E f : IsUpto(f, leaves, m + 1)}
<1>1. 0 \in S
  <2>1. IsUpto([i \in 1 .. 1 |-> <<leaves>>], leaves, 0 + 1)
    BY DEF IsUpto
  <2>2. QED
    BY <2>1
<1>2. ASSUME NEW m \in 0 .. (n - 1) - 1, m \in S
      PROVE  m + 1 \in S
  <2>1. PICK f : IsUpto(f, leaves, m + 1)
    BY <1>2
  <2> DEFINE g == [i \in 1 .. m + 2 |->
                     IF i = m + 2 THEN Longer(f[m + 1], m + 2, leaves) ELSE f[i]]
  <2>2. ASSUME NEW i \in 1 .. m + 2
        PROVE  g[i] = IF i = 1 THEN <<leaves>> ELSE Longer(g[i - 1], i, leaves)
    <3>1. CASE i = 1
      <4>1. i # m + 2 /\ i \in 1 .. m + 1
        BY <3>1
      <4>2. f[i] = <<leaves>>
        BY <2>1, <3>1, <4>1 DEF IsUpto
      <4>3. QED
        BY <3>1, <4>1, <4>2
    <3>2. CASE i \in 2 .. m + 1
      <4>1. i # m + 2 /\ i \in 1 .. m + 1 /\ i - 1 \in 1 .. m + 1 /\ i # 1
            /\ i - 1 # m + 2 /\ i - 1 \in 1 .. m + 2
        BY <3>2
      <4>2. g[i] = f[i] /\ g[i - 1] = f[i - 1]
        BY <4>1
      <4>3. f[i] = Longer(f[i - 1], i, leaves)
        BY <2>1, <4>1 DEF IsUpto
      <4>4. QED
        BY <4>1, <4>2, <4>3
    <3>3. CASE i = m + 2
      <4>1. i - 1 = m + 1 /\ m + 1 \in 1 .. m + 2 /\ m + 1 # m + 2 /\ i # 1
        BY <3>3
      <4>2. g[i] = Longer(f[m + 1], m + 2, leaves) /\ g[i - 1] = f[m + 1]
        BY <3>3, <4>1
      <4>3. QED
        BY <3>3, <4>1, <4>2
    <3>4. QED
      BY <3>1, <3>2, <3>3
  <2>3. IsUpto(g, leaves, (m + 1) + 1)
    <3>1. DOMAIN g = 1 .. m + 2 /\ (m + 1) + 1 = m + 2
      OBVIOUS
    <3> HIDE DEF g
    <3>2. g = [i \in 1 .. m + 2 |-> g[i]]
      BY <3>1 DEF g
    <3>3. QED
      BY <2>2, <3>1, <3>2 DEF IsUpto
  <2>4. m + 1 \in 0 .. n - 1
    OBVIOUS
  <2>5. QED
    BY <2>3, <2>4
<1> HIDE DEF S
<1>3. n - 1 \in S
  <2>1. n - 1 \in Nat /\ n - 1 \in 0 .. n - 1
    OBVIOUS
  <2>2. QED
    BY <1>1, <1>2, <2>1, IntervalInduction
<1>4. (n - 1) + 1 = n
  OBVIOUS
<1>5. QED
  BY <1>3, <1>4 DEF S

LEMMA ListsUnfold ==
  ASSUME NEW bucket, NEW order, NEW n \in Nat \ {0}
  PROVE  \E f : /\ IsUpto(f, Leaves(bucket, order), n)
                /\ lists(bucket, order, n) = f[n]
<1> DEFINE leaves == Leaves(bucket, order)
           Unfolds(f) ==
             f = [i \in 1 .. n |->
                    IF i = 1 THEN <<leaves>>
                    ELSE LET before == f[i - 1] IN
                         Append(before, merge(leaves, packages(before[i - 1])))]
<1>1. \E f : IsUpto(f, leaves, n)
  BY UptoExists
<1>2. \A f : IsUpto(f, leaves, n) <=> Unfolds(f)
  BY Zenon DEF IsUpto, Longer
<1>3. Unfolds(CHOOSE f : Unfolds(f))
  <2> HIDE DEF Unfolds
  <2>1. QED
    BY <1>1, <1>2
<1>4. lists(bucket, order, n) = (CHOOSE f : Unfolds(f))[n]
  BY Zenon DEF lists, Leaves
<1> HIDE DEF Unfolds
<1>5. QED
  BY <1>2, <1>3, <1>4

\* lists(): n of them.
LEMMA ListsAre ==
  ASSUME NEW bucket, NEW order, NEW n \in Nat \ {0},
         Leaves(bucket, order) \in Seq(Items)
  PROVE  IsLists(lists(bucket, order, n), Leaves(bucket, order), n)
<1> DEFINE leaves == Leaves(bucket, order)
<1> HIDE DEF leaves
<1>1. PICK f : IsUpto(f, leaves, n) /\ lists(bucket, order, n) = f[n]
  BY ListsUnfold DEF leaves
<1>2. leaves \in Seq(Items)
  BY DEF leaves
<1> DEFINE S == {m \in 0 .. n - 1 : IsLists(f[m + 1], leaves, m + 1)}
<1>3. 0 \in S
  <2>1. 1 \in 1 .. n /\ f[1] = <<leaves>>
    BY <1>1 DEF IsUpto
  <2>2. IsLists(f[1], leaves, 1)
    BY <1>2, <2>1 DEF IsLists
  <2>3. QED
    BY <2>2
<1>4. ASSUME NEW m \in 0 .. (n - 1) - 1, m \in S
      PROVE  m + 1 \in S
  <2> DEFINE before == f[m + 1]
             more == merge(leaves, packages(before[m + 1]))
  <2>1. m + 2 \in 1 .. n /\ m + 2 # 1 /\ (m + 2) - 1 = m + 1 /\ m + 1 \in Nat
        /\ m + 1 \in 0 .. n - 1 /\ (m + 1) + 1 = m + 2 /\ m + 1 \in 1 .. m + 1
    OBVIOUS
  <2>2. f[m + 2] = Append(before, more)
    <3>1. f[m + 2] = Longer(f[(m + 2) - 1], m + 2, leaves)
      BY <1>1, <2>1 DEF IsUpto
    <3>2. QED
      BY <2>1, <3>1 DEF Longer
  <2>3. IsLists(before, leaves, m + 1)
    BY <1>4
  <2>4. before \in Seq(Seq(Items)) /\ Len(before) = m + 1
    BY <2>3 DEF IsLists
  <2>5. before[m + 1] \in Seq(Items)
    BY <2>1, <2>4
  <2>6. more \in Seq(Items)
    BY <1>2, <2>5, PackagesAre, MergeIs DEF IsMerge
  <2> HIDE DEF before
  <2>7. /\ f[m + 2] \in Seq(Seq(Items)) /\ Len(f[m + 2]) = m + 2
        /\ f[m + 2][m + 2] = more
        /\ \A i \in 1 .. m + 1 : f[m + 2][i] = before[i]
    <3> HIDE DEF more
    <3>1. QED
      BY <2>1, <2>2, <2>4, <2>6, SMTT(60)
  <2>8. f[m + 2][1] = leaves
    BY <2>3, <2>7 DEF IsLists
  <2>9. ASSUME NEW i \in 1 .. (m + 2) - 1
        PROVE  f[m + 2][i + 1] = merge(leaves, packages(f[m + 2][i]))
    <3>1. CASE i = m + 1
      BY <2>1, <2>7, <3>1
    <3>2. CASE i # m + 1
      <4>1. i \in 1 .. (m + 1) - 1 /\ i \in 1 .. m + 1 /\ i + 1 \in 1 .. m + 1
        BY <3>2
      <4>2. before[i + 1] = merge(leaves, packages(before[i]))
        BY <2>3, <4>1 DEF IsLists
      <4>3. QED
        BY <2>7, <4>1, <4>2
    <3>3. QED
      BY <3>1, <3>2
  <2>10. IsLists(f[m + 2], leaves, m + 2)
    BY <2>7, <2>8, <2>9 DEF IsLists
  <2>11. QED
    BY <2>1, <2>10
<1> HIDE DEF S
<1>5. n - 1 \in S
  <2>1. n - 1 \in Nat /\ n - 1 \in 0 .. n - 1
    OBVIOUS
  <2>2. QED
    BY <1>3, <1>4, <2>1, IntervalInduction
<1>6. (n - 1) + 1 = n
  OBVIOUS
<1>7. QED
  BY <1>1, <1>5, <1>6 DEF S, leaves

-------------------------------------------------------------------------------
(* What is taken of a list.                                                *)

\* The codes of the leaves are not negative, and differ; heavier leaves
\* come later.
IsLeaves(leaves) ==
  /\ leaves \in Seq(Items)
  /\ \A j \in 1 .. Len(leaves) : leaves[j].first \in Nat
  /\ \A j, k \in 1 .. Len(leaves) :
       /\ j <= k => leaves[j].weight <= leaves[k].weight
       /\ leaves[j].first = leaves[k].first => j = k

\* Packages name the items they are made of.
IsPacks(packs) ==
  /\ packs \in Seq(Items)
  /\ \A k \in 1 .. Len(packs) : packs[k].first = -1 - 2 * (k - 1)

LEMMA MaxIs ==
  ASSUME NEW S \in SUBSET Int, NEW x \in S, \A y \in S : y <= x
  PROVE  Max(S) = x
<1>1. \A z \in S : (\A y \in S : z >= y) => z = x
  <2>1. SUFFICES ASSUME NEW z \in S, z >= x, x >= z
                 PROVE  z = x
    OBVIOUS
  <2>2. z \in Int /\ x \in Int
    OBVIOUS
  <2>3. QED
    BY <2>1, <2>2
<1>2. \A y \in S : x >= y
  OBVIOUS
<1>3. QED
  BY <1>1, <1>2, Zenon DEF Max

LEMMA MinIs ==
  ASSUME NEW S \in SUBSET Int, NEW x \in S, \A y \in S : x <= y
  PROVE  Min(S) = x
<1>1. \A z \in S : (\A y \in S : z <= y) => z = x
  <2>1. SUFFICES ASSUME NEW z \in S, z <= x, x <= z
                 PROVE  z = x
    OBVIOUS
  <2>2. z \in Int /\ x \in Int
    OBVIOUS
  <2>3. QED
    BY <2>1, <2>2
<1>2. QED
  BY <1>1, Zenon DEF Min

\* An item is a package where its code is negative.
LEMMA ItemIs ==
  ASSUME NEW m, NEW leaves, IsLeaves(leaves), NEW packs, IsPacks(packs), NEW J,
         IsMerge(m, leaves, packs, J), NEW a \in 1 .. Len(m)
  PROVE  IF m[a].first < 0
         THEN /\ J[a] = J[a - 1] /\ a - J[a] \in 1 .. Len(packs)
              /\ m[a] = packs[a - J[a]]
              /\ J[a] < Len(leaves) =>
                   packs[a - J[a]].weight < leaves[J[a] + 1].weight
         ELSE /\ J[a] = J[a - 1] + 1 /\ J[a] \in 1 .. Len(leaves)
              /\ m[a] = leaves[J[a]]
<1>1. CASE J[a] = J[a - 1] + 1 /\ IsLeaf(m, leaves, packs, a, J[a])
  <2>1. J[a] \in 1 .. Len(leaves) /\ m[a] = leaves[J[a]]
    BY <1>1 DEF IsLeaf
  <2>2. m[a].first \in Nat
    BY <2>1 DEF IsLeaves
  <2>3. ~ (m[a].first < 0)
    BY <2>2
  <2>4. QED
    BY <1>1, <2>1, <2>3
<1>2. CASE J[a] = J[a - 1] /\ IsPack(m, leaves, packs, a, J[a])
  <2> DEFINE k == a - J[a]
  <2>1. /\ k \in 1 .. Len(packs) /\ m[a] = packs[k]
        /\ J[a] < Len(leaves) => packs[k].weight < leaves[J[a] + 1].weight
    BY <1>2 DEF IsPack
  <2> HIDE DEF k
  <2>2. m[a].first = -1 - 2 * (k - 1) /\ k \in Int /\ k >= 1
    BY <2>1 DEF IsPacks
  <2>3. m[a].first < 0
    BY <2>2
  <2>4. QED
    BY <1>2, <2>1, <2>3 DEF k
<1>3. QED
  BY <1>1, <1>2 DEF IsMerge

\* new_bound(): both halves of every package that is taken.
LEMMA NewBoundIs ==
  ASSUME NEW m, NEW leaves, IsLeaves(leaves), NEW packs, IsPacks(packs), NEW J,
         IsMerge(m, leaves, packs, J), NEW b \in 0 .. Len(m)
  PROVE  new_bound(m, b) = 2 * (b - J[b])
<1> DEFINE packed == {j \in 1 .. b : m[j].first < 0}
<1>1. /\ Len(m) \in Nat /\ \A p \in 0 .. Len(m) : J[p] \in Nat /\ p - J[p] \in Nat
      /\ leaves \in Seq(Items) /\ packs \in Seq(Items)
  BY DEF IsMerge, IsLeaves, IsPacks
<1>2. ASSUME NEW j \in packed
      PROVE  /\ j \in 1 .. b /\ j - J[j] = (j - 1) - J[j - 1] + 1
             /\ j - J[j] <= b - J[b] /\ (j - 1) - J[j - 1] \in Nat
             /\ m[j].first = -1 - 2 * (j - J[j] - 1)
  <2>1. /\ j \in 1 .. b /\ j \in 1 .. Len(m) /\ j \in 0 .. Len(m)
        /\ j - 1 \in 0 .. Len(m) /\ j <= b /\ m[j].first < 0
    BY <1>1
  <2>2. /\ J[j] = J[j - 1] /\ j - J[j] \in 1 .. Len(packs)
        /\ m[j] = packs[j - J[j]]
    BY <2>1, ItemIs
  <2>3. j - J[j] <= b - J[b]
    BY <1>1, <2>1, MergeGrows
  <2>4. m[j].first = -1 - 2 * (j - J[j] - 1)
    BY <2>2 DEF IsPacks
  <2>5. J[j] \in Nat /\ J[j - 1] \in Nat /\ (j - 1) - J[j - 1] \in Nat
    BY <1>1, <2>1
  <2>6. j - J[j] = (j - 1) - J[j - 1] + 1
    BY <2>1, <2>2, <2>5
  <2>7. QED
    BY <2>1, <2>3, <2>4, <2>5, <2>6
<1>3. CASE b - J[b] = 0
  <2>1. packed = {}
    <3>1. ASSUME NEW j \in packed PROVE FALSE
      <4>1. j \in Int /\ J[j] \in Nat
        BY <1>1
      <4>2. (j - 1) - J[j - 1] \in Nat /\ (j - 1) - J[j - 1] + 1 <= 0
        BY <1>2, <1>3, <4>1
      <4>3. \A x \in Nat : ~ (x + 1 <= 0)
        OBVIOUS
      <4>4. QED
        BY <4>2, <4>3, Zenon
    <3>2. QED
      BY <3>1, Zenon
  <2>2. new_bound(m, b) = 0
    BY <2>1, Zenon DEF new_bound
  <2>3. QED
    BY <1>3, <2>2
<1>4. CASE b - J[b] # 0
  <2> DEFINE k == b - J[b]
  <2>1. k \in Nat /\ k \in 1 .. b - J[b]
    BY <1>1, <1>4
  <2> HIDE DEF k
  <2>2. PICK a \in 1 .. b : /\ a - J[a] = k /\ J[a - 1] = J[a]
                            /\ IsPack(m, leaves, packs, a, J[a])
    <3>1. leaves \in Seq(Items) /\ packs \in Seq(Items)
      BY <1>1
    <3>2. IsMerge(m, leaves, packs, J) /\ b \in 0 .. Len(m)
      OBVIOUS
    <3>3. k \in 1 .. b - J[b]
      BY <2>1
    <3>4. QED
      BY <3>1, <3>2, <3>3, PackAt
  <2>3. a \in 1 .. Len(m) /\ a \in 0 .. Len(m) /\ a \in Int /\ a - 1 \in 0 .. Len(m)
    BY <1>1
  <2>4. k \in 1 .. Len(packs) /\ m[a] = packs[k]
    BY <2>2 DEF IsPack
  <2> HIDE DEF k
  <2>5. m[a].first = -1 - 2 * (k - 1)
    BY <2>4 DEF IsPacks
  <2>6. a \in packed
    <3>1. m[a].first < 0
      BY <2>1, <2>5
    <3>2. QED
      BY <3>1
  <2>7. ASSUME NEW j \in packed
        PROVE  j <= a
    <3>1. SUFFICES ASSUME j > a PROVE FALSE
      BY <2>3
    <3>2. j \in 1 .. Len(m) /\ j - 1 \in 0 .. Len(m) /\ a <= j - 1
      BY <1>1, <2>3, <3>1
    <3>3. a - J[a] <= (j - 1) - J[j - 1]
      BY <1>1, <2>3, <3>2, MergeGrows
    <3>4. j - J[j] <= k /\ j - J[j] = (j - 1) - J[j - 1] + 1
          /\ (j - 1) - J[j - 1] \in Nat
      BY <1>2 DEF k
    <3>5. QED
      BY <2>1, <2>2, <3>3, <3>4
  <2> HIDE DEF packed
  <2>8. Max(packed) = a
    <3>1. packed \subseteq Int
      BY DEF packed
    <3>2. QED
      BY <2>6, <2>7, <3>1, MaxIs
  <2>9. new_bound(m, b) = 1 - m[a].first
    <3>1. packed # {}
      BY <2>6
    <3>2. QED
      BY <2>8, <3>1 DEF new_bound, packed
  <2>10. QED
    BY <2>1, <2>5, <2>9 DEF k
<1>5. QED
  BY <1>3, <1>4

-------------------------------------------------------------------------------
(* All lists, and what is taken of each.                                   *)

\* What list i has packages of.
Before(all, i) == IF i = 1 THEN <<>> ELSE packages(all[i - 1])

\* J[i][b] leaves are among the first b items of list i.
AllMerged(all, leaves, n, J) ==
  \A i \in 1 .. n : IsMerge(all[i], leaves, Before(all, i), J[i])

LEMMA BeforeIs ==
  ASSUME NEW n \in Nat \ {0}, NEW all, NEW leaves, IsLists(all, leaves, n),
         NEW i \in 1 .. n
  PROVE  /\ all[i] \in Seq(Items) /\ IsPacks(Before(all, i))
         /\ i = 1 => Len(Before(all, i)) = 0
         /\ i # 1 => /\ i - 1 \in 1 .. n /\ all[i - 1] \in Seq(Items)
                     /\ Before(all, i) = packages(all[i - 1])
<1>1. all \in Seq(Seq(Items)) /\ Len(all) = n
  BY DEF IsLists
<1>2. \A k \in 1 .. n : all[k] \in Seq(Items)
  BY <1>1
<1>3. CASE i = 1
  <2>1. Before(all, i) = <<>>
    BY <1>3 DEF Before
  <2>2. IsPacks(<<>>) /\ Len(<<>>) = 0
    BY DEF IsPacks
  <2>3. QED
    BY <1>2, <1>3, <2>1, <2>2
<1>4. CASE i # 1
  <2>1. i - 1 \in 1 .. n
    BY <1>4
  <2>2. Before(all, i) = packages(all[i - 1])
    BY <1>4 DEF Before
  <2> DEFINE list == all[i - 1]
  <2>3. list \in Seq(Items)
    BY <1>2, <2>1
  <2> HIDE DEF list
  <2>4. IsPacks(packages(list))
    <3>1. /\ packages(list) \in Seq(Items)
          /\ \A k \in 1 .. Len(packages(list)) :
               packages(list)[k].first = -1 - 2 * (k - 1)
      BY <2>3, PackagesAre
    <3>2. QED
      BY <3>1 DEF IsPacks
  <2>5. QED
    BY <1>2, <1>4, <2>1, <2>2, <2>3, <2>4 DEF list
<1>5. QED
  BY <1>3, <1>4

LEMMA MergesExist ==
  ASSUME NEW n \in Nat \ {0}, NEW all, NEW leaves, IsLeaves(leaves),
         IsLists(all, leaves, n)
  PROVE  \E J : AllMerged(all, leaves, n, J)
<1>1. ASSUME NEW i \in 1 .. n
      PROVE  \E J : IsMerge(all[i], leaves, Before(all, i), J)
  <2>1. leaves \in Seq(Items)
    BY DEF IsLeaves
  <2>2. CASE i = 1
    <3> DEFINE J == [b \in 0 .. Len(leaves) |-> b]
    <3>1. all[i] = leaves /\ Before(all, i) = <<>>
      BY <2>2 DEF IsLists, Before
    <3>2. Len(leaves) \in Nat /\ Len(<<>>) = 0
      BY <2>1
    <3>3. ASSUME NEW b \in 1 .. Len(leaves)
          PROVE  J[b] = J[b - 1] + 1 /\ IsLeaf(leaves, leaves, <<>>, b, J[b])
      <4>1. b \in 0 .. Len(leaves) /\ b - 1 \in 0 .. Len(leaves)
        BY <3>2
      <4>2. J[b] = b /\ J[b - 1] = b - 1
        BY <4>1
      <4>3. IsLeaf(leaves, leaves, <<>>, b, b)
        BY <3>2 DEF IsLeaf
      <4>4. QED
        BY <4>2, <4>3
    <3>4. J[0] = 0 /\ \A b \in 0 .. Len(leaves) : J[b] = b
      BY <3>2
    <3> HIDE DEF J
    <3>5. \A b \in 0 .. Len(leaves) : J[b] \in 0 .. Len(leaves)
                                      /\ b - J[b] \in 0 .. Len(<<>>)
      BY <3>2, <3>4
    <3>6. Len(leaves) = Len(leaves) + Len(<<>>)
      BY <3>2
    <3>7. IsMerge(leaves, leaves, <<>>, J)
      BY <2>1, <3>3, <3>4, <3>5, <3>6 DEF IsMerge
    <3>8. QED
      BY <3>1, <3>7
  <2>3. CASE i # 1
    <3>1. i - 1 \in 1 .. n - 1 /\ (i - 1) + 1 = i
      BY <2>3
    <3>2. all[i] = merge(leaves, Before(all, i))
      <4>1. all[(i - 1) + 1] = merge(leaves, packages(all[i - 1]))
        BY <3>1 DEF IsLists
      <4>2. QED
        BY <2>3, <3>1, <4>1 DEF Before
    <3>3. Before(all, i) \in Seq(Items)
      BY BeforeIs DEF IsPacks
    <3>4. QED
      BY <2>1, <3>2, <3>3, MergeIs
  <2>4. QED
    BY <2>2, <2>3
<1> DEFINE J == [i \in 1 .. n |->
                   CHOOSE j : IsMerge(all[i], leaves, Before(all, i), j)]
<1>2. ASSUME NEW i \in 1 .. n
      PROVE  IsMerge(all[i], leaves, Before(all, i), J[i])
  BY <1>1, Zenon
<1>3. QED
  BY <1>2 DEF AllMerged

\* The last list is long enough: n lists hold the codes of 2 ^ n leaves.
LEMMA ListsLong ==
  ASSUME NEW n \in Nat \ {0}, NEW all, NEW leaves, IsLeaves(leaves),
         IsLists(all, leaves, n), NEW J, AllMerged(all, leaves, n, J),
         Len(leaves) <= 2 ^ n
  PROVE  2 * Len(leaves) - 2 <= Len(all[n])
<1> DEFINE N == Len(leaves)
           short(i) == 2 * N - Len(all[i])
           S == {m \in 0 .. n - 1 : short(m + 1) <= 2 ^ (n - m)}
<1>1. N \in Nat /\ leaves \in Seq(Items)
  BY DEF IsLeaves
<1>2. 0 \in S
  <2>1. all[1] = leaves
    BY DEF IsLists
  <2>2. n - 0 = n /\ 0 + 1 = 1 /\ 0 \in 0 .. n - 1
    OBVIOUS
  <2>3. 2 * N - N <= 2 ^ n
    BY <1>1
  <2>4. short(0 + 1) <= 2 ^ (n - 0)
    <3>1. short(1) = 2 * N - N
      BY <2>1
    <3>2. QED
      BY <2>2, <2>3, <3>1
  <2>5. QED
    BY <2>2, <2>4
<1>3. ASSUME NEW m \in 0 .. (n - 1) - 1, m \in S
      PROVE  m + 1 \in S
  <2>1. /\ m + 1 \in 1 .. n /\ m + 2 \in 1 .. n /\ m + 2 # 1 /\ (m + 2) - 1 = m + 1
        /\ m + 1 \in 0 .. n - 1 /\ (m + 1) + 1 = m + 2 /\ n - (m + 1) \in Nat
        /\ (n - (m + 1)) + 1 = n - m
    OBVIOUS
  <2> DEFINE len == Len(all[m + 1])
             h == len \div 2
             w == 2 ^ (n - (m + 1))
  <2>2. all[m + 1] \in Seq(Items) /\ Before(all, m + 2) = packages(all[m + 1])
    BY <2>1, BeforeIs
  <2>3. Len(packages(all[m + 1])) = h
    BY <2>2, PackagesAre
  <2>4. Len(all[m + 2]) = N + h
    <3>1. Len(all[m + 2]) = N + Len(Before(all, m + 2))
      BY <2>1 DEF AllMerged, IsMerge
    <3>2. QED
      BY <2>2, <2>3, <3>1
  <2>5. len \in Nat
    BY <2>2
  <2>6. 2 ^ (n - m) = 2 * w /\ w \in Nat
    BY <2>1, PowerOfTwo
  <2>7. 2 * N - len <= 2 * w
    BY <1>3, <2>6
  <2> HIDE DEF len, w, N
  <2>8. 2 * N - (N + h) <= w
    BY <1>1, <2>5, <2>6, <2>7
  <2>9. short(m + 2) <= w
    BY <2>4, <2>8
  <2>10. QED
    BY <2>1, <2>9 DEF w
<1> HIDE DEF S, N
<1>4. n - 1 \in S
  <2>1. n - 1 \in Nat /\ n - 1 \in 0 .. n - 1
    OBVIOUS
  <2>2. QED
    BY <1>2, <1>3, <2>1, IntervalInduction
<1>5. (n - 1) + 1 = n /\ n - (n - 1) = 1 /\ 2 ^ 1 = 2
  OBVIOUS
<1>6. 2 * N - Len(all[n]) <= 2
  BY <1>4, <1>5 DEF S
<1>7. Len(all[n]) \in Nat
  BY BeforeIs
<1>8. QED
  BY <1>1, <1>6, <1>7 DEF N

\* The bounds, from the last list to the first.
IsBound(f, all, top, n, low) ==
  f = [i \in low .. n |-> IF i = n THEN top ELSE new_bound(all[i + 1], f[i + 1])]

LEMMA BoundExists ==
  ASSUME NEW n \in Nat \ {0}, NEW all, NEW top
  PROVE  \E f : IsBound(f, all, top, n, 1)
<1> DEFINE S == {m \in 0 .. n - 1 : \E f : IsBound(f, all, top, n, n - m)}
<1>1. 0 \in S
  <2>1. IsBound([i \in n .. n |-> top], all, top, n, n)
    BY DEF IsBound
  <2>2. n - 0 = n
    OBVIOUS
  <2>3. QED
    BY <2>1, <2>2
<1>2. ASSUME NEW m \in 0 .. (n - 1) - 1, m \in S
      PROVE  m + 1 \in S
  <2> DEFINE low == n - m
  <2>1. PICK f : IsBound(f, all, top, n, low)
    BY <1>2
  <2>2. low \in 2 .. n /\ n - (m + 1) = low - 1 /\ m + 1 \in 0 .. n - 1
    OBVIOUS
  <2> HIDE DEF low
  <2> DEFINE g == [i \in low - 1 .. n |->
                     IF i = low - 1 THEN new_bound(all[low], f[low]) ELSE f[i]]
  <2>3. ASSUME NEW i \in low - 1 .. n
        PROVE  g[i] = IF i = n THEN top ELSE new_bound(all[i + 1], g[i + 1])
    <3>1. CASE i = low - 1
      <4>1. i # n /\ i + 1 = low /\ low \in low - 1 .. n /\ low # low - 1
        BY <2>2, <3>1
      <4>2. g[i] = new_bound(all[low], f[low]) /\ g[low] = f[low]
        BY <3>1, <4>1
      <4>3. QED
        BY <4>1, <4>2
    <3>2. CASE i # low - 1
      <4>1. i \in low .. n
        BY <2>2, <3>2
      <4>2. g[i] = f[i]
        BY <3>2
      <4>3. f[i] = IF i = n THEN top ELSE new_bound(all[i + 1], f[i + 1])
        BY <2>1, <4>1 DEF IsBound
      <4>4. CASE i = n
        BY <4>2, <4>3, <4>4
      <4>5. CASE i # n
        <5>1. i + 1 \in low - 1 .. n /\ i + 1 # low - 1
          BY <2>2, <4>1, <4>5
        <5>2. g[i + 1] = f[i + 1]
          BY <5>1
        <5>3. QED
          BY <4>2, <4>3, <4>5, <5>2
      <4>6. QED
        BY <4>4, <4>5
    <3>3. QED
      BY <3>1, <3>2
  <2>4. IsBound(g, all, top, n, low - 1)
    <3>1. DOMAIN g = low - 1 .. n
      OBVIOUS
    <3> HIDE DEF g
    <3>2. g = [i \in low - 1 .. n |-> g[i]]
      BY <3>1 DEF g
    <3>3. QED
      BY <2>3, <3>2 DEF IsBound
  <2>5. QED
    BY <2>2, <2>4
<1> HIDE DEF S
<1>3. n - 1 \in S
  <2>1. n - 1 \in Nat /\ n - 1 \in 0 .. n - 1
    OBVIOUS
  <2>2. QED
    BY <1>1, <1>2, <2>1, IntervalInduction
<1>4. n - (n - 1) = 1
  OBVIOUS
<1>5. QED
  BY <1>3, <1>4 DEF S

LEMMA LengthsUnfold ==
  ASSUME NEW bucket, NEW order, NEW n \in Nat \ {0}, NEW all, NEW top,
         all = lists(bucket, order, n), top = 2 * (Len(order) - 1)
  PROVE  \E f : /\ IsBound(f, all, top, n, 1)
                /\ lengths(bucket, order, n)
                     = [c \in DOMAIN bucket |->
                          Cardinality({i \in 1 .. n :
                             \E j \in 1 .. f[i] : c = all[i][j].first})]
<1> DEFINE A == lists(bucket, order, n)
           B == 2 * (Len(order) - 1)
           Unfolds(f) ==
             f = [i \in 1 .. n |->
                    IF i = n THEN B ELSE new_bound(A[i + 1], f[i + 1])]
           bound == CHOOSE f : Unfolds(f)
           taken == [i \in 1 .. n |-> {A[i][j].first : j \in 1 .. bound[i]}]
<1>1. \E f : IsBound(f, A, B, n, 1)
  BY BoundExists
<1>2. \A f : IsBound(f, A, B, n, 1) <=> Unfolds(f)
  BY Zenon DEF IsBound
<1>3. Unfolds(bound)
  <2> HIDE DEF Unfolds
  <2>1. QED
    BY <1>1, <1>2
<1>4. lengths(bucket, order, n)
      = [c \in DOMAIN bucket |-> Cardinality({i \in 1 .. n : c \in taken[i]})]
  BY Zenon DEF lengths
<1> HIDE DEF bound, A, B
<1>5. ASSUME NEW c
      PROVE  {i \in 1 .. n : c \in taken[i]}
             = {i \in 1 .. n : \E j \in 1 .. bound[i] : c = A[i][j].first}
  OBVIOUS
<1>6. lengths(bucket, order, n)
      = [c \in DOMAIN bucket |->
           Cardinality({i \in 1 .. n : \E j \in 1 .. bound[i] : c = A[i][j].first})]
  <2> HIDE DEF taken
  <2>1. QED
    BY <1>4, <1>5, Zenon
<1>7. IsBound(bound, A, B, n, 1)
  <2> HIDE DEF Unfolds
  <2>1. QED
    BY <1>2, <1>3
<1>8. A = all /\ B = top
  BY DEF A, B
<1>9. QED
  BY <1>6, <1>7, <1>8

LEMMA BoundsAre ==
  ASSUME NEW n \in Nat \ {0}, NEW all, NEW leaves, IsLeaves(leaves),
         IsLists(all, leaves, n), NEW J, AllMerged(all, leaves, n, J),
         2 <= Len(leaves), Len(leaves) <= 2 ^ n,
         NEW f, IsBound(f, all, 2 * (Len(leaves) - 1), n, 1)
  PROVE  /\ \A i \in 1 .. n : f[i] \in 0 .. Len(all[i])
         /\ f[n] = 2 * (Len(leaves) - 1)
         /\ \A i \in 1 .. n - 1 : f[i] = 2 * (f[i + 1] - J[i + 1][f[i + 1]])
<1>1. Len(leaves) \in Nat
  BY DEF IsLeaves
<1>2. \A i \in 1 .. n : Len(all[i]) \in Nat /\ IsMerge(all[i], leaves, Before(all, i), J[i])
  BY BeforeIs DEF AllMerged
<1>3. f[n] = 2 * (Len(leaves) - 1) /\ f[n] \in 0 .. Len(all[n])
  <2>1. n \in 1 .. n /\ Len(all[n]) \in Nat
    BY <1>2
  <2>2. f[n] = 2 * (Len(leaves) - 1)
    BY <2>1 DEF IsBound
  <2>3. 2 * Len(leaves) - 2 <= Len(all[n])
    BY ListsLong
  <2> DEFINE N == Len(leaves)
             len == Len(all[n])
  <2>4. N \in Nat /\ len \in Nat /\ 2 <= N /\ 2 * N - 2 <= len
    BY <1>1, <2>1, <2>3
  <2> HIDE DEF N, len
  <2>5. 2 * (N - 1) \in 0 .. len
    BY <2>4
  <2>6. QED
    BY <2>2, <2>5 DEF N, len
<1>4. ASSUME NEW i \in 1 .. n - 1, f[i + 1] \in 0 .. Len(all[i + 1])
      PROVE  /\ f[i] = 2 * (f[i + 1] - J[i + 1][f[i + 1]])
             /\ f[i] \in 0 .. Len(all[i])
  <2>1. /\ i \in 1 .. n /\ i # n /\ i + 1 \in 1 .. n /\ i + 1 # 1 /\ (i + 1) - 1 = i
    OBVIOUS
  <2> DEFINE m == all[i + 1]
             b == f[i + 1]
             j == J[i + 1]
             packs == Before(all, i + 1)
  <2>2. f[i] = new_bound(m, b)
    BY <2>1 DEF IsBound
  <2>3. IsMerge(m, leaves, packs, j) /\ IsPacks(packs) /\ b \in 0 .. Len(m)
    BY <1>2, <1>4, <2>1, BeforeIs
  <2>4. packs = packages(all[i]) /\ all[i] \in Seq(Items)
    BY <2>1, BeforeIs
  <2>5. Len(packs) = Len(all[i]) \div 2
        /\ 2 * (Len(all[i]) \div 2) \in {Len(all[i]), Len(all[i]) - 1}
        /\ Len(packs) \in Nat
    <3>1. all[i] \in Seq(Items)
      BY <2>4
    <3>2. /\ Len(packages(all[i])) = Len(all[i]) \div 2
          /\ 2 * (Len(all[i]) \div 2) \in {Len(all[i]), Len(all[i]) - 1}
          /\ Len(all[i]) \div 2 \in Nat
      BY <3>1, PackagesAre
    <3> HIDE DEF packs
    <3>3. QED
      BY <2>4, <3>2
  <2> DEFINE len == Len(all[i])
             k == b - j[b]
             np == Len(packs)
  <2>6. k \in 0 .. Len(packs)
    BY <2>3 DEF IsMerge
  <2> HIDE DEF m, b, j, packs
  <2>7. new_bound(m, b) = 2 * (b - j[b])
    BY <2>3, NewBoundIs
  <2>8. len \in Nat /\ 2 * np <= len
    <3>1. len \in Nat
      BY <1>2, <2>1
    <3> HIDE DEF len
    <3>2. 2 * np \in {len, len - 1}
      BY <2>5 DEF len
    <3>3. np \in Nat
      BY <2>5
    <3> HIDE DEF np
    <3>4. QED
      BY <3>1, <3>2, <3>3
  <2> HIDE DEF len, k, np
  <2>9. 2 * k \in 0 .. len
    <3>1. np \in Nat /\ k \in 0 .. np
      BY <2>5, <2>6 DEF np
    <3>2. k \in Nat /\ k <= np
      BY <3>1
    <3>3. QED
      BY <2>8, <3>1, <3>2
  <2>10. QED
    BY <2>2, <2>7, <2>9 DEF m, b, j, k, len
<1> DEFINE S == {m \in 0 .. n - 1 : f[n - m] \in 0 .. Len(all[n - m])}
<1>5. 0 \in S
  <2>1. n - 0 = n /\ 0 \in 0 .. n - 1
    OBVIOUS
  <2>2. QED
    BY <1>3, <2>1
<1>6. ASSUME NEW m \in 0 .. (n - 1) - 1, m \in S
      PROVE  m + 1 \in S
  <2>1. n - (m + 1) \in 1 .. n - 1 /\ (n - (m + 1)) + 1 = n - m /\ m + 1 \in 0 .. n - 1
    OBVIOUS
  <2>2. f[n - m] \in 0 .. Len(all[n - m])
    BY <1>6
  <2>3. f[n - (m + 1)] \in 0 .. Len(all[n - (m + 1)])
    BY <1>4, <2>1, <2>2
  <2>4. QED
    BY <2>1, <2>3
<1> HIDE DEF S
<1>7. 0 .. n - 1 \subseteq S
  <2>1. n - 1 \in Nat
    OBVIOUS
  <2>2. QED
    BY <1>5, <1>6, <2>1, IntervalInduction
<1>8. ASSUME NEW i \in 1 .. n
      PROVE  f[i] \in 0 .. Len(all[i])
  <2>1. n - i \in 0 .. n - 1 /\ n - (n - i) = i
    OBVIOUS
  <2>2. f[n - (n - i)] \in 0 .. Len(all[n - (n - i)])
    BY <1>7, <2>1 DEF S
  <2>3. QED
    BY <2>1, <2>2
<1>9. ASSUME NEW i \in 1 .. n - 1
      PROVE  f[i] = 2 * (f[i + 1] - J[i + 1][f[i + 1]])
  <2>1. i + 1 \in 1 .. n
    OBVIOUS
  <2>2. QED
    BY <1>4, <1>8, <2>1
<1>10. QED
  BY <1>3, <1>8, <1>9

\* Of list i, l[i] leaves and P[i] packages are taken: the items of two
\* times P[i + 1].  The n-th list is taken as if N - 1 packages were asked of it.
IsLevels(P, l, n, N) ==
  /\ P[1] = 0 /\ P[n + 1] = N - 1
  /\ \A i \in 1 .. n + 1 : P[i] \in Nat
  /\ \A i \in 1 .. n : l[i] \in 0 .. N /\ l[i] = 2 * P[i + 1] - P[i]
  /\ \A i \in 1 .. n - 1 : l[i] <= l[i + 1]

\* A leaf that is taken of a list, in a package, is taken of the next one.
LEMMA MoreLeaves ==
  ASSUME NEW n \in Nat \ {0}, NEW all, NEW leaves, IsLeaves(leaves),
         IsLists(all, leaves, n), NEW J, AllMerged(all, leaves, n, J),
         NEW i \in 1 .. n - 1, NEW a \in 0 .. Len(all[i]), NEW b \in 0 .. Len(all[i + 1]),
         a = 2 * (b - J[i + 1][b])
  PROVE  J[i][a] <= J[i + 1][b]
<1> DEFINE list == all[i]
           next == all[i + 1]
           packs == Before(all, i + 1)
           j == J[i]
           h == J[i + 1]
           x == j[a]
<1>1. /\ i \in 1 .. n /\ i + 1 \in 1 .. n /\ i + 1 # 1 /\ (i + 1) - 1 = i
  OBVIOUS
<1>2. /\ list \in Seq(Items) /\ leaves \in Seq(Items) /\ packs \in Seq(Items)
      /\ packs = packages(list) /\ next \in Seq(Items) /\ Before(all, i) \in Seq(Items)
  BY <1>1, BeforeIs DEF IsPacks, IsLeaves
<1>3. IsMerge(list, leaves, Before(all, i), j) /\ IsMerge(next, leaves, packs, h)
  BY <1>1 DEF AllMerged
<1> HIDE DEF list, next, packs, j, h
<1>4. /\ Len(list) \in Nat /\ Len(next) \in Nat /\ Len(leaves) \in Nat
      /\ a \in 0 .. Len(list) /\ b \in 0 .. Len(next) /\ a = 2 * (b - h[b])
      /\ a \in Nat /\ b \in Nat
  BY <1>2 DEF list, next, h
<1>5. /\ x \in Nat /\ x <= Len(leaves) /\ h[b] \in Nat /\ h[b] <= Len(leaves)
      /\ \A p \in 0 .. Len(next) : h[p] \in Nat /\ h[p] <= Len(leaves)
  <2>1. /\ x \in 0 .. Len(leaves) /\ h[b] \in 0 .. Len(leaves)
        /\ \A p \in 0 .. Len(next) : h[p] \in 0 .. Len(leaves)
    BY <1>3, <1>4 DEF IsMerge
  <2> HIDE DEF x
  <2>2. QED
    BY <1>4, <2>1
<1> HIDE DEF x
<1>6. SUFFICES ASSUME h[b] < x PROVE FALSE
  <2>1. x <= h[b] => J[i][a] <= J[i + 1][b]
    BY DEF x, j, h
  <2>2. QED
    BY <1>5, <2>1
<1>7. x \in 1 .. j[a]
  <2>1. x \in 1 .. x
    BY <1>5, <1>6
  <2>2. QED
    BY <2>1 DEF x
<1>8. PICK p \in 1 .. a : IsLeaf(list, leaves, Before(all, i), p, x)
  BY <1>2, <1>3, <1>4, <1>7, LeafAt
<1> DEFINE k == (p + 1) \div 2
<1>9. k \in Nat /\ k >= 1 /\ p \in {2 * k - 1, 2 * k} /\ 2 * k <= a + 1
  <2>1. p \in Nat /\ p >= 1 /\ p <= a
    BY <1>4
  <2>2. \A y \in Nat : y >= 1 => /\ (y + 1) \div 2 \in Nat /\ (y + 1) \div 2 >= 1
                                /\ \/ y = 2 * ((y + 1) \div 2) - 1
                                   \/ y = 2 * ((y + 1) \div 2)
    OBVIOUS
  <2>3. k \in Nat /\ k >= 1 /\ (p = 2 * k - 1 \/ p = 2 * k)
    BY <2>1, <2>2
  <2> HIDE DEF k
  <2>4. QED
    BY <1>4, <2>1, <2>3, SMTT(60)
<1> HIDE DEF k
<1>10. k \in 1 .. b - h[b]
  <2>1. h[b] \in Int /\ b \in Int
    BY <1>4, <1>5
  <2>2. QED
    BY <1>4, <1>9, <2>1, SMTT(60)
<1>11. PICK q \in 1 .. b : q - h[q] = k /\ IsPack(next, leaves, packs, q, h[q])
  <2>1. \E q \in 1 .. b : q - h[q] = k /\ h[q - 1] = h[q]
                          /\ IsPack(next, leaves, packs, q, h[q])
    BY <1>2, <1>3, <1>4, <1>10, PackAt
  <2>2. QED
    BY <2>1
<1>12. q \in 0 .. Len(next) /\ q <= b
  BY <1>4
<1>13. h[q] <= h[b]
  BY <1>2, <1>3, <1>4, <1>12, MergeGrows
<1>14. /\ k \in 1 .. Len(packs)
       /\ h[q] < Len(leaves) => packs[k].weight < leaves[h[q] + 1].weight
  BY <1>11 DEF IsPack
<1>15. h[q] + 1 \in 1 .. Len(leaves) /\ x \in 1 .. Len(leaves) /\ h[q] + 1 <= x
       /\ h[q] < Len(leaves)
  <2>1. h[q] \in Nat
    BY <1>5, <1>12
  <2> DEFINE y == h[q]
             z == h[b]
             len == Len(leaves)
  <2>2. y \in Nat /\ z \in Nat /\ x \in Nat /\ len \in Nat /\ y <= z /\ z < x /\ x <= len
    BY <1>4, <1>5, <1>6, <1>13, <2>1
  <2> HIDE DEF y, z, len
  <2>3. y + 1 \in 1 .. len /\ x \in 1 .. len /\ y + 1 <= x /\ y < len
    BY <2>2
  <2>4. QED
    BY <2>3 DEF y, len
<1>16. leaves[h[q] + 1].weight <= leaves[x].weight
  BY <1>15 DEF IsLeaves
<1>17. /\ packs[k].weight = list[2 * k - 1].weight + list[2 * k].weight
       /\ 2 * k - 1 \in 1 .. Len(list) /\ 2 * k \in 1 .. Len(list)
  BY <1>2, <1>14, PackagesAre
<1>18. list[p] = leaves[x]
  BY <1>8 DEF IsLeaf
<1>19. list[2 * k - 1].weight \in Nat /\ list[2 * k].weight \in Nat
  BY <1>2, <1>17, ItemType
<1>20. leaves[x].weight <= packs[k].weight
  <2>1. CASE p = 2 * k
    <3>1. leaves[x].weight = list[2 * k].weight
      BY <1>18, <2>1
    <3>2. QED
      BY <1>17, <1>19, <3>1
  <2>2. CASE p = 2 * k - 1
    <3>1. leaves[x].weight = list[2 * k - 1].weight
      BY <1>18, <2>2
    <3>2. QED
      BY <1>17, <1>19, <3>1, SMTT(60)
  <2>3. QED
    BY <1>9, <2>1, <2>2
<1>21. leaves[h[q] + 1].weight \in Nat /\ leaves[x].weight \in Nat /\ packs[k].weight \in Nat
  BY <1>2, <1>14, <1>15, ItemType
<1>22. packs[k].weight < leaves[h[q] + 1].weight
  BY <1>14, <1>15
<1>23. \A u, v, w \in Nat : ~ (u < v /\ v <= w /\ w <= u)
  OBVIOUS
<1>24. QED
  BY <1>16, <1>20, <1>21, <1>22, <1>23, Zenon

\* The number of leaves and of packages that the bounds take of each list.
LEMMA LevelsAre ==
  ASSUME NEW n \in Nat \ {0}, NEW all, NEW leaves, IsLeaves(leaves),
         IsLists(all, leaves, n), NEW J, AllMerged(all, leaves, n, J),
         2 <= Len(leaves), Len(leaves) <= 2 ^ n,
         NEW f, IsBound(f, all, 2 * (Len(leaves) - 1), n, 1)
  PROVE  LET l == [i \in 1 .. n |-> J[i][f[i]]]
             P == [i \in 1 .. n + 1 |-> IF i = n + 1 THEN Len(leaves) - 1
                                        ELSE f[i] - J[i][f[i]]]
         IN  IsLevels(P, l, n, Len(leaves))
<1> DEFINE l == [i \in 1 .. n |-> J[i][f[i]]]
           P == [i \in 1 .. n + 1 |-> IF i = n + 1 THEN Len(leaves) - 1
                                      ELSE f[i] - J[i][f[i]]]
           N == Len(leaves)
<1>1. N \in Nat /\ N >= 2
  BY DEF IsLeaves
<1>2. /\ \A i \in 1 .. n : f[i] \in 0 .. Len(all[i])
      /\ f[n] = 2 * (N - 1)
      /\ \A i \in 1 .. n - 1 : f[i] = 2 * (f[i + 1] - J[i + 1][f[i + 1]])
  BY BoundsAre
<1>3. P[n + 1] = N - 1
  OBVIOUS
<1>4. \A i \in 1 .. n : l[i] = J[i][f[i]] /\ P[i] = f[i] - J[i][f[i]]
  OBVIOUS
<1> HIDE DEF l, P
<1>5. ASSUME NEW i \in 1 .. n
      PROVE  /\ l[i] \in 0 .. N /\ P[i] \in 0 .. Len(Before(all, i))
             /\ f[i] \in Nat /\ f[i] = l[i] + P[i]
  <2>1. f[i] \in 0 .. Len(all[i]) /\ Len(all[i]) \in Nat
    BY <1>2, BeforeIs
  <2>2. J[i][f[i]] \in 0 .. N /\ f[i] - J[i][f[i]] \in 0 .. Len(Before(all, i))
    BY <2>1 DEF AllMerged, IsMerge
  <2>3. l[i] \in 0 .. N /\ P[i] \in 0 .. Len(Before(all, i)) /\ P[i] = f[i] - l[i]
    BY <1>4, <2>2
  <2> DEFINE u == f[i]
             v == l[i]
  <2>4. u \in Nat /\ v \in Int /\ P[i] = u - v
    BY <1>1, <2>1, <2>3
  <2> HIDE DEF u, v
  <2>5. u = v + P[i]
    BY <2>4
  <2>6. QED
    BY <2>3, <2>4, <2>5 DEF u, v
<1>6. \A i \in 1 .. n : f[i] = 2 * P[i + 1]
  <2>1. SUFFICES ASSUME NEW i \in 1 .. n PROVE f[i] = 2 * P[i + 1]
    OBVIOUS
  <2>2. CASE i = n
    BY <1>2, <1>3, <2>2
  <2>3. CASE i # n
    <3>1. i \in 1 .. n - 1 /\ i + 1 \in 1 .. n
      BY <2>3
    <3>2. P[i + 1] = f[i + 1] - J[i + 1][f[i + 1]]
      BY <1>4, <3>1
    <3>3. f[i] = 2 * (f[i + 1] - J[i + 1][f[i + 1]])
      BY <1>2, <3>1
    <3>4. QED
      BY <3>2, <3>3
  <2>4. QED
    BY <2>2, <2>3
<1>7. P[1] = 0
  <2>1. 1 \in 1 .. n /\ Len(Before(all, 1)) = 0
    BY BeforeIs
  <2>2. P[1] \in 0 .. 0
    BY <1>5, <2>1
  <2>3. QED
    BY <2>2
<1>8. \A i \in 1 .. n + 1 : P[i] \in Nat
  <2>1. SUFFICES ASSUME NEW i \in 1 .. n + 1 PROVE P[i] \in Nat
    OBVIOUS
  <2>2. CASE i = n + 1
    BY <1>1, <1>3, <2>2
  <2>3. CASE i # n + 1
    <3>1. i \in 1 .. n
      BY <2>3
    <3>2. P[i] \in 0 .. Len(Before(all, i))
      BY <1>5, <3>1
    <3>3. QED
      BY <3>2
  <2>4. QED
    BY <2>2, <2>3
<1>9. \A i \in 1 .. n : l[i] \in 0 .. N /\ l[i] = 2 * P[i + 1] - P[i]
  <2>1. SUFFICES ASSUME NEW i \in 1 .. n
                 PROVE  l[i] \in 0 .. N /\ l[i] = 2 * P[i + 1] - P[i]
    OBVIOUS
  <2> DEFINE x == P[i + 1]
             y == P[i]
             z == l[i]
  <2>2. i \in 1 .. n + 1 /\ i + 1 \in 1 .. n + 1
    OBVIOUS
  <2>3. x \in Nat /\ y \in Nat /\ z \in 0 .. N /\ 2 * x = z + y
    BY <1>5, <1>6, <1>8, <2>2
  <2>4. z \in Nat
    BY <1>1, <2>3
  <2> HIDE DEF x, y, z
  <2>5. z = 2 * x - y
    BY <2>3, <2>4
  <2>6. QED
    BY <2>3, <2>5 DEF x, y, z
<1>10. \A i \in 1 .. n - 1 : l[i] <= l[i + 1]
  <2>1. SUFFICES ASSUME NEW i \in 1 .. n - 1 PROVE l[i] <= l[i + 1]
    OBVIOUS
  <2>2. i \in 1 .. n /\ i + 1 \in 1 .. n
    OBVIOUS
  <2>3. f[i] \in 0 .. Len(all[i]) /\ f[i + 1] \in 0 .. Len(all[i + 1])
        /\ f[i] = 2 * (f[i + 1] - J[i + 1][f[i + 1]])
    BY <1>2, <2>2
  <2>4. J[i][f[i]] <= J[i + 1][f[i + 1]]
    BY <2>3, MoreLeaves
  <2>5. QED
    BY <1>4, <2>2, <2>4
<1>11. IsLevels(P, l, n, N)
  BY <1>3, <1>7, <1>8, <1>9, <1>10 DEF IsLevels
<1>12. QED
  BY <1>11 DEF l, P

\* Code c is one of the first b items.
Reaches(m, b, c) == \E a \in 1 .. b : c = m[a].first

\* A leaf is in the first b items when J[b] leaves reach it.
LEMMA TakenIs ==
  ASSUME NEW m, NEW leaves, IsLeaves(leaves), NEW packs, IsPacks(packs), NEW J,
         IsMerge(m, leaves, packs, J), NEW b \in 0 .. Len(m), NEW c \in Nat
  PROVE  Reaches(m, b, c) <=> Reaches(leaves, J[b], c)
<1>1. /\ Len(m) \in Nat /\ leaves \in Seq(Items) /\ packs \in Seq(Items)
      /\ J[b] \in Nat /\ b \in Nat /\ b <= Len(m)
  BY DEF IsMerge, IsLeaves, IsPacks
<1>2. ASSUME NEW a \in 1 .. b, c = m[a].first
      PROVE  \E x \in 1 .. J[b] : c = leaves[x].first
  <2>1. a \in 1 .. Len(m) /\ a \in 0 .. Len(m) /\ a <= b /\ ~ (m[a].first < 0)
    BY <1>1, <1>2
  <2>2. J[a] \in 1 .. Len(leaves) /\ m[a] = leaves[J[a]]
    BY <2>1, ItemIs
  <2>3. J[a] <= J[b]
    BY <1>1, <2>1, MergeGrows
  <2>4. J[a] \in 1 .. J[b]
    BY <1>1, <2>2, <2>3
  <2>5. QED
    BY <1>2, <2>2, <2>4
<1>3. ASSUME NEW x \in 1 .. J[b], c = leaves[x].first
      PROVE  \E a \in 1 .. b : c = m[a].first
  <2>1. PICK a \in 1 .. b : J[a] = x /\ J[a - 1] = x - 1 /\ IsLeaf(m, leaves, packs, a, x)
    BY <1>1, LeafAt
  <2>2. m[a] = leaves[x]
    BY <2>1 DEF IsLeaf
  <2>3. QED
    BY <1>3, <2>2
<1>4. QED
  BY <1>2, <1>3 DEF Reaches

\* order lists codes of the bucket, the rarer ones first.
IsOrder(order, bucket) ==
  /\ order \in Seq(Nat)
  /\ \A x \in 1 .. Len(order) : /\ order[x] \in DOMAIN bucket
                                /\ bucket[order[x]] \in Nat
  /\ \A x, y \in 1 .. Len(order) :
       /\ order[x] = order[y] => x = y
       /\ x <= y => bucket[order[x]] <= bucket[order[y]]

LEMMA LeavesAre ==
  ASSUME NEW bucket, NEW order, IsOrder(order, bucket)
  PROVE  LET leaves == Leaves(bucket, order) IN
         /\ IsLeaves(leaves) /\ Len(leaves) = Len(order)
         /\ \A x \in 1 .. Len(order) : /\ leaves[x].first = order[x]
                                       /\ leaves[x].weight = bucket[order[x]]
<1> DEFINE leaf(x) == [first |-> order[x], weight |-> bucket[order[x]]]
           N == Len(order)
           leaves == [x \in 1 .. N |-> leaf(x)]
<1>1. Leaves(bucket, order) = leaves /\ N \in Nat
  BY DEF Leaves, IsOrder
<1>2. ASSUME NEW x \in 1 .. N
      PROVE  leaf(x) \in Items
  <2> DEFINE c == order[x]
             w == bucket[c]
  <2>1. c \in Nat /\ w \in Nat
    BY DEF IsOrder
  <2> HIDE DEF c, w
  <2>2. [first |-> c, weight |-> w] \in Items
    BY <2>1 DEF Items
  <2>3. QED
    BY <2>2 DEF c, w
<1>3. \A x \in 1 .. N : leaves[x].first = order[x] /\ leaves[x].weight = bucket[order[x]]
  OBVIOUS
<1>4. leaves \in Seq(Items) /\ Len(leaves) = N
  <2> HIDE DEF leaf
  <2>1. QED
    BY <1>1, <1>2
<1> HIDE DEF leaves
<1>5. IsLeaves(leaves)
  <2>1. \A x \in 1 .. N : leaves[x].first \in Nat
    BY <1>3 DEF IsOrder
  <2>2. \A x, y \in 1 .. N : /\ x <= y => leaves[x].weight <= leaves[y].weight
                             /\ leaves[x].first = leaves[y].first => x = y
    BY <1>3 DEF IsOrder
  <2>3. QED
    BY <1>4, <2>1, <2>2 DEF IsLeaves
<1>6. QED
  BY <1>1, <1>3, <1>4, <1>5

\* The number of lists that the leaf of a code is taken of.
Depths(order, l, n, codes) ==
  [c \in codes |-> Cardinality({i \in 1 .. n : \E x \in 1 .. l[i] : c = order[x]})]

\* a leaves and p packages are the first items of m.
InFront(m, leaves, packs, a, p) ==
  /\ a + p \in 0 .. Len(m)
  /\ \E J : IsMerge(m, leaves, packs, J) /\ J[a + p] = a

\* l[i] leaves and P[i] packages are taken of list i.
IsTaken(all, leaves, n, P, l) ==
  \A i \in 1 .. n : InFront(all[i], leaves, Before(all, i), l[i], P[i])

\* lengths(): the length of a code is the number of lists that its leaf is
\* taken of.
LEMMA LengthsAre ==
  ASSUME NEW bucket, DOMAIN bucket \subseteq Nat, NEW order, IsOrder(order, bucket),
         NEW n \in Nat \ {0}, 2 <= Len(order), Len(order) <= 2 ^ n
  PROVE  \E P, l :
           /\ IsLevels(P, l, n, Len(order))
           /\ lengths(bucket, order, n) = Depths(order, l, n, DOMAIN bucket)
           /\ IsTaken(lists(bucket, order, n), Leaves(bucket, order), n, P, l)
<1> DEFINE leaves == Leaves(bucket, order)
           all == lists(bucket, order, n)
           N == Len(order)
           top == 2 * (N - 1)
<1>1. /\ IsLeaves(leaves) /\ Len(leaves) = N
      /\ \A x \in 1 .. N : leaves[x].first = order[x]
  BY LeavesAre
<1>2. IsLists(all, leaves, n)
  BY <1>1, ListsAre DEF IsLeaves
<1>3. PICK J : AllMerged(all, leaves, n, J)
  <2> HIDE DEF all, leaves
  <2>1. QED
    BY <1>1, <1>2, MergesExist
<1> HIDE DEF top
<1>4. PICK f : /\ IsBound(f, all, top, n, 1)
               /\ lengths(bucket, order, n)
                    = [c \in DOMAIN bucket |->
                         Cardinality({i \in 1 .. n :
                            \E j \in 1 .. f[i] : c = all[i][j].first})]
  <2>1. all = lists(bucket, order, n) /\ top = 2 * (Len(order) - 1)
    BY DEF top
  <2> HIDE DEF all
  <2>2. QED
    BY <2>1, LengthsUnfold
<1> DEFINE l == [i \in 1 .. n |-> J[i][f[i]]]
           P == [i \in 1 .. n + 1 |-> IF i = n + 1 THEN N - 1
                                      ELSE f[i] - J[i][f[i]]]
<1> HIDE DEF all, leaves
<1>5. IsLevels(P, l, n, N) /\ \A i \in 1 .. n : f[i] \in 0 .. Len(all[i])
  <2>1. 2 <= Len(leaves) /\ Len(leaves) <= 2 ^ n
        /\ IsBound(f, all, 2 * (Len(leaves) - 1), n, 1)
    BY <1>1, <1>4 DEF top
  <2>2. LET Q == [i \in 1 .. n + 1 |-> IF i = n + 1 THEN Len(leaves) - 1
                                       ELSE f[i] - J[i][f[i]]]
        IN  IsLevels(Q, l, n, Len(leaves))
    BY <1>1, <1>2, <1>3, <2>1, LevelsAre, ZenonT(60)
  <2>3. \A i \in 1 .. n : f[i] \in 0 .. Len(all[i])
    BY <1>1, <1>2, <1>3, <2>1, BoundsAre
  <2> HIDE DEF l
  <2>4. QED
    BY <1>1, <2>2, <2>3
<1>6. ASSUME NEW c \in DOMAIN bucket, NEW i \in 1 .. n
      PROVE  (\E j \in 1 .. f[i] : c = all[i][j].first)
               <=> \E x \in 1 .. l[i] : c = order[x]
  <2>1. /\ IsMerge(all[i], leaves, Before(all, i), J[i]) /\ IsPacks(Before(all, i))
        /\ f[i] \in 0 .. Len(all[i]) /\ c \in Nat
    BY <1>2, <1>3, <1>5, BeforeIs DEF AllMerged
  <2>2. (\E j \in 1 .. f[i] : c = all[i][j].first)
          <=> \E x \in 1 .. J[i][f[i]] : c = leaves[x].first
    <3> DEFINE m == all[i]
               b == f[i]
               j == J[i]
               packs == Before(all, i)
    <3>1. IsLeaves(leaves)
      BY <1>1
    <3>2. IsMerge(m, leaves, packs, j) /\ IsPacks(packs) /\ b \in 0 .. Len(m)
          /\ c \in Nat
      BY <2>1
    <3> HIDE DEF m, b, j, packs
    <3>3. Reaches(m, b, c) <=> Reaches(leaves, j[b], c)
      BY <3>1, <3>2, TakenIs
    <3>4. QED
      BY <3>3 DEF m, b, j, Reaches
  <2>3. l[i] = J[i][f[i]] /\ l[i] \in 0 .. N
    BY <1>5 DEF IsLevels
  <2>4. N \in Nat
    BY DEF IsOrder
  <2> HIDE DEF l
  <2>5. \A x \in 1 .. l[i] : leaves[x].first = order[x]
    BY <1>1, <2>3, <2>4
  <2>6. QED
    BY <2>2, <2>3, <2>5
<1> HIDE DEF l, P
<1>7. ASSUME NEW c \in DOMAIN bucket
      PROVE  {i \in 1 .. n : \E j \in 1 .. f[i] : c = all[i][j].first}
             = {i \in 1 .. n : \E x \in 1 .. l[i] : c = order[x]}
  BY <1>6
<1>8. lengths(bucket, order, n)
      = [c \in DOMAIN bucket |->
           Cardinality({i \in 1 .. n : \E x \in 1 .. l[i] : c = order[x]})]
  BY <1>4, <1>7, Zenon
<1>9. lengths(bucket, order, n) = Depths(order, l, n, DOMAIN bucket)
  BY <1>8, Zenon DEF Depths
<1>10. IsTaken(all, leaves, n, P, l)
  <2>1. ASSUME NEW i \in 1 .. n
        PROVE  InFront(all[i], leaves, Before(all, i), l[i], P[i])
    <3>1. /\ IsMerge(all[i], leaves, Before(all, i), J[i])
          /\ f[i] \in 0 .. Len(all[i])
      BY <1>3, <1>5 DEF AllMerged
    <3>2. l[i] = J[i][f[i]] /\ P[i] = f[i] - J[i][f[i]]
      BY DEF l, P
    <3>3. J[i][f[i]] \in Int /\ f[i] \in Int
      <4>1. J[i][f[i]] \in 0 .. Len(leaves)
        BY <3>1 DEF IsMerge
      <4>2. l[i] \in 0 .. N
        BY <1>5 DEF IsLevels
      <4>3. N \in Nat
        BY DEF IsOrder
      <4>4. P[i] \in Nat
        BY <1>5 DEF IsLevels
      <4>5. Len(all[i]) \in Nat
        BY <1>2, BeforeIs
      <4>6. QED
        BY <3>1, <3>2, <4>2, <4>3, <4>5
    <3>4. l[i] + P[i] = f[i]
      BY <3>2, <3>3
    <3>5. QED
      BY <3>1, <3>2, <3>4 DEF InFront
  <2>2. QED
    BY <2>1 DEF IsTaken
<1>11. QED
  BY <1>5, <1>9, <1>10 DEF all, leaves

\* A code is as long as m and more when its leaf is taken of list n - m + 1.
LEMMA LengthAtLeast ==
  ASSUME NEW n \in Nat \ {0}, NEW P, NEW l, NEW order, NEW bucket,
         IsOrder(order, bucket), IsLevels(P, l, n, Len(order)),
         NEW x \in 1 .. Len(order)
  PROVE  LET d == Cardinality({i \in 1 .. n : \E y \in 1 .. l[i] : order[x] = order[y]})
         IN  d \in 0 .. n /\ \A i \in 1 .. n : x <= l[i] <=> n - i + 1 <= d
<1> DEFINE T == {i \in 1 .. n : x <= l[i]}
           N == Len(order)
<1>1. N \in Nat /\ \A i \in 1 .. n : l[i] \in Nat /\ l[i] <= N
  BY DEF IsOrder, IsLevels
<1>2. ASSUME NEW i \in 1 .. n
      PROVE  (\E y \in 1 .. l[i] : order[x] = order[y]) <=> x <= l[i]
  <2>1. ASSUME NEW y \in 1 .. l[i], order[x] = order[y]
        PROVE  x <= l[i]
    <3>1. y \in 1 .. N /\ y <= l[i]
      BY <1>1
    <3>2. x = y
      BY <2>1, <3>1 DEF IsOrder
    <3>3. QED
      BY <3>1, <3>2
  <2>2. ASSUME x <= l[i]
        PROVE  \E y \in 1 .. l[i] : order[x] = order[y]
    <3>1. x \in 1 .. l[i]
      BY <1>1, <2>2
    <3>2. QED
      BY <3>1
  <2>3. QED
    BY <2>1, <2>2
<1>3. {i \in 1 .. n : \E y \in 1 .. l[i] : order[x] = order[y]} = T
  BY <1>2
<1>4. ASSUME NEW i \in T, NEW k \in i .. n
      PROVE  k \in T
  <2> DEFINE S == {p \in 0 .. n - i : l[i] <= l[i + p]}
  <2>1. 0 \in S
    BY <1>1
  <2>2. ASSUME NEW p \in 0 .. (n - i) - 1, p \in S
        PROVE  p + 1 \in S
    <3>1. i + p \in 1 .. n - 1 /\ i + (p + 1) = (i + p) + 1 /\ p + 1 \in 0 .. n - i
          /\ i + p \in 1 .. n /\ (i + p) + 1 \in 1 .. n
      OBVIOUS
    <3>2. l[i + p] <= l[(i + p) + 1] /\ l[i] <= l[i + p]
      BY <2>2, <3>1 DEF IsLevels
    <3>3. l[i] \in Nat /\ l[i + p] \in Nat /\ l[(i + p) + 1] \in Nat
      BY <1>1, <3>1
    <3>4. l[i] <= l[(i + p) + 1]
      BY <3>2, <3>3
    <3>5. QED
      BY <3>1, <3>4
  <2> HIDE DEF S
  <2>3. k - i \in S /\ i + (k - i) = k
    <3>1. n - i \in Nat /\ k - i \in 0 .. n - i
      OBVIOUS
    <3>2. QED
      BY <2>1, <2>2, <3>1, IntervalInduction, SMTT(60)
  <2>4. l[i] <= l[k] /\ x <= l[i] /\ k \in 1 .. n /\ i \in 1 .. n
    BY <2>3 DEF S
  <2>5. l[i] \in Nat /\ l[k] \in Nat
    BY <1>1, <2>4
  <2>6. QED
    BY <2>4, <2>5
<1> DEFINE Goal(d) == d \in 0 .. n /\ \A i \in 1 .. n : x <= l[i] <=> n - i + 1 <= d
<1>5. ASSUME T = {}
      PROVE  Goal(Cardinality(T))
  <2>1. Cardinality(T) = 0
    BY <1>5, FS_EmptySet
  <2>2. \A i \in 1 .. n : ~ (x <= l[i]) /\ ~ (n - i + 1 <= 0)
    BY <1>5
  <2>3. Goal(0)
    BY <2>2
  <2>4. QED
    BY <2>1, <2>3
<1>6. ASSUME T # {}
      PROVE  Goal(Cardinality(T))
  <2>1. T \subseteq Nat
    OBVIOUS
  <2>2. PICK i \in T : \A k \in T : i <= k
    BY <1>6, <2>1, LeastExists
  <2>3. i \in 1 .. n
    OBVIOUS
  <2>4. \A k \in 1 .. n : x <= l[k] <=> i <= k
    <3>1. SUFFICES ASSUME NEW k \in 1 .. n PROVE x <= l[k] <=> i <= k
      OBVIOUS
    <3>2. ASSUME i <= k PROVE x <= l[k]
      <4>1. k \in i .. n
        BY <2>3, <3>2
      <4>2. k \in T
        BY <1>4, <4>1
      <4>3. QED
        BY <4>2
    <3>3. QED
      BY <2>2, <3>2
  <2>5. T = i .. n
    BY <2>3, <2>4
  <2>6. Cardinality(T) = n - i + 1
    <3>1. i \in Int /\ n \in Int /\ ~ (i > n)
      BY <2>3
    <3>2. Cardinality(i .. n) = n - i + 1
      BY <3>1, FS_Interval
    <3> HIDE DEF T
    <3>3. QED
      BY <2>5, <3>2
  <2>7. n - i + 1 \in 0 .. n
    BY <2>3
  <2>8. \A k \in 1 .. n : i <= k <=> n - k + 1 <= n - i + 1
    BY <2>3
  <2>9. Goal(n - i + 1)
    BY <2>4, <2>7, <2>8
  <2> HIDE DEF T, Goal
  <2>10. QED
    BY <2>6, <2>9
<1> HIDE DEF T
<1>7. Goal(Cardinality(T))
  <2> HIDE DEF Goal
  <2>1. QED
    BY <1>5, <1>6
<1>8. QED
  BY <1>3, <1>7

-------------------------------------------------------------------------------
(* The first codes of the lengths.                                         *)

IsStart(f, dep, n) ==
  f = [i \in 0 .. n |-> IF i = 0 THEN 0 ELSE 2 * (f[i - 1] + bl_count(dep, i - 1))]

LEMMA StartExists ==
  ASSUME NEW n \in Nat, NEW dep
  PROVE  \E f : IsStart(f, dep, n)
<1> DEFINE S == {m \in 0 .. n : \E f : IsStart(f, dep, m)}
<1>1. 0 \in S
  <2>1. IsStart([i \in 0 .. 0 |-> 0], dep, 0)
    BY DEF IsStart
  <2>2. QED
    BY <2>1
<1>2. ASSUME NEW m \in 0 .. n - 1, m \in S
      PROVE  m + 1 \in S
  <2>1. PICK f : IsStart(f, dep, m)
    BY <1>2
  <2> DEFINE g == [i \in 0 .. m + 1 |->
                     IF i = m + 1 THEN 2 * (f[m] + bl_count(dep, m)) ELSE f[i]]
  <2>2. ASSUME NEW i \in 0 .. m + 1
        PROVE  g[i] = IF i = 0 THEN 0 ELSE 2 * (g[i - 1] + bl_count(dep, i - 1))
    <3>1. CASE i = 0
      <4>1. i # m + 1 /\ i \in 0 .. m
        BY <3>1
      <4>2. f[i] = 0
        BY <2>1, <3>1, <4>1 DEF IsStart
      <4>3. QED
        BY <3>1, <4>1, <4>2
    <3>2. CASE i \in 1 .. m
      <4>1. i # m + 1 /\ i \in 0 .. m /\ i - 1 \in 0 .. m /\ i # 0
            /\ i - 1 # m + 1 /\ i - 1 \in 0 .. m + 1
        BY <3>2
      <4>2. g[i] = f[i] /\ g[i - 1] = f[i - 1]
        BY <4>1
      <4>3. f[i] = 2 * (f[i - 1] + bl_count(dep, i - 1))
        BY <2>1, <4>1 DEF IsStart
      <4>4. QED
        BY <4>1, <4>2, <4>3
    <3>3. CASE i = m + 1
      <4>1. i - 1 = m /\ m \in 0 .. m + 1 /\ m # m + 1 /\ i # 0
        BY <3>3
      <4>2. g[i] = 2 * (f[m] + bl_count(dep, m)) /\ g[i - 1] = f[m]
        BY <3>3, <4>1
      <4>3. QED
        BY <3>3, <4>1, <4>2
    <3>4. QED
      BY <3>1, <3>2, <3>3
  <2>3. IsStart(g, dep, m + 1)
    <3>1. DOMAIN g = 0 .. m + 1
      OBVIOUS
    <3> HIDE DEF g
    <3>2. g = [i \in 0 .. m + 1 |-> g[i]]
      BY <3>1 DEF g
    <3>3. QED
      BY <2>2, <3>2 DEF IsStart
  <2>4. m + 1 \in 0 .. n
    OBVIOUS
  <2>5. QED
    BY <2>3, <2>4
<1> HIDE DEF S
<1>3. n \in S
  <2>1. n \in 0 .. n
    OBVIOUS
  <2>2. QED
    BY <1>1, <1>2, <2>1, IntervalInduction
<1>4. QED
  BY <1>3 DEF S

LEMMA StartUnfolds ==
  ASSUME NEW n \in Nat, NEW dep
  PROVE  \E f : IsStart(f, dep, n) /\ start_code(dep, n) = f[n]
<1> DEFINE Unfolds(f) ==
             f = [l \in 0 .. n |-> IF l = 0 THEN 0
                                   ELSE 2 * (f[l - 1] + bl_count(dep, l - 1))]
<1>1. \E f : IsStart(f, dep, n)
  BY StartExists
<1>2. \A f : IsStart(f, dep, n) <=> Unfolds(f)
  BY Zenon DEF IsStart
<1>3. Unfolds(CHOOSE f : Unfolds(f))
  <2> HIDE DEF Unfolds
  <2>1. QED
    BY <1>1, <1>2
<1>4. start_code(dep, n) = (CHOOSE f : Unfolds(f))[n]
  BY Zenon DEF start_code
<1> HIDE DEF Unfolds
<1>5. QED
  BY <1>2, <1>3, <1>4

\* start_code(): every level doubles the first code that the one before left.
LEMMA StartIs ==
  ASSUME NEW dep
  PROVE  /\ start_code(dep, 0) = 0
         /\ \A n \in Nat :
              start_code(dep, n + 1) = 2 * (start_code(dep, n) + bl_count(dep, n))
<1>1. start_code(dep, 0) = 0
  <2>1. PICK f : IsStart(f, dep, 0) /\ start_code(dep, 0) = f[0]
    BY StartUnfolds
  <2>2. f[0] = 0
    BY <2>1 DEF IsStart
  <2>3. QED
    BY <2>1, <2>2
<1>2. ASSUME NEW n \in Nat
      PROVE  start_code(dep, n + 1) = 2 * (start_code(dep, n) + bl_count(dep, n))
  <2>1. PICK f : IsStart(f, dep, n) /\ start_code(dep, n) = f[n]
    BY StartUnfolds
  <2>2. PICK g : IsStart(g, dep, n + 1) /\ start_code(dep, n + 1) = g[n + 1]
    <3>1. n + 1 \in Nat
      OBVIOUS
    <3>2. QED
      BY <3>1, StartUnfolds
  <2> DEFINE S == {k \in 0 .. n : f[k] = g[k]}
  <2>3. 0 \in S
    BY <2>1, <2>2 DEF IsStart
  <2>4. ASSUME NEW k \in 0 .. n - 1, k \in S
        PROVE  k + 1 \in S
    <3>1. k + 1 \in 0 .. n /\ k + 1 \in 0 .. n + 1 /\ k + 1 # 0 /\ (k + 1) - 1 = k
      OBVIOUS
    <3>2. f[k + 1] = 2 * (f[k] + bl_count(dep, k))
      BY <2>1, <3>1 DEF IsStart
    <3>3. g[k + 1] = 2 * (g[k] + bl_count(dep, k))
      BY <2>2, <3>1 DEF IsStart
    <3>4. QED
      BY <2>4, <3>1, <3>2, <3>3
  <2> HIDE DEF S
  <2>5. n \in S
    <3>1. n \in 0 .. n
      OBVIOUS
    <3>2. QED
      BY <2>3, <2>4, <3>1, IntervalInduction
  <2>6. g[n + 1] = 2 * (g[n] + bl_count(dep, n))
    <3>1. n + 1 \in 0 .. n + 1 /\ n + 1 # 0 /\ (n + 1) - 1 = n
      OBVIOUS
    <3>2. QED
      BY <2>2, <3>1 DEF IsStart
  <2>7. QED
    BY <2>1, <2>2, <2>5, <2>6 DEF S
<1>3. QED
  BY <1>1, <1>2

-------------------------------------------------------------------------------
(* How many codes a length has.                                            *)

\* The codes that get a length are those whose leaf is taken of the last list.
LEMMA DepthsAre ==
  ASSUME NEW n \in Nat \ {0}, NEW P, NEW l, NEW order, NEW bucket,
         IsOrder(order, bucket), IsLevels(P, l, n, Len(order)),
         NEW dep, dep = Depths(order, l, n, DOMAIN bucket)
  PROVE  /\ dep \in [DOMAIN bucket -> 0 .. n]
         /\ \A c \in DOMAIN bucket :
              dep[c] > 0 => \E x \in 1 .. Len(order) : c = order[x]
         /\ \A x \in 1 .. Len(order) : \A i \in 1 .. n :
              x <= l[i] <=> n - i + 1 <= dep[order[x]]
<1>1. Len(order) \in Nat /\ \A i \in 1 .. n : l[i] \in Nat /\ l[i] <= Len(order)
  BY DEF IsOrder, IsLevels
<1>2. ASSUME NEW x \in 1 .. Len(order)
      PROVE  /\ dep[order[x]] \in 0 .. n
             /\ \A i \in 1 .. n : x <= l[i] <=> n - i + 1 <= dep[order[x]]
  <2> DEFINE d == Cardinality({i \in 1 .. n : \E y \in 1 .. l[i] : order[x] = order[y]})
  <2>1. d \in 0 .. n /\ \A i \in 1 .. n : x <= l[i] <=> n - i + 1 <= d
    BY LengthAtLeast, SMTT(60)
  <2>2. order[x] \in DOMAIN bucket
    BY DEF IsOrder
  <2>3. dep[order[x]] = d
    BY <2>2, Zenon DEF Depths
  <2> HIDE DEF d
  <2>4. QED
    BY <2>1, <2>3
<1>3. ASSUME NEW c \in DOMAIN bucket, ~ \E x \in 1 .. Len(order) : c = order[x]
      PROVE  dep[c] = 0
  <2>1. {i \in 1 .. n : \E x \in 1 .. l[i] : c = order[x]} = {}
    BY <1>1, <1>3
  <2>2. dep[c] = Cardinality({})
    BY <2>1, Zenon DEF Depths
  <2>3. QED
    BY <2>2, FS_EmptySet
<1>4. ASSUME NEW c \in DOMAIN bucket
      PROVE  dep[c] \in 0 .. n
  BY <1>2, <1>3
<1>5. dep \in [DOMAIN bucket -> 0 .. n]
  <2>1. dep = [c \in DOMAIN bucket |-> dep[c]]
    BY DEF Depths
  <2>2. QED
    BY <1>4, <2>1
<1>6. \A c \in DOMAIN bucket : dep[c] > 0 => \E x \in 1 .. Len(order) : c = order[x]
  BY <1>3
<1>7. QED
  BY <1>2, <1>5, <1>6

\* bl_count(): what list n - m + 1 has more than the list before it.
LEMMA CountIs ==
  ASSUME NEW n \in Nat \ {0}, NEW P, NEW l, NEW order, NEW bucket,
         IsOrder(order, bucket), IsLevels(P, l, n, Len(order)),
         NEW dep, dep = Depths(order, l, n, DOMAIN bucket), NEW m \in 1 .. n
  PROVE  LET low == IF m = n THEN 0 ELSE l[n - m] IN
         bl_count(dep, m) = l[n - m + 1] - low /\ bl_count(dep, m) \in Nat
<1> DEFINE low == IF m = n THEN 0 ELSE l[n - m]
           high == l[n - m + 1]
           C == {c \in DOMAIN dep : dep[c] = m}
           X == low + 1 .. high
           f == [x \in X |-> order[x]]
           N == Len(order)
<1>1. N \in Nat /\ n - m + 1 \in 1 .. n /\ (m # n => n - m \in 1 .. n - 1 /\ n - m \in 1 .. n)
  BY DEF IsOrder
<1>2. high \in 0 .. N /\ low \in 0 .. N /\ low <= high
  <2>1. high \in 0 .. N
    BY <1>1 DEF IsLevels
  <2>2. CASE m = n
    <3>1. low = 0
      BY <2>2
    <3> HIDE DEF low, high
    <3>2. QED
      BY <1>1, <2>1, <3>1
  <2>3. CASE m # n
    <3>1. low = l[n - m]
      BY <2>3
    <3>2. l[n - m] <= l[n - m + 1] /\ l[n - m] \in 0 .. N
      BY <1>1, <2>3 DEF IsLevels
    <3>3. QED
      BY <2>1, <3>1, <3>2
  <2>4. QED
    BY <2>2, <2>3
<1> HIDE DEF low, high
<1>3. /\ dep \in [DOMAIN bucket -> 0 .. n]
      /\ \A c \in DOMAIN bucket : dep[c] > 0 => \E x \in 1 .. N : c = order[x]
      /\ \A x \in 1 .. N : \A i \in 1 .. n : x <= l[i] <=> n - i + 1 <= dep[order[x]]
  BY DepthsAre
<1>4. \A x \in 1 .. N : order[x] \in DOMAIN bucket
  BY DEF IsOrder
<1>5. ASSUME NEW x \in 1 .. N
      PROVE  dep[order[x]] = m <=> x \in X
  <2> DEFINE d == dep[order[x]]
  <2>1. d \in 0 .. n
    BY <1>3, <1>4
  <2>2. x <= high <=> m <= d
    <3>1. x <= high <=> n - (n - m + 1) + 1 <= d
      BY <1>1, <1>3 DEF high
    <3>2. n - (n - m + 1) + 1 = m
      OBVIOUS
    <3>3. QED
      BY <3>1, <3>2
  <2>3. x <= low <=> m + 1 <= d
    <3>1. CASE m = n
      <4>1. low = 0
        BY <3>1 DEF low
      <4> HIDE DEF d
      <4>2. ~ (x <= 0) /\ ~ (m + 1 <= d)
        BY <1>1, <2>1, <3>1
      <4>3. QED
        BY <4>1, <4>2
    <3>2. CASE m # n
      <4>1. x <= l[n - m] <=> n - (n - m) + 1 <= d
        BY <1>1, <1>3, <3>2
      <4>2. n - (n - m) + 1 = m + 1 /\ low = l[n - m]
        BY <3>2 DEF low
      <4>3. QED
        BY <4>1, <4>2
    <3>3. QED
      BY <3>1, <3>2
  <2> HIDE DEF d
  <2>4. d \in Int /\ x \in Int /\ low \in Int /\ high \in Int
    BY <1>1, <1>2, <2>1
  <2>5. d = m <=> low + 1 <= x /\ x <= high
    BY <2>2, <2>3, <2>4
  <2>6. QED
    BY <2>4, <2>5 DEF d
<1>6. X \subseteq 1 .. N
  BY <1>1, <1>2
<1>7. C = {order[x] : x \in X}
  <2> HIDE DEF X
  <2>1. ASSUME NEW c \in C
        PROVE  c \in {order[x] : x \in X}
    <3>1. c \in DOMAIN bucket /\ dep[c] = m /\ dep[c] > 0
      BY <1>3
    <3>2. PICK x \in 1 .. N : c = order[x]
      BY <1>3, <3>1
    <3>3. QED
      BY <1>5, <3>1, <3>2
  <2>2. ASSUME NEW x \in X
        PROVE  order[x] \in C
    BY <1>3, <1>4, <1>5, <1>6
  <2>3. QED
    BY <2>1, <2>2
<1> HIDE DEF C, X
<1>8. f \in Surjection(X, C)
  BY <1>7 DEF Surjection
<1>9. f \in Injection(X, C)
  <2>1. ASSUME NEW x \in X, NEW y \in X, f[x] = f[y]
        PROVE  x = y
    <3>1. x \in 1 .. N /\ y \in 1 .. N
      BY <1>6
    <3>2. order[x] = order[y]
      BY <2>1
    <3>3. QED
      BY <3>1, <3>2 DEF IsOrder
  <2>2. QED
    BY <1>8, <2>1 DEF Injection, IsInjective, Surjection
<1>10. IsFiniteSet(X) /\ Cardinality(X) = high - low
  <2>1. low + 1 \in Int /\ high \in Int
    BY <1>1, <1>2
  <2>2. IsFiniteSet(X) /\ Cardinality(X) = IF low + 1 > high THEN 0 ELSE high - (low + 1) + 1
    BY <2>1, FS_Interval DEF X
  <2>3. QED
    BY <1>1, <1>2, <2>2
<1>11. Cardinality(C) = high - low
  BY <1>8, <1>9, <1>10, FS_Surjection
<1>12. bl_count(dep, m) = Cardinality(C)
  BY DEF bl_count, C
<1>13. high - low \in Nat
  BY <1>1, <1>2
<1>14. QED
  BY <1>11, <1>12, <1>13 DEF low, high

LEMMA StartNat ==
  ASSUME NEW n \in Nat, NEW dep, \A m \in 1 .. n : bl_count(dep, m) \in Nat
  PROVE  \A m \in 0 .. n : start_code(dep, m) \in Nat
<1> DEFINE S == {m \in 0 .. n : start_code(dep, m) \in Nat}
<1>1. 0 \in S
  <2>1. start_code(dep, 0) = 0 /\ 0 \in 0 .. n
    BY StartIs
  <2>2. QED
    BY <2>1
<1>2. ASSUME NEW m \in 0 .. n - 1, m \in S
      PROVE  m + 1 \in S
  <2>1. bl_count(dep, m) \in Nat
    <3>1. bl_count(dep, 0) = 0
      BY DEF bl_count
    <3>2. m = 0 \/ m \in 1 .. n
      OBVIOUS
    <3>3. QED
      BY <3>1, <3>2
  <2>2. start_code(dep, m + 1) = 2 * (start_code(dep, m) + bl_count(dep, m))
    <3>1. m \in Nat
      OBVIOUS
    <3>2. QED
      BY <3>1, StartIs
  <2>3. start_code(dep, m) \in Nat
    BY <1>2
  <2>4. start_code(dep, m + 1) \in Nat
    BY <2>1, <2>2, <2>3
  <2>5. m + 1 \in 0 .. n
    OBVIOUS
  <2>6. QED
    BY <2>4, <2>5
<1> HIDE DEF S
<1>3. 0 .. n \subseteq S
  BY <1>1, <1>2, IntervalInduction
<1>4. QED
  BY <1>3 DEF S

\* The packages of a list and of the one before it give the first code.
LEMMA StartByLevels ==
  ASSUME NEW n \in Nat \ {0}, NEW P, NEW l, NEW order, NEW bucket,
         IsOrder(order, bucket), IsLevels(P, l, n, Len(order)),
         NEW dep, dep = Depths(order, l, n, DOMAIN bucket)
  PROVE  \A k \in 0 .. n - 1 :
           start_code(dep, k + 1)
             = 2 ^ (k + 1) * (P[n + 1] - P[n]) - 2 * (P[n - k + 1] - P[n - k])
<1> DEFINE E == P[n + 1] - P[n]
           S == {k \in 0 .. n - 1 :
                   start_code(dep, k + 1)
                     = 2 ^ (k + 1) * E - 2 * (P[n - k + 1] - P[n - k])}
<1>1. \A i \in 1 .. n + 1 : P[i] \in Nat
  BY DEF IsLevels
<1>2. E \in Int
  <2>1. n \in 1 .. n + 1 /\ n + 1 \in 1 .. n + 1
    OBVIOUS
  <2>2. P[n] \in Nat /\ P[n + 1] \in Nat
    BY <1>1, <2>1
  <2>3. QED
    BY <2>2
<1>3. 0 \in S
  <2>1. start_code(dep, 0 + 1) = 0
    <3>1. start_code(dep, 0 + 1) = 2 * (start_code(dep, 0) + bl_count(dep, 0))
      BY StartIs
    <3>2. start_code(dep, 0) = 0 /\ bl_count(dep, 0) = 0
      BY StartIs DEF bl_count
    <3>3. QED
      BY <3>1, <3>2
  <2>2. n - 0 = n /\ n - 0 + 1 = n + 1 /\ 2 ^ (0 + 1) = 2 /\ 0 \in 0 .. n - 1
    OBVIOUS
  <2> HIDE DEF E
  <2>3. 2 * E - 2 * E = 0
    BY <1>2
  <2>4. 2 ^ (0 + 1) * E - 2 * (P[n - 0 + 1] - P[n - 0]) = 0
    <3>1. P[n - 0 + 1] - P[n - 0] = E
      BY <2>2 DEF E
    <3>2. QED
      BY <2>2, <2>3, <3>1
  <2>5. QED
    BY <2>1, <2>2, <2>4
<1> HIDE DEF E
<1>4. ASSUME NEW k \in 0 .. (n - 1) - 1, k \in S
      PROVE  k + 1 \in S
  <2> DEFINE a == P[n - k + 1]
             b == P[n - k]
             c == P[n - k - 1]
             w == 2 ^ (k + 1)
             bl == bl_count(dep, k + 1)
             s == start_code(dep, k + 1)
  <2>1. /\ k + 1 \in 1 .. n /\ k + 1 # n /\ n - (k + 1) + 1 = n - k
        /\ n - (k + 1) = n - k - 1 /\ n - k \in 1 .. n /\ n - k - 1 \in 1 .. n
        /\ n - k + 1 \in 1 .. n + 1 /\ n - k \in 1 .. n + 1 /\ n - k - 1 \in 1 .. n + 1
        /\ (n - k - 1) + 1 = n - k /\ k + 1 \in Nat /\ (k + 1) + 1 = k + 2
        /\ k + 1 \in 0 .. n - 1
    OBVIOUS
  <2>2. bl = l[n - k] - l[n - k - 1]
    BY <2>1, CountIs
  <2>3. l[n - k] = 2 * a - b /\ l[n - k - 1] = 2 * b - c
    <3>1. l[n - k] = 2 * P[(n - k) + 1] - P[n - k]
      BY <2>1 DEF IsLevels
    <3>2. l[n - k - 1] = 2 * P[(n - k - 1) + 1] - P[n - k - 1]
      BY <2>1 DEF IsLevels
    <3>3. QED
      BY <2>1, <3>1, <3>2
  <2>4. a \in Nat /\ b \in Nat /\ c \in Nat
    BY <1>1, <2>1
  <2>5. start_code(dep, (k + 1) + 1) = 2 * (s + bl)
    BY <2>1, StartIs
  <2>6. s = w * E - 2 * (a - b)
    BY <1>4
  <2>7. 2 ^ ((k + 1) + 1) = 2 * w /\ w \in Nat
    BY <2>1, PowerOfTwo
  <2>8. bl = (2 * a - b) - (2 * b - c)
    BY <2>2, <2>3
  <2> HIDE DEF a, b, c, w, bl, s
  <2> DEFINE v == w * E
  <2>9. v \in Int /\ (2 * w) * E = 2 * v
    BY <1>2, <2>7
  <2> HIDE DEF v
  <2>10. s = v - 2 * (a - b)
    BY <2>6 DEF v
  <2>11. 2 * (s + bl) = 2 * v - 2 * (b - c)
    BY <2>4, <2>8, <2>9, <2>10
  <2>12. start_code(dep, (k + 1) + 1) = 2 ^ ((k + 1) + 1) * E - 2 * (b - c)
    BY <2>5, <2>7, <2>9, <2>11
  <2>13. QED
    BY <2>1, <2>12 DEF b, c
<1> HIDE DEF S
<1>5. 0 .. n - 1 \subseteq S
  <2>1. n - 1 \in Nat
    OBVIOUS
  <2>2. QED
    BY <1>3, <1>4, <2>1, IntervalInduction
<1>6. QED
  BY <1>5 DEF S, E

\* Kraft's equality: the codes of the last length end at 2 ^ n; and all
\* leaves are taken of the last list.
LEMMA KraftIs ==
  ASSUME NEW n \in Nat \ {0}, NEW P, NEW l, NEW order, NEW bucket,
         IsOrder(order, bucket), IsLevels(P, l, n, Len(order)), 2 <= Len(order),
         NEW dep, dep = Depths(order, l, n, DOMAIN bucket)
  PROVE  /\ start_code(dep, n) + bl_count(dep, n) = 2 ^ n
         /\ l[n] = Len(order)
<1> DEFINE E == P[n + 1] - P[n]
           N == Len(order)
<1>1. /\ N \in Nat /\ N >= 2
      /\ \A i \in 1 .. n + 1 : P[i] \in Nat
      /\ \A i \in 1 .. n : l[i] \in 0 .. N /\ l[i] = 2 * P[i + 1] - P[i]
      /\ P[1] = 0 /\ P[n + 1] = N - 1
  BY DEF IsLevels, IsOrder
<1>2. n \in 1 .. n + 1 /\ n + 1 \in 1 .. n + 1 /\ n \in 1 .. n
  OBVIOUS
<1>3. P[n] \in Nat /\ P[n + 1] \in Nat /\ E \in Int /\ P[n + 1] = P[n] + E
  <2>1. P[n] \in Nat /\ P[n + 1] \in Nat
    BY <1>1, <1>2
  <2>2. QED
    BY <2>1
<1>4. \A m \in 1 .. n : bl_count(dep, m) \in Nat
  BY CountIs
<1>5. \A m \in 0 .. n : start_code(dep, m) \in Nat
  BY <1>4, StartNat
<1>6. \A k \in 0 .. n - 1 :
        start_code(dep, k + 1) = 2 ^ (k + 1) * E - 2 * (P[n - k + 1] - P[n - k])
  BY StartByLevels
<1> HIDE DEF E, N
<1>7. E >= 1
  <2>1. SUFFICES ASSUME E <= 0 PROVE FALSE
    BY <1>3
  <2>2. ASSUME NEW k \in 0 .. n - 1
        PROVE  P[n - k + 1] <= P[n - k]
    <3> DEFINE s == start_code(dep, k + 1)
               w == 2 ^ (k + 1)
               a == P[n - k + 1]
               b == P[n - k]
               e == -E
    <3>1. k + 1 \in 0 .. n /\ n - k \in 1 .. n + 1 /\ n - k + 1 \in 1 .. n + 1 /\ k + 1 \in Nat
      OBVIOUS
    <3>2. s \in Nat /\ a \in Nat /\ b \in Nat /\ w \in Nat
      BY <1>1, <1>5, <3>1, PowerOfTwo
    <3>8. e \in Nat /\ E = -e
      BY <1>3, <2>1
    <3>3. s = w * E - 2 * (a - b)
      BY <1>6
    <3> HIDE DEF s, w, a, b, e
    <3>4. w * E = - (w * e) /\ w * e \in Nat
      BY <3>2, <3>8
    <3>5. s + w * e = - 2 * (a - b)
      BY <3>2, <3>3, <3>4
    <3>6. a <= b
      BY <3>2, <3>4, <3>5
    <3>7. QED
      BY <3>6 DEF a, b
  <2> DEFINE S == {k \in 0 .. n : P[n + 1] <= P[n - k + 1]}
  <2>3. 0 \in S
    <3>1. n - 0 + 1 = n + 1 /\ 0 \in 0 .. n
      OBVIOUS
    <3>2. QED
      BY <1>3, <3>1
  <2>4. ASSUME NEW k \in 0 .. n - 1, k \in S
        PROVE  k + 1 \in S
    <3>1. n - (k + 1) + 1 = n - k /\ k + 1 \in 0 .. n
          /\ n - k \in 1 .. n + 1 /\ n - k + 1 \in 1 .. n + 1
      OBVIOUS
    <3>2. P[n - k + 1] <= P[n - k] /\ P[n + 1] <= P[n - k + 1]
      BY <2>2, <2>4
    <3>3. P[n - k] \in Nat /\ P[n - k + 1] \in Nat
      BY <1>1, <3>1
    <3>4. P[n + 1] <= P[n - k]
      BY <1>3, <3>2, <3>3
    <3>5. QED
      BY <3>1, <3>4
  <2> HIDE DEF S
  <2>5. n \in S
    <3>1. n \in 0 .. n
      OBVIOUS
    <3>2. QED
      BY <2>3, <2>4, <3>1, IntervalInduction
  <2>6. n - n + 1 = 1
    OBVIOUS
  <2>7. P[n + 1] <= P[1]
    BY <2>5, <2>6 DEF S
  <2>8. QED
    BY <1>1, <2>7
<1>8. l[n] = P[n + 1] + E
  <2>1. l[n] = 2 * P[n + 1] - P[n]
    BY <1>1, <1>2
  <2>2. QED
    BY <1>3, <2>1
<1>9. E = 1 /\ l[n] = N
  <2>1. l[n] \in 0 .. N
    BY <1>1, <1>2
  <2>2. l[n] = (N - 1) + E
    BY <1>1, <1>8
  <2>3. QED
    BY <1>1, <1>3, <1>7, <2>1, <2>2
<1>10. start_code(dep, n) = 2 ^ n - 2 * P[2]
  <2>1. n - 1 \in 0 .. n - 1 /\ (n - 1) + 1 = n /\ n - (n - 1) + 1 = 2 /\ n - (n - 1) = 1
        /\ 2 \in 1 .. n + 1
    OBVIOUS
  <2>2. start_code(dep, (n - 1) + 1)
        = 2 ^ ((n - 1) + 1) * E - 2 * (P[n - (n - 1) + 1] - P[n - (n - 1)])
    BY <1>6, <2>1
  <2>3. start_code(dep, n) = 2 ^ n * E - 2 * (P[2] - P[1])
    BY <2>1, <2>2
  <2>4. 2 ^ n \in Nat /\ P[2] \in Nat
    BY <1>1, <2>1, PowerOfTwo
  <2>5. QED
    BY <1>1, <1>9, <2>3, <2>4
<1>11. bl_count(dep, n) = 2 * P[2]
  <2>1. n - n + 1 = 1 /\ 1 \in 1 .. n /\ 1 + 1 = 2 /\ 2 \in 1 .. n + 1
    OBVIOUS
  <2>2. bl_count(dep, n) = l[1] - 0
    <3>1. bl_count(dep, n) = l[n - n + 1] - 0
      BY <1>2, CountIs
    <3>2. QED
      BY <2>1, <3>1
  <2>3. l[1] = 2 * P[2] - P[1]
    BY <1>1, <2>1
  <2>4. P[2] \in Nat
    BY <1>1, <2>1
  <2>5. QED
    BY <1>1, <2>2, <2>3, <2>4
<1>12. 2 ^ n \in Nat /\ P[2] \in Nat
  <2>1. 2 \in 1 .. n + 1
    OBVIOUS
  <2>2. QED
    BY <1>1, <2>1, PowerOfTwo
<1>13. start_code(dep, n) + bl_count(dep, n) = 2 ^ n
  BY <1>10, <1>11, <1>12
<1>14. QED
  BY <1>9, <1>13 DEF N

-------------------------------------------------------------------------------
(* The codes.                                                              *)

\* What is smaller than k in T: the codes of T in their order.
Below(T, k) == {d \in T : d < k}

LEMMA BelowIs ==
  ASSUME NEW T, T \subseteq Nat, IsFiniteSet(T), NEW k \in Nat
  PROVE  /\ IsFiniteSet(Below(T, k)) /\ Cardinality(Below(T, k)) \in Nat
         /\ Cardinality(Below(T, k + 1))
              = Cardinality(Below(T, k)) + (IF k \in T THEN 1 ELSE 0)
         /\ \A i \in Nat : k <= i =>
              Cardinality(Below(T, k)) <= Cardinality(Below(T, i))
<1>1. \A i \in Nat : IsFiniteSet(Below(T, i)) /\ Cardinality(Below(T, i)) \in Nat
  <2>1. SUFFICES ASSUME NEW i \in Nat
                 PROVE  IsFiniteSet(Below(T, i)) /\ Cardinality(Below(T, i)) \in Nat
    OBVIOUS
  <2>2. Below(T, i) \subseteq T
    BY DEF Below
  <2>3. QED
    BY <2>2, FS_Subset, FS_CardinalityType
<1>2. ASSUME NEW i \in Nat, k <= i
      PROVE  Cardinality(Below(T, k)) <= Cardinality(Below(T, i))
  <2>1. Below(T, k) \subseteq Below(T, i)
    <3>1. ASSUME NEW d \in T, d < k
          PROVE  d < i
      <4>1. d \in Nat
        OBVIOUS
      <4>2. QED
        BY <1>2, <3>1, <4>1
    <3>2. QED
      BY <3>1 DEF Below
  <2>2. QED
    BY <1>1, <2>1, FS_Subset
<1>3. CASE k \in T
  <2>1. Below(T, k + 1) = Below(T, k) \cup {k}
    <3>1. ASSUME NEW d \in T
          PROVE  d < k + 1 <=> d < k \/ d = k
      <4>1. d \in Nat
        OBVIOUS
      <4>2. QED
        BY <4>1
    <3>2. QED
      BY <1>3, <3>1 DEF Below
  <2>2. k \notin Below(T, k)
    BY DEF Below
  <2>3. Cardinality(Below(T, k) \cup {k}) = Cardinality(Below(T, k)) + 1
    BY <1>1, <2>2, FS_AddElement
  <2>4. QED
    BY <1>1, <1>2, <1>3, <2>1, <2>3
<1>4. CASE k \notin T
  <2>1. Below(T, k + 1) = Below(T, k)
    <3>1. ASSUME NEW d \in T
          PROVE  d < k + 1 <=> d < k
      <4>1. d \in Nat /\ d # k
        BY <1>4
      <4>2. QED
        BY <4>1
    <3>2. QED
      BY <3>1 DEF Below
  <2>2. QED
    BY <1>1, <1>2, <1>4, <2>1
<1>5. QED
  BY <1>3, <1>4

\* Members are counted up to the number of them, one by one.
LEMMA BelowMember ==
  ASSUME NEW M \in Nat, NEW T, T \subseteq 0 .. M - 1
  PROVE  /\ IsFiniteSet(T) /\ Cardinality(T) \in Nat
         /\ \A c \in T : /\ Cardinality(Below(T, c)) \in Nat
                         /\ Cardinality(Below(T, c)) + 1 <= Cardinality(T)
         /\ \A c, d \in T :
              c < d => Cardinality(Below(T, c)) + 1 <= Cardinality(Below(T, d))
<1>1. IsFiniteSet(T) /\ Cardinality(T) \in Nat /\ T \subseteq Nat
  <2>1. IsFiniteSet(0 .. M - 1)
    <3>1. 0 \in Int /\ M - 1 \in Int
      OBVIOUS
    <3>2. QED
      BY <3>1, FS_Interval
  <2>2. IsFiniteSet(T)
    BY <2>1, FS_Subset
  <2>3. QED
    BY <2>2, FS_CardinalityType
<1>2. ASSUME NEW c \in T
      PROVE  /\ c \in Nat /\ c + 1 \in Nat /\ c + 1 <= M
             /\ Cardinality(Below(T, c)) \in Nat
             /\ Cardinality(Below(T, c + 1)) = Cardinality(Below(T, c)) + 1
             /\ \A i \in Nat : c + 1 <= i =>
                  Cardinality(Below(T, c + 1)) <= Cardinality(Below(T, i))
  <2>1. c \in 0 .. M - 1
    OBVIOUS
  <2>2. c \in Nat /\ c + 1 \in Nat /\ c + 1 <= M
    BY <2>1
  <2>3. QED
    BY <1>1, <2>2, BelowIs
<1>3. Below(T, M) = T
  <2>1. \A d \in 0 .. M - 1 : d < M
    OBVIOUS
  <2>2. QED
    BY <2>1 DEF Below
<1>4. ASSUME NEW c \in T
      PROVE  Cardinality(Below(T, c)) + 1 <= Cardinality(T)
  BY <1>2, <1>3
<1>5. ASSUME NEW c \in T, NEW d \in T, c < d
      PROVE  Cardinality(Below(T, c)) + 1 <= Cardinality(Below(T, d))
  <2>1. c \in Nat /\ d \in Nat
    BY <1>2
  <2>2. c + 1 <= d
    BY <1>5, <2>1
  <2>3. QED
    BY <1>2, <2>1, <2>2
<1>6. QED
  BY <1>1, <1>2, <1>4, <1>5

LEMMA BelowReaches ==
  ASSUME NEW M \in Nat, NEW T, T \subseteq 0 .. M - 1,
         NEW r \in Nat, r < Cardinality(T)
  PROVE  \E c \in T : Cardinality(Below(T, c)) = r
<1>1. IsFiniteSet(T) /\ Cardinality(T) \in Nat /\ T \subseteq Nat
  <2>1. IsFiniteSet(T) /\ Cardinality(T) \in Nat
    BY BelowMember
  <2>2. T \subseteq Nat
    OBVIOUS
  <2>3. QED
    BY <2>1, <2>2
<1> DEFINE S == {k \in 0 .. M : Cardinality(Below(T, k)) > r}
<1>2. M \in S
  <2>1. \A d \in 0 .. M - 1 : d < M
    OBVIOUS
  <2>2. Below(T, M) = T
    BY <2>1 DEF Below
  <2>3. M \in 0 .. M
    OBVIOUS
  <2>4. QED
    BY <1>1, <2>2, <2>3
<1>3. S \subseteq Nat
  OBVIOUS
<1>4. PICK k \in S : \A i \in S : k <= i
  BY <1>2, <1>3, LeastExists
<1>5. k # 0
  <2>1. Below(T, 0) = {}
    <3>1. ASSUME NEW d \in T
          PROVE  ~ (d < 0)
      <4>1. d \in Nat
        BY <1>1
      <4>2. QED
        BY <4>1
    <3>2. QED
      BY <3>1 DEF Below
  <2>2. Cardinality(Below(T, 0)) = 0
    BY <2>1, FS_EmptySet
  <2>3. QED
    BY <2>2
<1>6. k - 1 \in Nat /\ k - 1 \in 0 .. M /\ (k - 1) + 1 = k /\ ~ (k <= k - 1)
  BY <1>5
<1>7. Cardinality(Below(T, k)) > r /\ ~ (Cardinality(Below(T, k - 1)) > r)
  BY <1>4, <1>6
<1>8. /\ Cardinality(Below(T, k - 1)) \in Nat
      /\ Cardinality(Below(T, (k - 1) + 1))
           = Cardinality(Below(T, k - 1)) + (IF k - 1 \in T THEN 1 ELSE 0)
  <2> DEFINE j == k - 1
  <2>1. j \in Nat
    BY <1>6
  <2> HIDE DEF j
  <2>2. /\ Cardinality(Below(T, j)) \in Nat
        /\ Cardinality(Below(T, j + 1))
             = Cardinality(Below(T, j)) + (IF j \in T THEN 1 ELSE 0)
    BY <1>1, <2>1, BelowIs
  <2>3. QED
    BY <2>2 DEF j
<1> DEFINE u == Cardinality(Below(T, k - 1))
           v == Cardinality(Below(T, k))
<1>9. u \in Nat /\ v = u + (IF k - 1 \in T THEN 1 ELSE 0) /\ v > r /\ ~ (u > r)
  BY <1>6, <1>7, <1>8
<1> HIDE DEF u, v
<1>10. k - 1 \in T /\ u = r
  BY <1>9
<1>11. QED
  BY <1>10 DEF u

\* The codes of length m.
Level(dep, m) == {c \in DOMAIN dep : dep[c] = m}

LEMMA CodeIs ==
  ASSUME NEW M \in Nat, NEW n \in Nat, NEW dep \in [0 .. M - 1 -> 0 .. n]
  PROVE  /\ \A m \in 1 .. n : /\ Level(dep, m) \subseteq 0 .. M - 1
                              /\ bl_count(dep, m) = Cardinality(Level(dep, m))
                              /\ bl_count(dep, m) \in Nat
         /\ \A c \in 0 .. M - 1 :
              code(dep, c) = start_code(dep, dep[c])
                               + Cardinality(Below(Level(dep, dep[c]), c))
<1>1. ASSUME NEW m \in 1 .. n
      PROVE  /\ Level(dep, m) \subseteq 0 .. M - 1
             /\ bl_count(dep, m) = Cardinality(Level(dep, m))
             /\ bl_count(dep, m) \in Nat
  <2>1. Level(dep, m) \subseteq 0 .. M - 1
    BY DEF Level
  <2>2. m # 0
    OBVIOUS
  <2>3. bl_count(dep, m) = Cardinality(Level(dep, m))
    BY <2>2, Zenon DEF bl_count, Level
  <2>4. QED
    BY <2>1, <2>3, BelowMember
<1>2. ASSUME NEW c \in 0 .. M - 1
      PROVE  code(dep, c) = start_code(dep, dep[c])
                              + Cardinality(Below(Level(dep, dep[c]), c))
  <2>1. {d \in DOMAIN dep : d < c /\ dep[d] = dep[c]} = Below(Level(dep, dep[c]), c)
    BY DEF Below, Level
  <2>2. QED
    BY <2>1, Zenon DEF code
<1>3. QED
  BY <1>1, <1>2

\* The lengths of a prefix code that leaves nothing out.
IsComplete(dep, n, M) ==
  /\ dep \in [0 .. M - 1 -> 0 .. n]
  /\ start_code(dep, n) + bl_count(dep, n) = 2 ^ n

\* Of the strings of n bits, those that begin with a code of length m.
EdgeOf(dep, n, m) == start_code(dep, m) * 2 ^ (n - m)

EndOf(dep, n, m) == (start_code(dep, m) + bl_count(dep, m)) * 2 ^ (n - m)

LEMMA CountsAreNat ==
  ASSUME NEW M \in Nat, NEW n \in Nat \ {0}, NEW dep, IsComplete(dep, n, M),
         NEW m \in 1 .. n
  PROVE  /\ start_code(dep, m) \in Nat /\ bl_count(dep, m) \in Nat
         /\ 2 ^ (n - m) \in Nat \ {0} /\ 2 ^ m \in Nat \ {0}
         /\ 2 ^ n = 2 ^ m * 2 ^ (n - m)
         /\ EdgeOf(dep, n, m) \in Nat /\ EndOf(dep, n, m) \in Nat
         /\ EdgeOf(dep, n, m) <= EndOf(dep, n, m)
<1>1. \A k \in 1 .. n : bl_count(dep, k) \in Nat
  BY CodeIs DEF IsComplete
<1>2. start_code(dep, m) \in Nat
  <2>1. m \in 0 .. n
    OBVIOUS
  <2>2. QED
    BY <1>1, <2>1, StartNat
<1>3. n - m \in Nat /\ m \in Nat /\ m <= n
  OBVIOUS
<1>4. 2 ^ (n - m) \in Nat \ {0} /\ 2 ^ m \in Nat \ {0} /\ 2 ^ n = 2 ^ m * 2 ^ (n - m)
  BY <1>3, PowerOfTwo, PowerMonotonic
<1> DEFINE s == start_code(dep, m)
           b == bl_count(dep, m)
           w == 2 ^ (n - m)
<1>5. s \in Nat /\ b \in Nat /\ w \in Nat
  BY <1>1, <1>2, <1>4
<1>6. EdgeOf(dep, n, m) = s * w /\ EndOf(dep, n, m) = (s + b) * w
  BY DEF EdgeOf, EndOf
<1> HIDE DEF s, b, w
<1>7. s * w \in Nat /\ (s + b) * w \in Nat /\ s * w <= (s + b) * w
  <2>1. s + b \in Nat /\ s <= s + b
    BY <1>5
  <2>2. s * w <= (s + b) * w
    BY <1>5, <2>1, ProductMonotonic
  <2>3. QED
    BY <1>5, <2>1, <2>2
<1>8. QED
  BY <1>4, <1>5, <1>6, <1>7 DEF s, b

\* The strings of a length begin where those of the length before end.
LEMMA EdgesAre ==
  ASSUME NEW M \in Nat, NEW n \in Nat \ {0}, NEW dep, IsComplete(dep, n, M)
  PROVE  /\ EdgeOf(dep, n, 1) = 0 /\ EndOf(dep, n, n) = 2 ^ n
         /\ \A m \in 1 .. n - 1 : EndOf(dep, n, m) = EdgeOf(dep, n, m + 1)
<1>1. EdgeOf(dep, n, 1) = 0
  <2>1. start_code(dep, 0 + 1) = 2 * (start_code(dep, 0) + bl_count(dep, 0))
    BY StartIs
  <2>2. start_code(dep, 0) = 0 /\ bl_count(dep, 0) = 0
    BY StartIs DEF bl_count
  <2>3. start_code(dep, 1) = 0
    BY <2>1, <2>2
  <2>4. 1 \in 1 .. n
    OBVIOUS
  <2>5. 2 ^ (n - 1) \in Nat
    BY <2>4, CountsAreNat
  <2>6. QED
    BY <2>3, <2>5 DEF EdgeOf
<1>2. EndOf(dep, n, n) = 2 ^ n
  <2>1. start_code(dep, n) + bl_count(dep, n) = 2 ^ n
    BY DEF IsComplete
  <2>2. 2 ^ (n - n) = 1
    <3>1. n - n = 0
      OBVIOUS
    <3>2. QED
      BY <3>1, PowerOfZero
  <2>3. 2 ^ n \in Nat
    BY PowerOfTwo
  <2>4. QED
    BY <2>1, <2>2, <2>3 DEF EndOf
<1>3. ASSUME NEW m \in 1 .. n - 1
      PROVE  EndOf(dep, n, m) = EdgeOf(dep, n, m + 1)
  <2>1. /\ m \in 1 .. n /\ m \in Nat /\ n - (m + 1) \in Nat
        /\ (n - (m + 1)) + 1 = n - m
    OBVIOUS
  <2> DEFINE u == start_code(dep, m) + bl_count(dep, m)
             w == 2 ^ (n - (m + 1))
  <2>2. start_code(dep, m + 1) = 2 * u
    BY <2>1, StartIs
  <2>3. 2 ^ (n - m) = 2 * w /\ w \in Nat
    BY <2>1, PowerOfTwo
  <2>4. u \in Nat
    <3>1. start_code(dep, m) \in Nat /\ bl_count(dep, m) \in Nat
      BY <2>1, CountsAreNat
    <3>2. QED
      BY <3>1
  <2>5. EndOf(dep, n, m) = u * (2 * w)
    BY <2>3 DEF EndOf
  <2>6. EdgeOf(dep, n, m + 1) = (2 * u) * w
    BY <2>2 DEF EdgeOf
  <2> HIDE DEF u, w
  <2>7. u * (2 * w) = (2 * u) * w
    BY <2>3, <2>4
  <2>8. QED
    BY <2>5, <2>6, <2>7
<1>4. QED
  BY <1>1, <1>2, <1>3

\* Shorter codes are the smaller strings.
LEMMA EdgesOrdered ==
  ASSUME NEW M \in Nat, NEW n \in Nat \ {0}, NEW dep, IsComplete(dep, n, M),
         NEW m \in 1 .. n
  PROVE  /\ \A k \in m + 1 .. n : EndOf(dep, n, m) <= EdgeOf(dep, n, k)
         /\ EndOf(dep, n, m) <= 2 ^ n
<1> DEFINE S == {p \in 0 .. n - m : EndOf(dep, n, m) <= EndOf(dep, n, m + p)}
<1>1. 0 \in S
  <2>1. m + 0 = m /\ 0 \in 0 .. n - m
    OBVIOUS
  <2>2. EndOf(dep, n, m) \in Nat
    BY CountsAreNat
  <2>3. QED
    BY <2>1, <2>2
<1>2. ASSUME NEW p \in 0 .. (n - m) - 1, p \in S
      PROVE  /\ p + 1 \in S
             /\ EndOf(dep, n, m) <= EdgeOf(dep, n, m + p + 1)
  <2>1. m + p \in 1 .. n - 1 /\ m + p \in 1 .. n /\ m + p + 1 \in 1 .. n
        /\ m + (p + 1) = m + p + 1 /\ (m + p) + 1 = m + p + 1 /\ p + 1 \in 0 .. n - m
    OBVIOUS
  <2>2. EndOf(dep, n, m + p) = EdgeOf(dep, n, m + p + 1)
    BY <2>1, EdgesAre
  <2>3. /\ EdgeOf(dep, n, m + p + 1) <= EndOf(dep, n, m + p + 1)
        /\ EdgeOf(dep, n, m + p + 1) \in Nat /\ EndOf(dep, n, m + p + 1) \in Nat
        /\ EndOf(dep, n, m) \in Nat
    BY <2>1, CountsAreNat
  <2>4. EndOf(dep, n, m) <= EdgeOf(dep, n, m + p + 1)
    BY <1>2, <2>2
  <2>5. EndOf(dep, n, m) <= EndOf(dep, n, m + p + 1)
    BY <2>3, <2>4
  <2>6. QED
    BY <2>1, <2>4, <2>5
<1> HIDE DEF S
<1>3. 0 .. n - m \subseteq S
  <2>1. n - m \in Nat
    OBVIOUS
  <2>2. QED
    BY <1>1, <1>2, <2>1, IntervalInduction
<1>4. ASSUME NEW k \in m + 1 .. n
      PROVE  EndOf(dep, n, m) <= EdgeOf(dep, n, k)
  <2> DEFINE p == k - m - 1
  <2>1. p \in 0 .. (n - m) - 1 /\ p \in 0 .. n - m /\ m + p + 1 = k
    OBVIOUS
  <2> HIDE DEF p
  <2>2. EndOf(dep, n, m) <= EdgeOf(dep, n, m + p + 1)
    BY <1>2, <1>3, <2>1
  <2>3. QED
    BY <2>1, <2>2
<1>5. EndOf(dep, n, m) <= 2 ^ n
  <2>1. n - m \in 0 .. n - m /\ m + (n - m) = n
    OBVIOUS
  <2>2. EndOf(dep, n, m) <= EndOf(dep, n, n)
    BY <1>3, <2>1 DEF S
  <2>3. QED
    BY <2>2, EdgesAre
<1>6. QED
  BY <1>4, <1>5

\* code(): within what the codes of its length have, and not longer than that.
LEMMA CodeWithin ==
  ASSUME NEW M \in Nat, NEW n \in Nat \ {0}, NEW dep, IsComplete(dep, n, M),
         NEW c \in 0 .. M - 1, dep[c] > 0
  PROVE  LET v == code(dep, c)
             w == 2 ^ (n - dep[c])
         IN  /\ v \in Nat /\ v + 1 <= 2 ^ dep[c] /\ w \in Nat \ {0}
             /\ EdgeOf(dep, n, dep[c]) <= v * w
             /\ (v + 1) * w <= EndOf(dep, n, dep[c])
<1> DEFINE m == dep[c]
           v == code(dep, c)
           w == 2 ^ (n - m)
           s == start_code(dep, m)
           b == bl_count(dep, m)
           r == Cardinality(Below(Level(dep, m), c))
           full == 2 ^ m
<1>1. m \in 1 .. n
  BY DEF IsComplete
<1>2. c \in Level(dep, m)
  BY DEF Level, IsComplete
<1>3. v = s + r
  BY CodeIs DEF IsComplete
<1> HIDE DEF m, v
<1>4. /\ Level(dep, m) \subseteq 0 .. M - 1 /\ b = Cardinality(Level(dep, m))
  BY <1>1, CodeIs DEF IsComplete
<1>5. r \in Nat /\ r + 1 <= b
  <2>1. /\ Cardinality(Below(Level(dep, m), c)) \in Nat
        /\ Cardinality(Below(Level(dep, m), c)) + 1 <= Cardinality(Level(dep, m))
    BY <1>2, <1>4, BelowMember
  <2>2. QED
    BY <1>4, <2>1
<1>6. s \in Nat /\ b \in Nat /\ w \in Nat \ {0} /\ full \in Nat /\ 2 ^ n = full * w
  BY <1>1, CountsAreNat
<1>7. EdgeOf(dep, n, m) = s * w /\ EndOf(dep, n, m) = (s + b) * w
  BY DEF EdgeOf, EndOf
<1>8. EndOf(dep, n, m) <= 2 ^ n
  BY <1>1, EdgesOrdered
<1> HIDE DEF s, b, r, w, full
<1>9. v \in Nat /\ s <= v /\ v + 1 <= s + b /\ v + 1 \in Nat /\ s + b \in Nat
  BY <1>3, <1>5, <1>6
<1>10. s * w <= v * w /\ (v + 1) * w <= (s + b) * w
  BY <1>6, <1>9, ProductMonotonic
<1>11. v + 1 <= full
  <2>1. (s + b) * w <= full * w
    BY <1>6, <1>7, <1>8
  <2>2. s + b <= full
    BY <1>6, <1>9, <2>1, ProductOrder
  <2>3. QED
    BY <1>6, <1>9, <2>2
<1>12. QED
  BY <1>6, <1>7, <1>9, <1>10, <1>11 DEF m, v, w, full

\* No code begins another: they are apart, in their order.
LEMMA CodesOrdered ==
  ASSUME NEW M \in Nat, NEW n \in Nat \ {0}, NEW dep, IsComplete(dep, n, M),
         NEW c \in 0 .. M - 1, NEW d \in 0 .. M - 1, dep[c] > 0, dep[d] > 0,
         dep[c] < dep[d] \/ (dep[c] = dep[d] /\ c < d)
  PROVE  (code(dep, c) + 1) * 2 ^ (n - dep[c]) <= code(dep, d) * 2 ^ (n - dep[d])
<1> DEFINE v == code(dep, c)
           w == 2 ^ (n - dep[c])
           x == code(dep, d)
           y == 2 ^ (n - dep[d])
<1>1. dep[c] \in 1 .. n /\ dep[d] \in 1 .. n
  BY DEF IsComplete
<1>2. CASE dep[c] < dep[d]
  <2>1. dep[d] \in dep[c] + 1 .. n
    BY <1>1, <1>2
  <2>2. EndOf(dep, n, dep[c]) <= EdgeOf(dep, n, dep[d])
    BY <1>1, <2>1, EdgesOrdered
  <2>3. (v + 1) * w <= EndOf(dep, n, dep[c]) /\ v \in Nat /\ w \in Nat
    BY CodeWithin
  <2>4. EdgeOf(dep, n, dep[d]) <= x * y /\ x \in Nat /\ y \in Nat
    BY CodeWithin
  <2>5. EndOf(dep, n, dep[c]) \in Nat /\ EdgeOf(dep, n, dep[d]) \in Nat
    BY <1>1, CountsAreNat
  <2> DEFINE p == (v + 1) * w
             q == x * y
  <2>6. p \in Int /\ q \in Int
    BY <2>3, <2>4
  <2> HIDE DEF p, q, v, w, x, y
  <2>7. p <= q
    BY <2>2, <2>3, <2>4, <2>5, <2>6 DEF p, q
  <2>8. QED
    BY <2>7 DEF p, q, v, w, x, y
<1>3. CASE dep[c] = dep[d] /\ c < d
  <2> DEFINE T == Level(dep, dep[c])
             i == Cardinality(Below(T, c))
             j == Cardinality(Below(T, d))
             s == start_code(dep, dep[c])
  <2>1. T \subseteq 0 .. M - 1 /\ c \in T /\ d \in T
    BY <1>3 DEF Level, IsComplete
  <2> HIDE DEF T
  <2>2. i + 1 <= j /\ i \in Nat /\ j \in Nat
    BY <1>3, <2>1, BelowMember
  <2>3. v = s + i
    BY CodeIs DEF IsComplete, T
  <2>4. x = s + j
    <3>1. x = start_code(dep, dep[d]) + Cardinality(Below(Level(dep, dep[d]), d))
      BY CodeIs DEF IsComplete
    <3>2. QED
      BY <1>3, <3>1 DEF T
  <2>5. s \in Nat /\ w \in Nat /\ w = y
    BY <1>1, <1>3, CountsAreNat
  <2> HIDE DEF i, j, s, v, w, x, y
  <2>6. v + 1 <= x /\ v + 1 \in Nat /\ x \in Nat
    BY <2>2, <2>3, <2>4, <2>5
  <2>7. (v + 1) * w <= x * w
    BY <2>5, <2>6, ProductMonotonic
  <2>8. QED
    BY <2>5, <2>7 DEF v, w, x, y
<1>4. QED
  BY <1>2, <1>3

\* Every string of n bits begins with a code.
LEMMA CodesCover ==
  ASSUME NEW M \in Nat, NEW n \in Nat \ {0}, NEW dep, IsComplete(dep, n, M),
         NEW t \in 0 .. 2 ^ n - 1
  PROVE  \E c \in 0 .. M - 1 :
           /\ dep[c] > 0
           /\ code(dep, c) * 2 ^ (n - dep[c]) <= t
           /\ t < (code(dep, c) + 1) * 2 ^ (n - dep[c])
<1> DEFINE S == {m \in 1 .. n : t < EndOf(dep, n, m)}
<1>1. n \in S
  <2>1. EndOf(dep, n, n) = 2 ^ n /\ n \in 1 .. n /\ 2 ^ n \in Nat
    BY EdgesAre, PowerOfTwo
  <2>2. t < 2 ^ n
    BY <2>1
  <2>3. QED
    BY <2>1, <2>2
<1>2. S \subseteq Nat
  OBVIOUS
<1>3. PICK m \in S : \A k \in S : m <= k
  BY <1>1, <1>2, LeastExists
<1>4. m \in 1 .. n /\ t < EndOf(dep, n, m)
  OBVIOUS
<1>5. t \in Nat
  BY PowerOfTwo
<1>6. EdgeOf(dep, n, m) <= t
  <2>1. CASE m = 1
    BY <1>5, <2>1, EdgesAre
  <2>2. CASE m # 1
    <3>1. m - 1 \in 1 .. n - 1 /\ m - 1 \in 1 .. n /\ (m - 1) + 1 = m /\ ~ (m <= m - 1)
      BY <1>4, <2>2
    <3>2. ~ (t < EndOf(dep, n, m - 1))
      BY <1>3, <3>1
    <3>3. EndOf(dep, n, m - 1) = EdgeOf(dep, n, m)
      BY <3>1, EdgesAre
    <3>4. EdgeOf(dep, n, m) \in Nat
      BY <1>4, CountsAreNat
    <3>5. QED
      BY <1>5, <3>2, <3>3, <3>4
  <2>3. QED
    BY <2>1, <2>2
<1> DEFINE s == start_code(dep, m)
           b == bl_count(dep, m)
           w == 2 ^ (n - m)
           q == t \div w
           r == q - s
<1>7. s \in Nat /\ b \in Nat /\ w \in Nat \ {0} /\ s * w <= t /\ t < (s + b) * w
  BY <1>4, <1>6, CountsAreNat DEF EdgeOf, EndOf
<1> HIDE DEF s, b, w
<1>8. q \in Nat /\ q * w <= t /\ t < (q + 1) * w
  <2>1. q \in Nat /\ t % w \in 0 .. w - 1 /\ t = w * q + (t % w)
    BY <1>5, <1>7, DivIs
  <2> DEFINE z == t % w
  <2> HIDE DEF q, z
  <2>2. q \in Nat /\ z \in Nat /\ z < w /\ t = w * q + z
    BY <1>7, <2>1 DEF z
  <2>3. w * q = q * w /\ (q + 1) * w = q * w + w /\ q * w \in Nat
    BY <1>7, <2>2
  <2>4. QED
    BY <1>7, <2>2, <2>3
<1> HIDE DEF q
<1>9. s <= q /\ q < s + b
  <2>1. s <= q
    <3>1. SUFFICES ASSUME q + 1 <= s PROVE FALSE
      BY <1>7, <1>8
    <3>2. (q + 1) * w <= s * w
      BY <1>7, <1>8, <3>1, ProductMonotonic
    <3>3. (q + 1) * w \in Nat /\ s * w \in Nat
      BY <1>7, <1>8
    <3>4. QED
      BY <1>5, <1>7, <1>8, <3>2, <3>3
  <2>2. q < s + b
    <3>1. SUFFICES ASSUME s + b <= q PROVE FALSE
      BY <1>7, <1>8
    <3>2. s + b \in Nat
      BY <1>7
    <3>3. (s + b) * w <= q * w
      BY <1>7, <1>8, <3>1, <3>2, ProductMonotonic
    <3>4. (s + b) * w \in Nat /\ q * w \in Nat
      BY <1>7, <1>8
    <3>5. QED
      BY <1>5, <1>7, <1>8, <3>3, <3>4
  <2>3. QED
    BY <2>1, <2>2
<1>10. r \in Nat /\ r < b /\ q = s + r
  BY <1>7, <1>8, <1>9
<1> HIDE DEF r
<1> DEFINE T == Level(dep, m)
<1>11. T \subseteq 0 .. M - 1 /\ b = Cardinality(T)
  BY <1>4, CodeIs DEF IsComplete, b
<1> HIDE DEF T
<1>12. PICK c \in T : Cardinality(Below(T, c)) = r
  BY <1>10, <1>11, BelowReaches
<1>13. c \in 0 .. M - 1 /\ dep[c] = m /\ dep[c] > 0
  BY <1>4, <1>11 DEF T, Level
<1>14. code(dep, c) = q
  <2>1. code(dep, c) = start_code(dep, m) + Cardinality(Below(T, c))
    BY <1>13, CodeIs, SMTT(60) DEF IsComplete, T
  <2>2. QED
    BY <1>10, <1>12, <2>1 DEF s
<1>15. QED
  BY <1>8, <1>13, <1>14 DEF w

-------------------------------------------------------------------------------
(* The codes that get a length, and their order.                           *)

LEMMA UsedIs ==
  ASSUME NEW M \in Nat, NEW bucket \in [0 .. M - 1 -> Nat]
  PROVE  /\ used(bucket) \subseteq 0 .. M - 1
         /\ IsFiniteSet(0 .. M - 1) /\ Cardinality(0 .. M - 1) = M
         /\ IsFiniteSet(used(bucket)) /\ Cardinality(used(bucket)) \in Nat
<1>1. used(bucket) \subseteq 0 .. M - 1
  BY DEF used
<1>2. IsFiniteSet(0 .. M - 1) /\ Cardinality(0 .. M - 1) = M
  <2>1. 0 \in Int /\ M - 1 \in Int
    OBVIOUS
  <2>2. /\ IsFiniteSet(0 .. M - 1)
        /\ Cardinality(0 .. M - 1) = IF 0 > M - 1 THEN 0 ELSE (M - 1) - 0 + 1
    BY <2>1, FS_Interval
  <2>3. QED
    BY <2>2
<1>3. QED
  BY <1>1, <1>2, FS_Subset, FS_CardinalityType

\* index(): the codes that occur, and another one when one occurs.
LEMMA IndexIs ==
  ASSUME NEW M \in Nat, M >= 2, NEW bucket \in [0 .. M - 1 -> Nat], used(bucket) # {}
  PROVE  /\ used(bucket) \subseteq index(bucket) /\ index(bucket) \subseteq 0 .. M - 1
         /\ IsFiniteSet(index(bucket))
         /\ Cardinality(index(bucket)) = Max({2, Cardinality(used(bucket))})
         /\ 2 <= Cardinality(index(bucket)) /\ Cardinality(index(bucket)) <= M
<1> DEFINE occur == used(bucket)
           n == Cardinality(occur)
           spare(c) == {d \in 0 .. M - 1 \ occur : d < c}
           few(c) == n + Cardinality(spare(c)) < 2
<1>1. /\ occur \subseteq 0 .. M - 1 /\ IsFiniteSet(0 .. M - 1)
      /\ Cardinality(0 .. M - 1) = M /\ IsFiniteSet(occur) /\ n \in Nat
  BY UsedIs
<1>2. index(bucket) = occur \cup {c \in 0 .. M - 1 : few(c)}
  <2>1. DOMAIN bucket = 0 .. M - 1
    OBVIOUS
  <2>2. QED
    BY <2>1, Zenon DEF index
<1>3. ASSUME NEW c \in 0 .. M - 1
      PROVE  /\ IsFiniteSet(spare(c)) /\ Cardinality(spare(c)) \in Nat
             /\ Cardinality(spare(c)) = 0 <=> spare(c) = {}
  <2>1. spare(c) \subseteq 0 .. M - 1
    OBVIOUS
  <2> HIDE DEF spare
  <2>2. QED
    BY <1>1, <2>1, FS_Subset, FS_CardinalityType, FS_EmptySet
<1>4. n # 0
  BY <1>1, FS_EmptySet
<1> HIDE DEF occur, few, n
<1>5. index(bucket) \subseteq 0 .. M - 1 /\ occur \subseteq index(bucket)
  BY <1>1, <1>2
<1>6. IsFiniteSet(index(bucket)) /\ Cardinality(index(bucket)) <= M
  BY <1>1, <1>5, FS_Subset
<1>7. CASE n >= 2
  <2>1. \A c \in 0 .. M - 1 : ~ few(c)
    <3>1. SUFFICES ASSUME NEW c \in 0 .. M - 1 PROVE ~ few(c)
      OBVIOUS
    <3> DEFINE s == Cardinality(spare(c))
    <3>2. s \in Nat
      BY <1>3
    <3> HIDE DEF s
    <3>3. ~ (n + s < 2)
      BY <1>1, <1>7, <3>2
    <3>4. QED
      BY <3>3 DEF few, s
  <2>2. index(bucket) = occur
    BY <1>2, <2>1
  <2>3. Max({2, n}) = n
    <3>1. {2, n} \in SUBSET Int /\ n \in {2, n} /\ \A y \in {2, n} : y <= n
      BY <1>1, <1>7 DEF n
    <3>2. QED
      BY <3>1, MaxIs
  <2>4. Cardinality(index(bucket)) = n
    BY <2>2 DEF n
  <2>5. QED
    BY <1>5, <1>6, <1>7, <2>3, <2>4 DEF occur, n
<1>8. CASE n = 1
  <2>1. PICK e : occur = {e}
    BY <1>1, <1>8, FS_Singleton DEF n
  <2>2. e \in 0 .. M - 1
    BY <1>1, <2>1
  <2>3. ASSUME NEW c \in 0 .. M - 1
        PROVE  few(c) <=> spare(c) = {}
    <3> DEFINE s == Cardinality(spare(c))
    <3>1. s \in Nat /\ (s = 0 <=> spare(c) = {})
      BY <1>3
    <3>2. few(c) <=> n + s < 2
      BY DEF few
    <3> HIDE DEF s, spare
    <3>3. n + s < 2 <=> s = 0
      BY <1>8, <3>1
    <3>4. QED
      BY <3>1, <3>2, <3>3
  <2> DEFINE x == IF e = 0 THEN 1 ELSE 0
  <2>4. x \in 0 .. M - 1 /\ x # e
    BY <2>2
  <2>5. ASSUME NEW c \in 0 .. M - 1, spare(c) = {}
        PROVE  c \in {e, x}
    <3>1. SUFFICES ASSUME c # e, c # x PROVE FALSE
      OBVIOUS
    <3>2. x < c
      BY <2>2, <3>1
    <3>3. x \in spare(c)
      <4> HIDE DEF x
      <4>1. QED
        BY <2>1, <2>4, <3>2
    <3>4. QED
      BY <2>5, <3>3
  <2>6. spare(x) = {}
    <3>1. ASSUME NEW d \in 0 .. M - 1, d # e
          PROVE  ~ (d < x)
      BY <2>2, <3>1
    <3> HIDE DEF x
    <3>2. QED
      BY <2>1, <3>1
  <2> HIDE DEF x, spare
  <2>7. index(bucket) = {e, x}
    BY <1>2, <2>1, <2>3, <2>4, <2>5, <2>6
  <2>8. Cardinality({e, x}) = 2
    <3>1. {e, x} = {e} \cup {x} /\ x \notin {e}
      BY <2>4
    <3>2. IsFiniteSet({e}) /\ Cardinality({e}) = 1
      BY FS_Singleton
    <3>3. Cardinality({e} \cup {x}) = 1 + 1
      BY <3>1, <3>2, FS_AddElement
    <3>4. Cardinality({e, x}) = 1 + 1
      BY <3>1, <3>3, Zenon
    <3>5. QED
      BY <3>4
  <2>9. Max({2, n}) = 2
    <3>1. {2, n} \in SUBSET Int /\ 2 \in {2, n} /\ \A y \in {2, n} : y <= 2
      BY <1>8
    <3>2. QED
      BY <3>1, MaxIs
  <2>10. Cardinality(index(bucket)) = 2
    BY <2>7, <2>8
  <2>11. QED
    BY <1>5, <1>6, <2>9, <2>10 DEF occur, n
<1>9. QED
  BY <1>1, <1>4, <1>7, <1>8

\* order has every code of S once, the rarer ones first.
IsSorting(order, bucket, S) ==
  /\ IsOrder(order, bucket) /\ Len(order) = Cardinality(S)
  /\ Cardinality(S) \in Nat
  /\ \A x \in 1 .. Len(order) : order[x] \in S
  /\ \A c \in S : \E x \in 1 .. Len(order) : c = order[x]

\* sorted(): it is what std::sort says.
LEMMA SortedIs ==
  ASSUME NEW M \in Nat, NEW bucket \in [0 .. M - 1 -> Nat],
         NEW S, S \subseteq 0 .. M - 1, NEW order \in sorted(bucket, S)
  PROVE  IsSorting(order, bucket, S)
<1> DEFINE n == Cardinality(S)
           D == 1 .. n
<1>1. IsFiniteSet(S) /\ n \in Nat
  BY UsedIs, FS_Subset, FS_CardinalityType
<1>2. /\ order \in [D -> S]
      /\ \A i, j \in D : i # j => order[i] # order[j]
      /\ \A j, k \in DOMAIN order : j < k => bucket[order[j]] <= bucket[order[k]]
  BY Zenon DEF sorted, SetToSeqs
<1>3. order \in Seq(Nat) /\ Len(order) = n /\ DOMAIN order = D
  <2>1. order \in [1 .. n -> Nat]
    <3>1. S \subseteq Nat
      OBVIOUS
    <3>2. QED
      BY <1>2, <3>1
  <2> HIDE DEF n
  <2>2. QED
    BY <1>1, <2>1
<1>4. \A x \in D : order[x] \in S /\ order[x] \in DOMAIN bucket
                   /\ bucket[order[x]] \in Nat
  BY <1>2
<1>5. IsOrder(order, bucket)
  <2>1. ASSUME NEW x \in D, NEW y \in D, x <= y
        PROVE  bucket[order[x]] <= bucket[order[y]]
    <3>1. CASE x = y
      BY <1>4, <3>1
    <3>2. CASE x < y
      BY <1>2, <1>3, <3>2
    <3>3. QED
      BY <1>1, <2>1, <3>1, <3>2
  <2> HIDE DEF D
  <2>2. D = 1 .. Len(order)
    BY <1>3 DEF D
  <2>3. QED
    BY <1>2, <1>3, <1>4, <2>1, <2>2 DEF IsOrder
<1>6. \A c \in S : \E x \in D : c = order[x]
  <2>1. order \in Injection(D, S)
    BY <1>2 DEF Injection, IsInjective
  <2>2. Cardinality(D) = n
    <3>1. 1 \in Int /\ n \in Int
      BY <1>1
    <3>2. Cardinality(1 .. n) = IF 1 > n THEN 0 ELSE n - 1 + 1
      BY <3>1, FS_Interval
    <3> HIDE DEF n
    <3>3. QED
      BY <1>1, <3>2
  <2>3. order \in Surjection(D, S)
    BY <1>1, <2>1, <2>2, FS_Injection
  <2>4. QED
    BY <2>3 DEF Surjection
<1>7. QED
  BY <1>1, <1>3, <1>4, <1>5, <1>6 DEF IsSorting

\* calculate(): a complete code, of the codes that index() chose.
LEMMA CalculatedIs ==
  ASSUME NEW M \in Nat, M >= 2, NEW bucket \in [0 .. M - 1 -> Nat], used(bucket) # {},
         NEW n \in Nat \ {0}, M <= 2 ^ n,
         NEW order \in sorted(bucket, index(bucket)),
         NEW dep, dep = lengths(bucket, order, n)
  PROVE  /\ IsComplete(dep, n, M)
         /\ {c \in 0 .. M - 1 : dep[c] > 0} = index(bucket)
<1> DEFINE S == index(bucket)
           N == Len(order)
<1>1. /\ S \subseteq 0 .. M - 1 /\ 2 <= Cardinality(S) /\ Cardinality(S) <= M
  BY IndexIs
<1>2. /\ IsOrder(order, bucket) /\ N = Cardinality(S) /\ N \in Nat
      /\ \A x \in 1 .. N : order[x] \in S
      /\ \A c \in S : \E x \in 1 .. N : c = order[x]
  <2>1. order \in sorted(bucket, S) /\ S \subseteq 0 .. M - 1
    BY <1>1
  <2> HIDE DEF S
  <2>2. IsSorting(order, bucket, S)
    BY <2>1, SortedIs
  <2>3. QED
    BY <2>2 DEF IsSorting
<1>3. 2 <= N /\ N <= 2 ^ n
  <2>1. 2 ^ n \in Nat
    BY PowerOfTwo
  <2> HIDE DEF S, N
  <2>2. QED
    BY <1>1, <1>2, <2>1
<1>4. DOMAIN bucket = 0 .. M - 1 /\ DOMAIN bucket \subseteq Nat
  OBVIOUS
<1>5. PICK P, l : /\ IsLevels(P, l, n, N)
                  /\ lengths(bucket, order, n) = Depths(order, l, n, DOMAIN bucket)
  <2>1. /\ IsOrder(order, bucket) /\ DOMAIN bucket \subseteq Nat
        /\ 2 <= Len(order) /\ Len(order) <= 2 ^ n
    BY <1>2, <1>3, <1>4
  <2>2. QED
    BY <2>1, LengthsAre
<1>6. dep = Depths(order, l, n, DOMAIN bucket)
  BY <1>5
<1>7. /\ dep \in [DOMAIN bucket -> 0 .. n]
      /\ \A c \in DOMAIN bucket : dep[c] > 0 => \E x \in 1 .. N : c = order[x]
      /\ \A x \in 1 .. N : \A i \in 1 .. n :
           x <= l[i] <=> n - i + 1 <= dep[order[x]]
  <2>1. IsOrder(order, bucket) /\ IsLevels(P, l, n, Len(order))
    BY <1>2, <1>5
  <2>2. QED
    BY <1>6, <2>1, DepthsAre
<1>8. start_code(dep, n) + bl_count(dep, n) = 2 ^ n /\ l[n] = N
  BY <1>2, <1>3, <1>5, <1>6, KraftIs
<1>9. IsComplete(dep, n, M)
  BY <1>4, <1>7, <1>8 DEF IsComplete
<1>10. ASSUME NEW c \in 0 .. M - 1
       PROVE  dep[c] > 0 <=> c \in S
  <2>1. ASSUME dep[c] > 0
        PROVE  c \in S
    BY <1>2, <1>4, <1>7, <2>1
  <2>2. ASSUME c \in S
        PROVE  dep[c] > 0
    <3>1. PICK x \in 1 .. N : c = order[x]
      BY <1>2, <2>2
    <3>2. n \in 1 .. n /\ x <= l[n] /\ n - n + 1 = 1
      BY <1>2, <1>8
    <3>3. 1 <= dep[c] /\ dep[c] \in 0 .. n
      BY <1>4, <1>7, <3>1, <3>2
    <3>4. QED
      BY <3>3
  <2>3. QED
    BY <2>1, <2>2
<1>11. QED
  BY <1>1, <1>9, <1>10

===============================================================================
