-------------------------- MODULE HuffmanTreeProofs ---------------------------
(***************************************************************************)
(* HuffmanTree, for every alphabet, limit and source, and for every order  *)
(* that std::sort may leave equal codes in.  HuffmanCodeProofs has that    *)
(* the code is complete and canonical; here it is shown to be optimal, and *)
(* what both say of the tree.                                              *)
(*                                                                         *)
(* Only numbers matter.  If a[i] codes have length n - i + 1 and more, the *)
(* source takes the a[i] lightest leaves' weight for every i at least, and *)
(* packing a[i] leaves of list i with what is packed of the list before    *)
(* reaches as many packages as Kraft's inequality asks for.                *)
(***************************************************************************)
EXTENDS HuffmanTree, HuffmanCodeProofs

-------------------------------------------------------------------------------
(* Lists are in the order of their weights.                                *)

Ascending(s) ==
  \A j, k \in 1 .. Len(s) : j <= k => s[j].weight <= s[k].weight

\* It is enough to compare neighbours.
LEMMA AscendingSteps ==
  ASSUME NEW s \in Seq(Items),
         \A k \in 1 .. Len(s) - 1 : s[k].weight <= s[k + 1].weight
  PROVE  Ascending(s)
<1>1. ASSUME NEW j \in 1 .. Len(s)
      PROVE  \A k \in 1 .. Len(s) : j <= k => s[j].weight <= s[k].weight
  <2> DEFINE S == {d \in 0 .. Len(s) - j : s[j].weight <= s[j + d].weight}
  <2>1. Len(s) \in Nat /\ Len(s) - j \in Nat /\ \A k \in 1 .. Len(s) : s[k].weight \in Nat
    <3>1. \A k \in 1 .. Len(s) : s[k].weight \in Nat
      BY ItemType
    <3>2. Len(s) \in Nat
      OBVIOUS
    <3>3. QED
      BY <3>1, <3>2
  <2>2. 0 \in S
    <3>1. j + 0 = j /\ s[j].weight \in Nat
      BY <2>1
    <3>2. QED
      BY <2>1, <3>1
  <2>3. ASSUME NEW d \in 0 .. Len(s) - j - 1, d \in S
        PROVE  d + 1 \in S
    <3>1. /\ d + 1 \in 0 .. Len(s) - j /\ j + (d + 1) = (j + d) + 1
          /\ j + d \in 1 .. Len(s) - 1 /\ j + d \in 1 .. Len(s)
          /\ j + (d + 1) \in 1 .. Len(s)
      BY <2>1
    <3>2. s[j].weight <= s[j + d].weight /\ s[j + d].weight <= s[(j + d) + 1].weight
      BY <2>3, <3>1
    <3>3. s[j].weight \in Nat /\ s[j + d].weight \in Nat /\ s[(j + d) + 1].weight \in Nat
      BY <2>1, <3>1
    <3>4. s[j].weight <= s[j + (d + 1)].weight
      BY <3>1, <3>2, <3>3
    <3>5. QED
      BY <3>1, <3>4
  <2>4. 0 .. Len(s) - j \subseteq S
    <3> HIDE DEF S
    <3>1. QED
      BY <2>1, <2>2, <2>3, IntervalInduction
  <2>5. ASSUME NEW k \in 1 .. Len(s), j <= k
        PROVE  s[j].weight <= s[k].weight
    <3>1. k - j \in 0 .. Len(s) - j /\ j + (k - j) = k
      BY <2>1, <2>5
    <3>2. QED
      BY <2>4, <3>1
  <2>6. QED
    BY <2>5
<1>2. QED
  BY <1>1 DEF Ascending

LEMMA MergeAscends ==
  ASSUME NEW m, NEW leaves, IsLeaves(leaves), NEW packs \in Seq(Items),
         Ascending(packs), NEW J, IsMerge(m, leaves, packs, J)
  PROVE  Ascending(m)
<1>1. /\ leaves \in Seq(Items) /\ Len(leaves) \in Nat /\ Len(packs) \in Nat
      /\ m \in Seq(Items) /\ Len(m) \in Nat
  <2>1. leaves \in Seq(Items) /\ m \in Seq(Items)
    BY DEF IsLeaves, IsMerge
  <2>2. QED
    BY <2>1
<1>2. ASSUME NEW k \in 1 .. Len(m) - 1
      PROVE  m[k].weight <= m[k + 1].weight
  <2>1. /\ k \in 1 .. Len(m) /\ k + 1 \in 1 .. Len(m) /\ (k + 1) - 1 = k
        /\ k \in 0 .. Len(m) /\ k + 1 \in 0 .. Len(m) /\ k \in Int
    BY <1>1
  <2>2. /\ J[k] \in 0 .. Len(leaves) /\ k - J[k] \in 0 .. Len(packs)
        /\ J[k + 1] \in 0 .. Len(leaves) /\ (k + 1) - J[k + 1] \in 0 .. Len(packs)
    BY <2>1 DEF IsMerge
  <2>3. \/ IsLeaf(m, leaves, packs, k, J[k])
        \/ IsPack(m, leaves, packs, k, J[k])
    BY <2>1 DEF IsMerge
  <2>4. \/ J[k + 1] = J[k] + 1 /\ IsLeaf(m, leaves, packs, k + 1, J[k + 1])
        \/ J[k + 1] = J[k] /\ IsPack(m, leaves, packs, k + 1, J[k + 1])
    BY <2>1 DEF IsMerge
  <2>5. CASE J[k + 1] = J[k] + 1 /\ IsLeaf(m, leaves, packs, k + 1, J[k + 1])
    <3>1. J[k] + 1 \in 1 .. Len(leaves) /\ m[k + 1] = leaves[J[k] + 1]
      BY <2>5 DEF IsLeaf
    <3>2. CASE IsLeaf(m, leaves, packs, k, J[k])
      <4>1. J[k] \in 1 .. Len(leaves) /\ m[k] = leaves[J[k]] /\ J[k] <= J[k] + 1
        BY <1>1, <2>2, <3>2 DEF IsLeaf
      <4>2. leaves[J[k]].weight <= leaves[J[k] + 1].weight
        BY <3>1, <4>1 DEF IsLeaves
      <4>3. QED
        BY <3>1, <4>1, <4>2
    <3>3. CASE IsPack(m, leaves, packs, k, J[k])
      <4>1. J[k] < Len(leaves)
        BY <1>1, <2>2, <3>1
      <4>2. /\ k - J[k] \in 1 .. Len(packs) /\ m[k] = packs[k - J[k]]
            /\ packs[k - J[k]].weight < leaves[J[k] + 1].weight
        BY <3>3, <4>1 DEF IsPack
      <4>3. packs[k - J[k]].weight \in Nat /\ leaves[J[k] + 1].weight \in Nat
        BY <1>1, <3>1, <4>2, ItemType
      <4>4. packs[k - J[k]].weight <= leaves[J[k] + 1].weight
        BY <4>2, <4>3
      <4>5. QED
        BY <3>1, <4>2, <4>4
    <3>4. QED
      BY <2>3, <3>2, <3>3
  <2>6. CASE J[k + 1] = J[k] /\ IsPack(m, leaves, packs, k + 1, J[k + 1])
    <3>1. (k + 1) - J[k] \in 1 .. Len(packs) /\ m[k + 1] = packs[(k + 1) - J[k]]
      BY <2>6 DEF IsPack
    <3>2. (k + 1) - J[k] = k - J[k] + 1 /\ k - J[k] < Len(packs)
      BY <1>1, <2>1, <2>2, <3>1, SMTT(60)
    <3>3. CASE IsLeaf(m, leaves, packs, k, J[k])
      <4>1. /\ m[k] = leaves[J[k]]
            /\ leaves[J[k]].weight <= packs[k - J[k] + 1].weight
        BY <3>2, <3>3 DEF IsLeaf
      <4>2. QED
        BY <3>1, <3>2, <4>1
    <3>4. CASE IsPack(m, leaves, packs, k, J[k])
      <4>1. /\ k - J[k] \in 1 .. Len(packs) /\ m[k] = packs[k - J[k]]
        BY <3>4 DEF IsPack
      <4>2. k - J[k] <= (k + 1) - J[k]
        BY <1>1, <2>2, <3>2
      <4>3. packs[k - J[k]].weight <= packs[(k + 1) - J[k]].weight
        BY <3>1, <4>1, <4>2 DEF Ascending
      <4>4. QED
        BY <3>1, <4>1, <4>3
    <3>5. QED
      BY <2>3, <3>3, <3>4
  <2>7. QED
    BY <2>4, <2>5, <2>6
<1>3. QED
  BY <1>1, <1>2, AscendingSteps

LEMMA PackagesAscend ==
  ASSUME NEW list \in Seq(Items), Ascending(list)
  PROVE  Ascending(packages(list))
<1> DEFINE n == Len(list) \div 2
           packs == packages(list)
<1>1. /\ packs \in Seq(Items) /\ Len(packs) = n /\ n \in Nat
      /\ \A k \in 1 .. n :
           /\ 2 * k - 1 \in 1 .. Len(list) /\ 2 * k \in 1 .. Len(list)
           /\ packs[k].weight = list[2 * k - 1].weight + list[2 * k].weight
  BY PackagesAre
<1> HIDE DEF packs, n
<1>2. ASSUME NEW j \in 1 .. n, NEW k \in 1 .. n, j <= k
      PROVE  packs[j].weight <= packs[k].weight
  <2>1. 2 * j - 1 <= 2 * k - 1 /\ 2 * j <= 2 * k
    BY <1>1, <1>2
  <2>2. /\ 2 * j - 1 \in 1 .. Len(list) /\ 2 * j \in 1 .. Len(list)
        /\ 2 * k - 1 \in 1 .. Len(list) /\ 2 * k \in 1 .. Len(list)
    BY <1>1
  <2>3. /\ list[2 * j - 1].weight <= list[2 * k - 1].weight
        /\ list[2 * j].weight <= list[2 * k].weight
    BY <2>1, <2>2 DEF Ascending
  <2>4. /\ list[2 * j - 1].weight \in Nat /\ list[2 * k - 1].weight \in Nat
        /\ list[2 * j].weight \in Nat /\ list[2 * k].weight \in Nat
    BY <2>2, ItemType
  <2>5. /\ packs[j].weight = list[2 * j - 1].weight + list[2 * j].weight
        /\ packs[k].weight = list[2 * k - 1].weight + list[2 * k].weight
    BY <1>1
  <2> DEFINE a == list[2 * j - 1].weight
             b == list[2 * j].weight
             c == list[2 * k - 1].weight
             d == list[2 * k].weight
  <2>6. /\ a \in Nat /\ b \in Nat /\ c \in Nat /\ d \in Nat /\ a <= c /\ b <= d
        /\ packs[j].weight = a + b /\ packs[k].weight = c + d
    BY <2>3, <2>4, <2>5
  <2> HIDE DEF a, b, c, d
  <2>7. QED
    BY <2>6
<1>3. QED
  BY <1>1, <1>2 DEF Ascending, packs

LEMMA ListsAscend ==
  ASSUME NEW n \in Nat \ {0}, NEW all, NEW leaves, IsLeaves(leaves),
         IsLists(all, leaves, n), NEW J, AllMerged(all, leaves, n, J)
  PROVE  \A i \in 1 .. n : Ascending(all[i]) /\ Ascending(Before(all, i))
<1> DEFINE S == {k \in 0 .. n - 1 :
                   Ascending(all[k + 1]) /\ Ascending(Before(all, k + 1))}
<1>1. 0 \in S
  <2>1. /\ 1 \in 1 .. n /\ all[1] = leaves /\ 0 + 1 = 1 /\ 0 \in 0 .. n - 1
        /\ Before(all, 1) = <<>>
    BY DEF IsLists, Before
  <2>2. Ascending(leaves)
    BY DEF IsLeaves, Ascending
  <2>3. Ascending(<<>>)
    BY DEF Ascending
  <2>4. QED
    BY <2>1, <2>2, <2>3
<1>2. ASSUME NEW k \in 0 .. (n - 1) - 1, k \in S
      PROVE  k + 1 \in S
  <2>1. /\ k + 1 \in 1 .. n /\ k + 2 \in 1 .. n /\ (k + 2) - 1 = k + 1
        /\ k + 1 \in 0 .. n - 1 /\ k + 2 # 1 /\ (k + 1) + 1 = k + 2
    OBVIOUS
  <2>2. /\ all[k + 1] \in Seq(Items) /\ all[k + 2] \in Seq(Items)
        /\ Before(all, k + 2) = packages(all[k + 1])
    BY <2>1, BeforeIs
  <2>3. Ascending(Before(all, k + 2)) /\ Before(all, k + 2) \in Seq(Items)
    <3>1. Ascending(all[k + 1])
      BY <1>2
    <3>2. QED
      BY <2>2, <3>1, PackagesAscend, PackagesAre
  <2>4. IsMerge(all[k + 2], leaves, Before(all, k + 2), J[k + 2])
    BY <2>1 DEF AllMerged
  <2>5. Ascending(all[k + 2])
    BY <2>3, <2>4, MergeAscends
  <2>6. QED
    BY <2>1, <2>3, <2>5
<1>3. 0 .. n - 1 \subseteq S
  <2> HIDE DEF S
  <2>1. n - 1 \in Nat
    OBVIOUS
  <2>2. QED
    BY <1>1, <1>2, <2>1, IntervalInduction
<1>4. ASSUME NEW i \in 1 .. n
      PROVE  Ascending(all[i]) /\ Ascending(Before(all, i))
  <2>1. i - 1 \in 0 .. n - 1 /\ (i - 1) + 1 = i
    OBVIOUS
  <2>2. QED
    BY <1>3, <2>1
<1>5. QED
  BY <1>4

-------------------------------------------------------------------------------
(* What the first items of a list weigh.                                   *)

Weight(list, b) == Total([k \in 1 .. Len(list) |-> list[k].weight], b)

LEMMA WeightIs ==
  ASSUME NEW list \in Seq(Items)
  PROVE  /\ Weight(list, 0) = 0
         /\ \A b \in 0 .. Len(list) : Weight(list, b) \in Int
         /\ \A b \in 0 .. Len(list) - 1 :
              Weight(list, b + 1) = Weight(list, b) + list[b + 1].weight
         /\ \A a, b \in 0 .. Len(list) : a <= b => Weight(list, a) <= Weight(list, b)
<1> DEFINE h == [k \in 1 .. Len(list) |-> list[k].weight]
<1>1. Len(list) \in Nat /\ \A k \in 1 .. Len(list) : h[k] \in Nat
  <2>1. \A k \in 1 .. Len(list) : list[k].weight \in Nat
    BY ItemType
  <2>2. QED
    BY <2>1
<1>2. \A b : Weight(list, b) = Total(h, b)
  BY DEF Weight
<1>3. \A k \in 1 .. Len(list) : h[k] = list[k].weight
  OBVIOUS
<1> HIDE DEF h
<1>4. Weight(list, 0) = 0
  BY <1>2, TotalIs
<1>5. \A b \in 0 .. Len(list) : Weight(list, b) \in Int
  <2>1. \A k \in 1 .. Len(list) : h[k] \in Int
    BY <1>1
  <2>2. \A b \in 0 .. Len(list) : Total(h, b) \in Int
    BY <1>1, <2>1, TotalInt
  <2>3. QED
    BY <1>2, <2>2
<1>6. ASSUME NEW b \in 0 .. Len(list) - 1
      PROVE  Weight(list, b + 1) = Weight(list, b) + list[b + 1].weight
  <2>1. b \in Nat /\ b + 1 \in 1 .. Len(list)
    BY <1>1
  <2>2. Total(h, b + 1) = Total(h, b) + h[b + 1]
    BY <2>1, TotalIs
  <2>3. QED
    BY <1>2, <1>3, <2>1, <2>2
<1>7. ASSUME NEW a \in 0 .. Len(list), NEW b \in 0 .. Len(list), a <= b
      PROVE  Weight(list, a) <= Weight(list, b)
  <2>1. Total(h, a) <= Total(h, b)
    BY <1>1, <1>7, TotalGrows
  <2>2. QED
    BY <1>2, <2>1
<1>8. QED
  BY <1>4, <1>5, <1>6, <1>7

\* The first packages weigh what they are made of.
LEMMA PackageWeight ==
  ASSUME NEW list \in Seq(Items), NEW p \in 0 .. Len(list) \div 2
  PROVE  /\ 2 * p \in 0 .. Len(list) /\ p \in 0 .. Len(packages(list))
         /\ Weight(packages(list), p) = Weight(list, 2 * p)
<1> DEFINE n == Len(list) \div 2
           packs == packages(list)
<1>1. /\ packs \in Seq(Items) /\ Len(packs) = n /\ n \in Nat
      /\ 2 * n \in {Len(list), Len(list) - 1}
      /\ \A k \in 1 .. n :
           packs[k].weight = list[2 * k - 1].weight + list[2 * k].weight
  BY PackagesAre
<1>2. Len(list) \in Nat /\ p \in 0 .. n
  OBVIOUS
<1> HIDE DEF packs, n
<1>3. \A k \in 0 .. n : 2 * k \in 0 .. Len(list)
  BY <1>1, <1>2
<1> DEFINE S == {k \in 0 .. n : Weight(packs, k) = Weight(list, 2 * k)}
<1>4. 0 \in S
  <2>1. Weight(packs, 0) = 0 /\ Weight(list, 0) = 0 /\ 2 * 0 = 0
    BY <1>1, WeightIs
  <2>2. QED
    BY <1>1, <2>1
<1>5. ASSUME NEW k \in 0 .. n - 1, k \in S
      PROVE  k + 1 \in S
  <2>1. /\ k + 1 \in 0 .. n /\ k + 1 \in 1 .. n /\ k \in 0 .. Len(packs) - 1
        /\ k \in 0 .. n
    BY <1>1
  <2>2. /\ 2 * k \in 0 .. Len(list) - 1 /\ 2 * k + 1 \in 0 .. Len(list) - 1
        /\ 2 * (k + 1) - 1 = 2 * k + 1 /\ 2 * (k + 1) = (2 * k + 1) + 1
        /\ 2 * k \in 0 .. Len(list)
        /\ 2 * k + 1 \in 1 .. Len(list) /\ (2 * k + 1) + 1 \in 1 .. Len(list)
    <3>1. 2 * (k + 1) \in 0 .. Len(list)
      BY <1>3, <2>1
    <3>2. QED
      BY <1>2, <3>1
  <2>3. Weight(packs, k + 1) = Weight(packs, k) + packs[k + 1].weight
    BY <1>1, <2>1, WeightIs
  <2>4. /\ Weight(list, 2 * k + 1) = Weight(list, 2 * k) + list[2 * k + 1].weight
        /\ Weight(list, (2 * k + 1) + 1)
             = Weight(list, 2 * k + 1) + list[(2 * k + 1) + 1].weight
        /\ Weight(list, 2 * k) \in Int
    BY <2>2, WeightIs
  <2>5. packs[k + 1].weight = list[2 * k + 1].weight + list[(2 * k + 1) + 1].weight
    BY <1>1, <2>1, <2>2
  <2>6. list[2 * k + 1].weight \in Nat /\ list[(2 * k + 1) + 1].weight \in Nat
    BY <2>2, ItemType
  <2>7. Weight(packs, k) = Weight(list, 2 * k)
    BY <1>5
  <2>8. Weight(packs, k + 1) = Weight(list, (2 * k + 1) + 1)
    BY <2>3, <2>4, <2>5, <2>6, <2>7, SMTT(60)
  <2>9. QED
    BY <2>1, <2>2, <2>8
<1>6. 0 .. n \subseteq S
  <2> HIDE DEF S
  <2>1. QED
    BY <1>1, <1>4, <1>5, IntervalInduction
<1>7. Weight(packs, p) = Weight(list, 2 * p) /\ 2 * p \in 0 .. Len(list)
  BY <1>2, <1>3, <1>6
<1>8. QED
  BY <1>1, <1>2, <1>7 DEF packs

\* The first items of a merged list weigh what their leaves and packages do.
LEMMA MergeWeight ==
  ASSUME NEW m, NEW leaves \in Seq(Items), NEW packs \in Seq(Items), NEW J,
         IsMerge(m, leaves, packs, J), NEW b \in 0 .. Len(m)
  PROVE  Weight(m, b) = Weight(leaves, J[b]) + Weight(packs, b - J[b])
<1>1. m \in Seq(Items) /\ Len(m) \in Nat /\ J[0] = 0
      /\ Len(leaves) \in Nat /\ Len(packs) \in Nat
  <2>1. m \in Seq(Items) /\ J[0] = 0
    BY DEF IsMerge
  <2>2. QED
    BY <2>1
<1> DEFINE S == {k \in 0 .. Len(m) :
                   Weight(m, k) = Weight(leaves, J[k]) + Weight(packs, k - J[k])}
<1>2. 0 \in S
  <2>1. Weight(m, 0) = 0 /\ Weight(leaves, 0) = 0 /\ Weight(packs, 0) = 0
    BY <1>1, WeightIs
  <2>2. QED
    BY <1>1, <2>1
<1>3. ASSUME NEW k \in 0 .. Len(m) - 1, k \in S
      PROVE  k + 1 \in S
  <2>1. /\ k + 1 \in 1 .. Len(m) /\ k + 1 \in 0 .. Len(m) /\ (k + 1) - 1 = k
        /\ k \in 0 .. Len(m) /\ k \in Nat
    BY <1>1
  <2>2. /\ J[k] \in 0 .. Len(leaves) /\ k - J[k] \in 0 .. Len(packs)
        /\ J[k + 1] \in 0 .. Len(leaves) /\ (k + 1) - J[k + 1] \in 0 .. Len(packs)
    BY <2>1 DEF IsMerge
  <2>3. \/ J[k + 1] = J[k] + 1 /\ IsLeaf(m, leaves, packs, k + 1, J[k + 1])
        \/ J[k + 1] = J[k] /\ IsPack(m, leaves, packs, k + 1, J[k + 1])
    BY <2>1 DEF IsMerge
  <2>4. Weight(m, k + 1) = Weight(m, k) + m[k + 1].weight
    BY <1>1, WeightIs
  <2>5. /\ Weight(leaves, J[k]) \in Int /\ Weight(packs, k - J[k]) \in Int
        /\ Weight(m, k) = Weight(leaves, J[k]) + Weight(packs, k - J[k])
    BY <1>3, <2>2, WeightIs
  <2>6. CASE J[k + 1] = J[k] + 1 /\ IsLeaf(m, leaves, packs, k + 1, J[k + 1])
    <3>1. J[k] + 1 \in 1 .. Len(leaves) /\ m[k + 1] = leaves[J[k] + 1]
      BY <2>6 DEF IsLeaf
    <3>2. J[k] \in 0 .. Len(leaves) - 1 /\ (k + 1) - J[k + 1] = k - J[k]
      BY <1>1, <2>1, <2>2, <2>6, <3>1, SMTT(60)
    <3>3. Weight(leaves, J[k] + 1) = Weight(leaves, J[k]) + leaves[J[k] + 1].weight
      BY <3>2, WeightIs
    <3>4. leaves[J[k] + 1].weight \in Nat
      BY <3>1, ItemType
    <3>5. Weight(m, k + 1) = Weight(leaves, J[k] + 1) + Weight(packs, k - J[k])
      BY <2>4, <2>5, <3>1, <3>3, <3>4, SMTT(60)
    <3>6. QED
      BY <2>1, <2>6, <3>2, <3>5
  <2>7. CASE J[k + 1] = J[k] /\ IsPack(m, leaves, packs, k + 1, J[k + 1])
    <3>1. /\ (k + 1) - J[k] \in 1 .. Len(packs)
          /\ m[k + 1] = packs[(k + 1) - J[k]]
      BY <2>7 DEF IsPack
    <3>2. k - J[k] \in 0 .. Len(packs) - 1 /\ (k + 1) - J[k] = (k - J[k]) + 1
      BY <1>1, <2>1, <2>2, <3>1, SMTT(60)
    <3>3. Weight(packs, (k - J[k]) + 1)
            = Weight(packs, k - J[k]) + packs[(k - J[k]) + 1].weight
      BY <3>2, WeightIs
    <3>4. packs[(k - J[k]) + 1].weight \in Nat
      BY <3>1, <3>2, ItemType
    <3>5. m[k + 1] = packs[(k - J[k]) + 1]
      BY <3>1, <3>2
    <3>6. Weight(m, k + 1) = Weight(leaves, J[k]) + Weight(packs, (k - J[k]) + 1)
      BY <2>4, <2>5, <3>3, <3>4, <3>5
    <3>7. QED
      BY <2>1, <2>7, <3>2, <3>6
  <2>8. QED
    BY <2>3, <2>6, <2>7
<1>4. 0 .. Len(m) \subseteq S
  <2> HIDE DEF S
  <2>1. QED
    BY <1>1, <1>2, <1>3, IntervalInduction
<1>5. QED
  BY <1>4

\* At b, no leaf in front is heavier than a package behind, nor a package
\* in front than a leaf behind.
LEMMA Frontier ==
  ASSUME NEW m, NEW leaves, IsLeaves(leaves), NEW packs \in Seq(Items),
         Ascending(packs), NEW J, IsMerge(m, leaves, packs, J), NEW b \in 0 .. Len(m)
  PROVE  /\ \A x \in 1 .. J[b] : \A k \in b - J[b] + 1 .. Len(packs) :
              leaves[x].weight <= packs[k].weight
         /\ \A k \in 1 .. b - J[b] : \A x \in J[b] + 1 .. Len(leaves) :
              packs[k].weight <= leaves[x].weight
<1>1. leaves \in Seq(Items) /\ Len(leaves) \in Nat /\ Len(packs) \in Nat
      /\ m \in Seq(Items) /\ Len(m) \in Nat
  <2>1. leaves \in Seq(Items) /\ m \in Seq(Items)
    BY DEF IsLeaves, IsMerge
  <2>2. QED
    BY <2>1
<1>2. J[b] \in 0 .. Len(leaves) /\ b - J[b] \in 0 .. Len(packs)
  BY DEF IsMerge
<1>3. ASSUME NEW x \in 1 .. J[b], NEW k \in b - J[b] + 1 .. Len(packs)
      PROVE  leaves[x].weight <= packs[k].weight
  <2>1. PICK a \in 1 .. b : J[a] = x /\ IsLeaf(m, leaves, packs, a, x)
    BY <1>1, LeafAt
  <2>2. a \in 0 .. Len(m) /\ a <= b
    BY <1>1, <2>1
  <2>3. a - J[a] <= b - J[b] /\ a - J[a] \in 0 .. Len(packs)
    <3>1. a - J[a] <= b - J[b]
      BY <1>1, <2>2, MergeGrows
    <3>2. QED
      BY <2>2, <3>1 DEF IsMerge
  <2>4. a - x < Len(packs) /\ a - x + 1 \in 1 .. Len(packs) /\ k \in 1 .. Len(packs)
        /\ a - x + 1 <= k
    BY <1>1, <1>2, <2>1, <2>3, SMTT(60)
  <2>5. x \in 1 .. Len(leaves) /\ leaves[x].weight <= packs[a - x + 1].weight
    BY <2>1, <2>4 DEF IsLeaf
  <2>6. packs[a - x + 1].weight <= packs[k].weight
    BY <2>4 DEF Ascending
  <2>7. leaves[x].weight \in Nat /\ packs[a - x + 1].weight \in Nat
        /\ packs[k].weight \in Nat
    BY <1>1, <2>4, <2>5, ItemType
  <2>8. QED
    BY <2>5, <2>6, <2>7
<1>4. ASSUME NEW k \in 1 .. b - J[b], NEW x \in J[b] + 1 .. Len(leaves)
      PROVE  packs[k].weight <= leaves[x].weight
  <2>1. PICK a \in 1 .. b : a - J[a] = k /\ IsPack(m, leaves, packs, a, J[a])
    BY <1>1, PackAt
  <2>2. a \in 0 .. Len(m) /\ a <= b
    BY <1>1, <2>1
  <2>3. J[a] <= J[b] /\ J[a] \in 0 .. Len(leaves)
    <3>1. J[a] <= J[b]
      BY <1>1, <2>2, MergeGrows
    <3>2. QED
      BY <2>2, <3>1 DEF IsMerge
  <2>4. J[a] < Len(leaves) /\ J[a] + 1 \in 1 .. Len(leaves) /\ x \in 1 .. Len(leaves)
        /\ J[a] + 1 <= x
    BY <1>1, <1>2, <2>3, SMTT(60)
  <2>5. k \in 1 .. Len(packs) /\ packs[k].weight < leaves[J[a] + 1].weight
    BY <2>1, <2>4 DEF IsPack
  <2>6. leaves[J[a] + 1].weight <= leaves[x].weight
    BY <2>4 DEF IsLeaves
  <2>7. packs[k].weight \in Nat /\ leaves[J[a] + 1].weight \in Nat
        /\ leaves[x].weight \in Nat
    BY <1>1, <2>4, <2>5, ItemType
  <2>8. QED
    BY <2>5, <2>6, <2>7, SMTT(60)
<1>5. QED
  BY <1>3, <1>4

\* No choice of as many leaves and packages is lighter: more leaves ...
LEMMA MoreLeavesHeavier ==
  ASSUME NEW m, NEW leaves, IsLeaves(leaves), NEW packs \in Seq(Items),
         Ascending(packs), NEW J, IsMerge(m, leaves, packs, J), NEW b \in 0 .. Len(m),
         NEW e \in Nat, J[b] + e <= Len(leaves), e <= b - J[b]
  PROVE  Weight(m, b) <= Weight(leaves, J[b] + e) + Weight(packs, b - J[b] - e)
<1> DEFINE j == J[b]
           q == b - J[b]
<1>1. /\ leaves \in Seq(Items) /\ Len(leaves) \in Nat /\ Len(packs) \in Nat
      /\ j \in 0 .. Len(leaves) /\ q \in 0 .. Len(packs)
  <2>1. leaves \in Seq(Items)
    BY DEF IsLeaves
  <2>2. j \in 0 .. Len(leaves) /\ q \in 0 .. Len(packs)
    BY DEF IsMerge
  <2>3. QED
    BY <2>1, <2>2
<1>2. Weight(m, b) = Weight(leaves, j) + Weight(packs, q)
  BY <1>1, MergeWeight
<1>3. \A k \in 1 .. q : \A x \in j + 1 .. Len(leaves) :
        packs[k].weight <= leaves[x].weight
  BY Frontier
<1>4. j + e <= Len(leaves) /\ e <= q
  OBVIOUS
<1>5. (b - J[b] - e) = q - e
  OBVIOUS
<1> HIDE DEF j, q
<1> DEFINE S == {d \in 0 .. e : Weight(m, b) <= Weight(leaves, j + d) + Weight(packs, q - d)}
<1>6. 0 \in S
  <2>1. Weight(leaves, j) \in Int /\ Weight(packs, q) \in Int
    BY <1>1, WeightIs
  <2>2. j + 0 = j /\ q - 0 = q
    BY <1>1
  <2>3. QED
    BY <1>2, <2>1, <2>2
<1>7. ASSUME NEW d \in 0 .. e - 1, d \in S
      PROVE  d + 1 \in S
  <2>1. /\ j + d \in 0 .. Len(leaves) - 1 /\ j + (d + 1) = (j + d) + 1
        /\ (j + d) + 1 \in j + 1 .. Len(leaves) /\ (j + d) + 1 \in 1 .. Len(leaves)
        /\ q - d \in 1 .. q /\ q - d \in 1 .. Len(packs)
        /\ q - (d + 1) \in 0 .. Len(packs) - 1 /\ q - d = (q - (d + 1)) + 1
        /\ d + 1 \in 0 .. e /\ j + d \in 0 .. Len(leaves)
        /\ q - (d + 1) \in 0 .. Len(packs)
    BY <1>1, <1>4
  <2>2. Weight(leaves, (j + d) + 1) = Weight(leaves, j + d) + leaves[(j + d) + 1].weight
    BY <1>1, <2>1, WeightIs
  <2>3. Weight(packs, q - d) = Weight(packs, q - (d + 1)) + packs[q - d].weight
    <3>1. Weight(packs, (q - (d + 1)) + 1)
            = Weight(packs, q - (d + 1)) + packs[(q - (d + 1)) + 1].weight
      BY <2>1, WeightIs
    <3>2. QED
      BY <2>1, <3>1
  <2>4. packs[q - d].weight <= leaves[(j + d) + 1].weight
    BY <1>3, <2>1
  <2>5. Weight(leaves, j + d) \in Int /\ Weight(packs, q - (d + 1)) \in Int
    BY <1>1, <2>1, WeightIs
  <2>6. packs[q - d].weight \in Nat /\ leaves[(j + d) + 1].weight \in Nat
    BY <1>1, <2>1, ItemType
  <2>7. Weight(m, b) <= Weight(leaves, j + d) + Weight(packs, q - d)
    BY <1>7
  <2>8. Weight(m, b) \in Int
    BY <1>1, <1>2, WeightIs
  <2>9. Weight(m, b) <= Weight(leaves, (j + d) + 1) + Weight(packs, q - (d + 1))
    BY <2>2, <2>3, <2>4, <2>5, <2>6, <2>7, <2>8, SMTT(60)
  <2>10. QED
    BY <2>1, <2>9
<1>8. 0 .. e \subseteq S
  <2> HIDE DEF S
  <2>1. QED
    BY <1>6, <1>7, IntervalInduction
<1>9. Weight(m, b) <= Weight(leaves, j + e) + Weight(packs, q - e)
  BY <1>8
<1>10. QED
  BY <1>5, <1>9 DEF j

\* ... or more packages.
LEMMA MorePackagesHeavier ==
  ASSUME NEW m, NEW leaves, IsLeaves(leaves), NEW packs \in Seq(Items),
         Ascending(packs), NEW J, IsMerge(m, leaves, packs, J), NEW b \in 0 .. Len(m),
         NEW e \in Nat, e <= J[b], b - J[b] + e <= Len(packs)
  PROVE  Weight(m, b) <= Weight(leaves, J[b] - e) + Weight(packs, b - J[b] + e)
<1> DEFINE j == J[b]
           q == b - J[b]
<1>1. /\ leaves \in Seq(Items) /\ Len(leaves) \in Nat /\ Len(packs) \in Nat
      /\ j \in 0 .. Len(leaves) /\ q \in 0 .. Len(packs)
  <2>1. leaves \in Seq(Items)
    BY DEF IsLeaves
  <2>2. j \in 0 .. Len(leaves) /\ q \in 0 .. Len(packs)
    BY DEF IsMerge
  <2>3. QED
    BY <2>1, <2>2
<1>2. Weight(m, b) = Weight(leaves, j) + Weight(packs, q)
  BY <1>1, MergeWeight
<1>3. \A x \in 1 .. j : \A k \in q + 1 .. Len(packs) :
        leaves[x].weight <= packs[k].weight
  BY Frontier
<1>4. e <= j /\ q + e <= Len(packs)
  OBVIOUS
<1>5. b - J[b] + e = q + e
  OBVIOUS
<1> HIDE DEF j, q
<1> DEFINE S == {d \in 0 .. e : Weight(m, b) <= Weight(leaves, j - d) + Weight(packs, q + d)}
<1>6. 0 \in S
  <2>1. Weight(leaves, j) \in Int /\ Weight(packs, q) \in Int
    BY <1>1, WeightIs
  <2>2. j - 0 = j /\ q + 0 = q
    BY <1>1
  <2>3. QED
    BY <1>2, <2>1, <2>2
<1>7. ASSUME NEW d \in 0 .. e - 1, d \in S
      PROVE  d + 1 \in S
  <2>1. /\ q + d \in 0 .. Len(packs) - 1 /\ q + (d + 1) = (q + d) + 1
        /\ (q + d) + 1 \in q + 1 .. Len(packs) /\ (q + d) + 1 \in 1 .. Len(packs)
        /\ j - d \in 1 .. j /\ j - d \in 1 .. Len(leaves)
        /\ j - (d + 1) \in 0 .. Len(leaves) - 1 /\ j - d = (j - (d + 1)) + 1
        /\ d + 1 \in 0 .. e /\ q + d \in 0 .. Len(packs)
        /\ j - (d + 1) \in 0 .. Len(leaves)
    BY <1>1, <1>4
  <2>2. Weight(packs, (q + d) + 1) = Weight(packs, q + d) + packs[(q + d) + 1].weight
    BY <2>1, WeightIs
  <2>3. Weight(leaves, j - d) = Weight(leaves, j - (d + 1)) + leaves[j - d].weight
    <3>1. Weight(leaves, (j - (d + 1)) + 1)
            = Weight(leaves, j - (d + 1)) + leaves[(j - (d + 1)) + 1].weight
      BY <1>1, <2>1, WeightIs
    <3>2. QED
      BY <2>1, <3>1
  <2>4. leaves[j - d].weight <= packs[(q + d) + 1].weight
    BY <1>3, <2>1
  <2>5. Weight(packs, q + d) \in Int /\ Weight(leaves, j - (d + 1)) \in Int
    BY <1>1, <2>1, WeightIs
  <2>6. leaves[j - d].weight \in Nat /\ packs[(q + d) + 1].weight \in Nat
    BY <1>1, <2>1, ItemType
  <2>7. Weight(m, b) <= Weight(leaves, j - d) + Weight(packs, q + d)
    BY <1>7
  <2>8. Weight(m, b) \in Int
    BY <1>1, <1>2, WeightIs
  <2>9. Weight(m, b) <= Weight(leaves, j - (d + 1)) + Weight(packs, (q + d) + 1)
    BY <2>2, <2>3, <2>4, <2>5, <2>6, <2>7, <2>8, SMTT(60)
  <2>10. QED
    BY <2>1, <2>9
<1>8. 0 .. e \subseteq S
  <2> HIDE DEF S
  <2>1. QED
    BY <1>6, <1>7, IntervalInduction
<1>9. Weight(m, b) <= Weight(leaves, j - e) + Weight(packs, q + e)
  BY <1>8
<1>10. QED
  BY <1>5, <1>9 DEF j

\* A merged list has the lightest items in front.
LEMMA MergeLightest ==
  ASSUME NEW m, NEW leaves, IsLeaves(leaves), NEW packs \in Seq(Items),
         Ascending(packs), NEW J, IsMerge(m, leaves, packs, J),
         NEW a \in 0 .. Len(leaves), NEW p \in 0 .. Len(packs)
  PROVE  /\ a + p \in 0 .. Len(m)
         /\ Weight(m, a + p) <= Weight(leaves, a) + Weight(packs, p)
<1> DEFINE b == a + p
<1>1. /\ leaves \in Seq(Items) /\ Len(leaves) \in Nat /\ Len(packs) \in Nat
      /\ Len(m) = Len(leaves) + Len(packs)
  <2>1. leaves \in Seq(Items) /\ Len(m) = Len(leaves) + Len(packs)
    BY DEF IsLeaves, IsMerge
  <2>2. QED
    BY <2>1
<1>2. b \in 0 .. Len(m) /\ b \in Nat /\ a \in Nat /\ p \in Nat
  BY <1>1
<1>3. J[b] \in 0 .. Len(leaves) /\ b - J[b] \in 0 .. Len(packs)
  BY <1>2 DEF IsMerge
<1>4. CASE J[b] <= a
  <2>1. /\ a - J[b] \in Nat /\ J[b] + (a - J[b]) = a
        /\ b - J[b] - (a - J[b]) = p /\ a - J[b] <= b - J[b]
        /\ J[b] + (a - J[b]) <= Len(leaves)
    BY <1>1, <1>2, <1>3, <1>4
  <2>2. Weight(m, b) <= Weight(leaves, J[b] + (a - J[b]))
                          + Weight(packs, b - J[b] - (a - J[b]))
    <3> HIDE DEF b
    <3>1. QED
      BY <1>2, <2>1, MoreLeavesHeavier
  <2>3. QED
    BY <1>2, <2>1, <2>2
<1>5. CASE a <= J[b]
  <2>1. /\ J[b] - a \in Nat /\ J[b] - (J[b] - a) = a
        /\ b - J[b] + (J[b] - a) = p /\ J[b] - a <= J[b]
        /\ b - J[b] + (J[b] - a) <= Len(packs)
    BY <1>1, <1>2, <1>3, <1>5
  <2>2. Weight(m, b) <= Weight(leaves, J[b] - (J[b] - a))
                          + Weight(packs, b - J[b] + (J[b] - a))
    <3> HIDE DEF b
    <3>1. QED
      BY <1>2, <2>1, MorePackagesHeavier
  <2>3. QED
    BY <1>2, <2>1, <2>2
<1>6. QED
  BY <1>1, <1>3, <1>4, <1>5

-------------------------------------------------------------------------------
(* What every choice of lengths weighs.                                    *)

\* Of the first i lists as much is taken as costs c and, in strings of n
\* bits, has width v: so many packages are no heavier and as wide.
Packed(all, i, c, v) ==
  \E p \in 0 .. Len(Before(all, i + 1)) :
    Weight(Before(all, i + 1), p) <= c /\ v < (p + 1) * 2 ^ i

\* a[i] leaves are taken of list i.
Taking(leaves, n, a, cost, width) ==
  /\ cost[0] = 0 /\ width[0] = 0
  /\ \A i \in 0 .. n : cost[i] \in Int /\ width[i] \in Int
  /\ \A i \in 1 .. n : /\ a[i] \in 0 .. Len(leaves)
                       /\ cost[i - 1] + Weight(leaves, a[i]) <= cost[i]
                       /\ width[i] = width[i - 1] + a[i] * 2 ^ (i - 1)

\* One list more: the leaves that are taken of it and the packages make new
\* packages, two by two, and one item may be left.
LEMMA PackedOnce ==
  ASSUME NEW n \in Nat \ {0}, NEW all, NEW leaves, IsLeaves(leaves),
         IsLists(all, leaves, n), NEW J, AllMerged(all, leaves, n, J),
         NEW k \in 0 .. n - 1, NEW c \in Int, NEW v \in Int, Packed(all, k, c, v),
         NEW a \in 0 .. Len(leaves), NEW d \in Int, c + Weight(leaves, a) <= d
  PROVE  Packed(all, k + 1, d, v + a * 2 ^ k)
<1> DEFINE m == all[k + 1]
           packs == Before(all, k + 1)
<1>1. k + 1 \in 1 .. n /\ k \in Nat /\ k + 1 # 0 /\ (k + 1) + 1 # 1 /\ ((k + 1) + 1) - 1 = k + 1
  OBVIOUS
<1>2. /\ m \in Seq(Items) /\ packs \in Seq(Items) /\ leaves \in Seq(Items)
      /\ IsMerge(m, leaves, packs, J[k + 1]) /\ Ascending(packs)
      /\ Before(all, (k + 1) + 1) = packages(m)
  <2>1. m \in Seq(Items) /\ IsPacks(packs)
    BY <1>1, BeforeIs
  <2>2. Ascending(packs)
    BY <1>1, ListsAscend
  <2>3. IsMerge(m, leaves, packs, J[k + 1])
    BY <1>1 DEF AllMerged
  <2>4. Before(all, (k + 1) + 1) = packages(m)
    BY <1>1 DEF Before
  <2>5. QED
    BY <2>1, <2>2, <2>3, <2>4 DEF IsPacks, IsLeaves
<1>3. PICK p \in 0 .. Len(packs) : Weight(packs, p) <= c /\ v < (p + 1) * 2 ^ k
  BY DEF Packed
<1> HIDE DEF m, packs
<1>4. /\ a + p \in 0 .. Len(m)
      /\ Weight(m, a + p) <= Weight(leaves, a) + Weight(packs, p)
  BY <1>2, MergeLightest
<1>5. a \in Nat /\ p \in Nat /\ Len(m) \in Nat
  BY <1>2, <1>3
<1> DEFINE q == (a + p) \div 2
<1>6. q \in Nat /\ 2 * q <= a + p /\ a + p + 1 <= 2 * q + 2
  BY <1>5
<1>7. q \in 0 .. Len(m) \div 2 /\ 2 * q \in 0 .. Len(m)
  <2>1. 2 * (Len(m) \div 2) \in {Len(m), Len(m) - 1} /\ Len(m) \div 2 \in Nat
    BY <1>2, PackagesAre
  <2> HIDE DEF q
  <2>2. QED
    BY <1>4, <1>5, <1>6, <2>1
<1> HIDE DEF q
<1>8. /\ q \in 0 .. Len(packages(m))
      /\ Weight(packages(m), q) = Weight(m, 2 * q)
  BY <1>2, <1>7, PackageWeight
<1>9. Weight(packages(m), q) <= d
  <2>1. Weight(m, 2 * q) <= Weight(m, a + p)
    BY <1>2, <1>4, <1>6, <1>7, WeightIs
  <2>2. Weight(m, 2 * q) \in Int /\ Weight(m, a + p) \in Int
    BY <1>2, <1>4, <1>7, WeightIs
  <2>3. Weight(leaves, a) \in Int /\ Weight(packs, p) \in Int
    BY <1>2, <1>3, WeightIs
  <2>4. QED
    BY <1>3, <1>4, <1>8, <2>1, <2>2, <2>3, SMTT(60)
<1>10. v + a * 2 ^ k < (q + 1) * 2 ^ (k + 1)
  <2> DEFINE w == 2 ^ k
  <2>1. w \in Nat \ {0} /\ 2 ^ (k + 1) = 2 * w
    BY <1>1, PowerOfTwo
  <2> HIDE DEF w
  <2>2. v < (p + 1) * w
    BY <1>3 DEF w
  <2>3. (a + p + 1) * w <= (2 * q + 2) * w
    <3>1. a + p + 1 \in Nat /\ 2 * q + 2 \in Nat
      BY <1>5, <1>6
    <3>2. QED
      BY <1>6, <2>1, <3>1, ProductMonotonic
  <2>4. (a + p + 1) * w = (p + 1) * w + a * w
    BY <1>5, <2>1
  <2>5. (2 * q + 2) * w = (q + 1) * (2 * w)
    BY <1>6, <2>1
  <2>6. (p + 1) * w \in Int /\ a * w \in Int /\ (q + 1) * (2 * w) \in Int
    BY <1>5, <1>6, <2>1
  <2>7. v + a * w < (q + 1) * (2 * w)
    BY <2>2, <2>3, <2>4, <2>5, <2>6, SMTT(60)
  <2>8. QED
    BY <2>1, <2>7 DEF w
<1>11. QED
  BY <1>2, <1>8, <1>9, <1>10 DEF Packed

LEMMA PackedAll ==
  ASSUME NEW n \in Nat \ {0}, NEW all, NEW leaves, IsLeaves(leaves),
         IsLists(all, leaves, n), NEW J, AllMerged(all, leaves, n, J),
         NEW a, NEW cost, NEW width, Taking(leaves, n, a, cost, width)
  PROVE  Packed(all, n, cost[n], width[n])
<1> DEFINE S == {k \in 0 .. n : Packed(all, k, cost[k], width[k])}
<1>1. 0 \in S
  <2>1. Before(all, 0 + 1) = <<>>
    BY DEF Before
  <2>2. Weight(<<>>, 0) = 0
    BY TotalIs DEF Weight
  <2>3. 0 \in 0 .. Len(<<>>) /\ (0 + 1) * 2 ^ 0 = 1
    BY PowerOfZero
  <2>4. cost[0] = 0 /\ width[0] = 0
    BY DEF Taking
  <2>5. Packed(all, 0, cost[0], width[0])
    BY <2>1, <2>2, <2>3, <2>4 DEF Packed
  <2>6. QED
    BY <2>5
<1>2. ASSUME NEW k \in 0 .. n - 1, k \in S
      PROVE  k + 1 \in S
  <2>1. k + 1 \in 1 .. n /\ k + 1 \in 0 .. n /\ k \in 0 .. n /\ (k + 1) - 1 = k
    OBVIOUS
  <2>2. /\ a[k + 1] \in 0 .. Len(leaves)
        /\ cost[k] + Weight(leaves, a[k + 1]) <= cost[k + 1]
        /\ width[k + 1] = width[k] + a[k + 1] * 2 ^ k
        /\ cost[k] \in Int /\ cost[k + 1] \in Int /\ width[k] \in Int
    BY <2>1 DEF Taking
  <2>3. Packed(all, k, cost[k], width[k])
    BY <1>2
  <2>4. Packed(all, k + 1, cost[k + 1], width[k] + a[k + 1] * 2 ^ k)
    BY <2>2, <2>3, PackedOnce
  <2>5. QED
    BY <2>1, <2>2, <2>4
<1>3. 0 .. n \subseteq S
  <2> HIDE DEF S
  <2>1. QED
    BY <1>1, <1>2, IntervalInduction
<1>4. QED
  BY <1>3

\* Lengths that are a prefix code's take 2 * N - 2 items of the last list.
LEMMA AtLeast ==
  ASSUME NEW n \in Nat \ {0}, NEW all, NEW leaves, IsLeaves(leaves),
         IsLists(all, leaves, n), NEW J, AllMerged(all, leaves, n, J),
         NEW a, NEW cost, NEW width, Taking(leaves, n, a, cost, width),
         2 <= Len(leaves), (Len(leaves) - 1) * 2 ^ n <= width[n]
  PROVE  Weight(all[n], 2 * (Len(leaves) - 1)) <= cost[n]
<1> DEFINE N == Len(leaves)
           w == 2 ^ n
           m == all[n]
<1>1. /\ N \in Nat /\ m \in Seq(Items) /\ Len(m) \in Nat
      /\ Before(all, n + 1) = packages(m)
  <2>1. leaves \in Seq(Items) /\ n \in 1 .. n /\ n + 1 # 1 /\ (n + 1) - 1 = n
    BY DEF IsLeaves
  <2>2. m \in Seq(Items)
    BY <2>1, BeforeIs
  <2>3. Before(all, n + 1) = packages(m)
    BY <2>1 DEF Before
  <2>4. QED
    BY <2>1, <2>2, <2>3
<1>2. PICK p \in 0 .. Len(packages(m)) :
        Weight(packages(m), p) <= cost[n] /\ width[n] < (p + 1) * w
  <2>1. Packed(all, n, cost[n], width[n])
    BY PackedAll
  <2>2. QED
    BY <1>1, <2>1 DEF Packed
<1>3. w \in Nat \ {0}
  BY PowerOfTwo
<1>4. cost[n] \in Int /\ width[n] \in Int
  BY DEF Taking
<1>5. 2 <= N /\ (N - 1) * w <= width[n]
  OBVIOUS
<1> HIDE DEF N, w, m
<1>6. p \in Nat /\ Len(packages(m)) = Len(m) \div 2 /\ p \in 0 .. Len(m) \div 2
      /\ 2 * (Len(m) \div 2) <= Len(m) /\ Len(m) \div 2 \in Nat
  <2>1. /\ Len(packages(m)) = Len(m) \div 2 /\ Len(m) \div 2 \in Nat
        /\ 2 * (Len(m) \div 2) \in {Len(m), Len(m) - 1}
    BY <1>1, PackagesAre
  <2>2. p \in 0 .. Len(m) \div 2
    BY <2>1
  <2> DEFINE h == Len(m) \div 2
  <2>3. h \in Nat /\ p \in 0 .. h /\ (2 * h = Len(m) \/ 2 * h = Len(m) - 1)
    BY <2>1, <2>2
  <2>4. 2 * h <= Len(m)
    <3> HIDE DEF h
    <3>1. QED
      BY <1>1, <2>3
  <2>5. QED
    BY <2>1, <2>2, <2>3, <2>4
<1>7. N - 1 <= p
  <2>1. CASE p + 1 <= N - 1
    <3>1. (p + 1) * w <= (N - 1) * w
      <4>1. p + 1 \in Nat /\ N - 1 \in Nat
        BY <1>1, <1>5, <1>6
      <4>2. QED
        BY <1>3, <2>1, <4>1, ProductMonotonic
    <3>2. (p + 1) * w \in Int /\ (N - 1) * w \in Int
      BY <1>1, <1>3, <1>6
    <3>3. QED
      BY <1>2, <1>4, <1>5, <3>1, <3>2
  <2>2. QED
    BY <1>1, <1>6, <2>1
<1>8. /\ 2 * (N - 1) \in 0 .. Len(m) /\ 2 * p \in 0 .. Len(m)
      /\ 2 * (N - 1) <= 2 * p
  BY <1>1, <1>5, <1>6, <1>7
<1>9. Weight(m, 2 * (N - 1)) <= Weight(m, 2 * p)
  BY <1>1, <1>8, WeightIs
<1>10. Weight(packages(m), p) = Weight(m, 2 * p)
  BY <1>1, <1>6, PackageWeight
<1>11. Weight(m, 2 * (N - 1)) \in Int /\ Weight(m, 2 * p) \in Int
  BY <1>1, <1>8, WeightIs
<1>12. Weight(m, 2 * (N - 1)) <= cost[n]
  BY <1>2, <1>4, <1>9, <1>10, <1>11
<1>13. QED
  BY <1>12 DEF m, N

-------------------------------------------------------------------------------
(* What the computed lengths weigh.                                        *)

\* cost[i]: what l[1] .. l[i] leaves weigh.
IsCost(cost, leaves, l, n) ==
  /\ cost[0] = 0
  /\ \A i \in 1 .. n : cost[i] = cost[i - 1] + Weight(leaves, l[i])

\* l[i] leaves and P[i] packages of list i are its first items, and those
\* are all in the packages that are taken of the next list.
LEMMA Exact ==
  ASSUME NEW n \in Nat \ {0}, NEW all, NEW leaves, IsLeaves(leaves),
         IsLists(all, leaves, n), NEW P, NEW l, IsLevels(P, l, n, Len(leaves)),
         IsTaken(all, leaves, n, P, l), NEW cost, IsCost(cost, leaves, l, n)
  PROVE  cost[n] = Weight(all[n], 2 * (Len(leaves) - 1))
<1>0. /\ cost[0] = 0
      /\ \A i \in 1 .. n : cost[i] = cost[i - 1] + Weight(leaves, l[i])
  BY DEF IsCost
<1>1. leaves \in Seq(Items) /\ Len(leaves) \in Nat
  BY DEF IsLeaves
<1>2. ASSUME NEW i \in 1 .. n
      PROVE  /\ l[i] + P[i] \in 0 .. Len(all[i]) /\ l[i] + P[i] = 2 * P[i + 1]
             /\ Weight(all[i], l[i] + P[i])
                  = Weight(leaves, l[i]) + Weight(Before(all, i), P[i])
             /\ l[i] \in Nat /\ P[i] \in Nat /\ P[i + 1] \in Nat
  <2>1. InFront(all[i], leaves, Before(all, i), l[i], P[i])
    BY DEF IsTaken
  <2>2. PICK J : IsMerge(all[i], leaves, Before(all, i), J) /\ J[l[i] + P[i]] = l[i]
    BY <2>1 DEF InFront
  <2>3. l[i] + P[i] \in 0 .. Len(all[i])
    BY <2>1 DEF InFront
  <2>4. /\ l[i] \in Nat /\ P[i] \in Nat /\ P[i + 1] \in Nat
        /\ l[i] = 2 * P[i + 1] - P[i]
    <3>1. i \in 1 .. n + 1 /\ i + 1 \in 1 .. n + 1
      OBVIOUS
    <3>2. l[i] \in 0 .. Len(leaves) /\ l[i] = 2 * P[i + 1] - P[i]
      BY DEF IsLevels
    <3>3. P[i] \in Nat /\ P[i + 1] \in Nat
      BY <3>1 DEF IsLevels
    <3>4. QED
      BY <1>1, <3>2, <3>3
  <2>5. Before(all, i) \in Seq(Items)
    BY BeforeIs DEF IsPacks
  <2>6. Weight(all[i], l[i] + P[i])
          = Weight(leaves, l[i]) + Weight(Before(all, i), P[i])
    <3>1. PICK b : b = l[i] + P[i]
      OBVIOUS
    <3>2. b \in 0 .. Len(all[i]) /\ J[b] = l[i] /\ b - J[b] = P[i]
      BY <2>2, <2>3, <2>4, <3>1
    <3>3. Weight(all[i], b) = Weight(leaves, J[b]) + Weight(Before(all, i), b - J[b])
      BY <1>1, <2>2, <2>5, <3>2, MergeWeight
    <3>4. Weight(all[i], b) = Weight(leaves, l[i]) + Weight(Before(all, i), P[i])
      BY <3>2, <3>3
    <3>5. QED
      BY <3>1, <3>4
  <2>7. l[i] + P[i] = 2 * P[i + 1]
    BY <2>4
  <2>8. QED
    BY <2>2, <2>3, <2>4, <2>6, <2>7
<1> DEFINE S == {k \in 0 .. n - 1 :
                   cost[k + 1] = Weight(all[k + 1], l[k + 1] + P[k + 1])}
<1>3. 0 \in S
  <2>1. 1 \in 1 .. n /\ 0 + 1 = 1 /\ 1 - 1 = 0 /\ 0 \in 0 .. n - 1
    OBVIOUS
  <2>2. P[1] = 0 /\ Before(all, 1) = <<>>
    BY DEF IsLevels, Before
  <2>3. Weight(Before(all, 1), P[1]) = 0
    BY <2>2, TotalIs DEF Weight
  <2>4. Weight(all[1], l[1] + P[1])
          = Weight(leaves, l[1]) + Weight(Before(all, 1), P[1])
    BY <1>2, <2>1
  <2>5. cost[1] = 0 + Weight(leaves, l[1])
    BY <1>0, <2>1
  <2>6. Weight(leaves, l[1]) \in Int
    <3>1. l[1] \in 0 .. Len(leaves)
      BY <2>1 DEF IsLevels
    <3>2. QED
      BY <1>1, <3>1, WeightIs
  <2>7. cost[0 + 1] = Weight(all[0 + 1], l[0 + 1] + P[0 + 1])
    BY <2>1, <2>3, <2>4, <2>5, <2>6
  <2>8. QED
    BY <2>1, <2>7
<1>4. ASSUME NEW k \in 0 .. (n - 1) - 1, k \in S
      PROVE  k + 1 \in S
  <2>1. /\ k + 1 \in 1 .. n /\ (k + 1) + 1 \in 1 .. n /\ ((k + 1) + 1) - 1 = k + 1
        /\ k + 1 \in 0 .. n - 1 /\ (k + 1) + 1 # 1
    OBVIOUS
  <2> DEFINE i == k + 1
             j == (k + 1) + 1
  <2>2. /\ i \in 1 .. n /\ j \in 1 .. n /\ j - 1 = i /\ i + 1 = j /\ j # 1
        /\ cost[i] = Weight(all[i], l[i] + P[i])
    BY <1>4, <2>1
  <2> HIDE DEF i, j
  <2>3. cost[j] = cost[i] + Weight(leaves, l[j])
    BY <1>0, <2>2
  <2>4. all[i] \in Seq(Items) /\ Before(all, j) = packages(all[i])
    BY <2>2, BeforeIs
  <2>5. /\ P[j] \in Nat /\ l[i] + P[i] = 2 * P[j]
        /\ l[i] + P[i] \in 0 .. Len(all[i])
        /\ Weight(all[j], l[j] + P[j])
             = Weight(leaves, l[j]) + Weight(Before(all, j), P[j])
    BY <1>2, <2>2
  <2>6. P[j] \in 0 .. Len(all[i]) \div 2
    <3> DEFINE L == Len(all[i])
               p == P[j]
    <3>1. L \in Nat /\ p \in Nat /\ 2 * p <= L
      BY <2>4, <2>5
    <3> HIDE DEF L, p
    <3>2. p \in 0 .. L \div 2
      BY <3>1
    <3>3. QED
      BY <3>2 DEF L, p
  <2>7. Weight(packages(all[i]), P[j]) = Weight(all[i], 2 * P[j])
    BY <2>4, <2>6, PackageWeight
  <2>8. Weight(all[i], 2 * P[j]) \in Int
    <3>1. 2 * P[j] \in 0 .. Len(all[i])
      BY <2>5
    <3>2. QED
      BY <2>4, <3>1, WeightIs
  <2>9. Weight(leaves, l[j]) \in Int
    <3>1. l[j] \in 0 .. Len(leaves)
      BY <2>2 DEF IsLevels
    <3>2. QED
      BY <1>1, <3>1, WeightIs
  <2>10. cost[j] = Weight(all[j], l[j] + P[j])
    BY <2>2, <2>3, <2>4, <2>5, <2>7, <2>8, <2>9
  <2>11. QED
    BY <2>1, <2>10 DEF j
<1>5. 0 .. n - 1 \subseteq S
  <2> HIDE DEF S
  <2>1. n - 1 \in Nat
    OBVIOUS
  <2>2. QED
    BY <1>3, <1>4, <2>1, IntervalInduction
<1>6. cost[n] = Weight(all[n], l[n] + P[n])
  <2>1. n - 1 \in 0 .. n - 1 /\ (n - 1) + 1 = n
    OBVIOUS
  <2>2. QED
    BY <1>5, <2>1
<1>7. l[n] + P[n] = 2 * P[n + 1] /\ P[n + 1] = Len(leaves) - 1
  <2>1. n \in 1 .. n
    OBVIOUS
  <2>2. l[n] + P[n] = 2 * P[n + 1]
    BY <1>2, <2>1
  <2>3. P[n + 1] = Len(leaves) - 1
    BY DEF IsLevels
  <2>4. QED
    BY <2>2, <2>3
<1>8. QED
  BY <1>6, <1>7

-------------------------------------------------------------------------------
(* Choices of lengths.                                                     *)

\* The x with a length of n - t + 1 or more: those that take of list t.
Long(len, N, n, t) == [x \in 1 .. N |-> IF n - t + 1 <= len[x] THEN 1 ELSE 0]

\* What a length takes of the first t lists.
Part(len, n, t, x) == IF n - t < len[x] THEN len[x] - (n - t) ELSE 0

PartCost(leaves, len, n, t) ==
  Total([x \in 1 .. Len(leaves) |-> leaves[x].weight * Part(len, n, t, x)], Len(leaves))

PartWidth(len, N, n, t) ==
  Total([x \in 1 .. N |-> 2 ^ t - 2 ^ (t - Part(len, n, t, x))], N)

TakenWeight(leaves, len, n, t) ==
  Total([x \in 1 .. Len(leaves) |->
           leaves[x].weight * Long(len, Len(leaves), n, t)[x]], Len(leaves))

\* One list more is one bit more of every length that has so many.
LEMMA PartIs ==
  ASSUME NEW N \in Nat, NEW n \in Nat \ {0}, NEW len,
         NEW x \in 1 .. N, len[x] \in 0 .. n, NEW t \in 1 .. n
  PROVE  /\ Part(len, n, t - 1, x) \in 0 .. t - 1 /\ Part(len, n, t, x) \in 0 .. t
         /\ Long(len, N, n, t)[x] \in {0, 1}
         /\ Part(len, n, t, x) = Part(len, n, t - 1, x) + Long(len, N, n, t)[x]
         /\ Long(len, N, n, t)[x] = 0 => Part(len, n, t, x) = 0
<1>1. Long(len, N, n, t)[x] = IF n - t + 1 <= len[x] THEN 1 ELSE 0
  BY DEF Long
<1>2. QED
  BY <1>1 DEF Part

LEMMA PartEnds ==
  ASSUME NEW n \in Nat \ {0}, NEW len, NEW x, len[x] \in 0 .. n
  PROVE  Part(len, n, 0, x) = 0 /\ Part(len, n, n, x) = len[x]
  BY DEF Part

LEMMA CostOnce ==
  ASSUME NEW leaves \in Seq(Items), NEW n \in Nat \ {0}, NEW len,
         \A x \in 1 .. Len(leaves) : len[x] \in 0 .. n, NEW t \in 1 .. n
  PROVE  /\ PartCost(leaves, len, n, t - 1) \in Int
         /\ TakenWeight(leaves, len, n, t) \in Int
         /\ PartCost(leaves, len, n, t)
              = PartCost(leaves, len, n, t - 1) + TakenWeight(leaves, len, n, t)
<1> DEFINE N == Len(leaves)
           f == [x \in 1 .. N |-> leaves[x].weight * Part(len, n, t - 1, x)]
           g == [x \in 1 .. N |-> leaves[x].weight * Long(len, N, n, t)[x]]
           h == [x \in 1 .. N |-> leaves[x].weight * Part(len, n, t, x)]
<1>1. N \in Nat /\ t \in 0 .. n /\ t - 1 \in 0 .. n
  OBVIOUS
<1>2. ASSUME NEW x \in 1 .. N
      PROVE  f[x] \in Int /\ g[x] \in Int /\ h[x] = f[x] + g[x]
  <2> DEFINE v == leaves[x].weight
             p == Part(len, n, t - 1, x)
             b == Long(len, N, n, t)[x]
  <2>1. v \in Nat
    BY ItemType
  <2>2. p \in Nat /\ b \in Nat /\ Part(len, n, t, x) = p + b
    <3>1. p \in 0 .. t - 1 /\ b \in {0, 1} /\ Part(len, n, t, x) = p + b
      <4>1. len[x] \in 0 .. n
        OBVIOUS
      <4>2. QED
        BY <1>1, <4>1, PartIs
    <3>2. QED
      BY <1>1, <3>1
  <2>3. f[x] = v * p /\ g[x] = v * b /\ h[x] = v * Part(len, n, t, x)
    OBVIOUS
  <2> HIDE DEF v, p, b, f, g, h
  <2>4. v * (p + b) = v * p + v * b /\ v * p \in Int /\ v * b \in Int
    BY <2>1, <2>2
  <2>5. QED
    BY <2>2, <2>3, <2>4
<1> HIDE DEF f, g, h, N
<1>3. /\ Total(f, N) \in Int /\ Total(g, N) \in Int
      /\ Total(h, N) = Total(f, N) + Total(g, N)
  BY <1>1, <1>2, TotalPlus
<1>4. QED
  BY <1>3 DEF PartCost, TakenWeight, f, g, h, N

LEMMA WidthOnce ==
  ASSUME NEW N \in Nat, NEW n \in Nat \ {0}, NEW len,
         \A x \in 1 .. N : len[x] \in 0 .. n, NEW t \in 1 .. n
  PROVE  /\ PartWidth(len, N, n, t - 1) \in Int
         /\ Total(Long(len, N, n, t), N) \in Int
         /\ PartWidth(len, N, n, t)
              = PartWidth(len, N, n, t - 1) + Total(Long(len, N, n, t), N) * 2 ^ (t - 1)
<1> DEFINE f == [x \in 1 .. N |-> 2 ^ (t - 1) - 2 ^ ((t - 1) - Part(len, n, t - 1, x))]
           g == Long(len, N, n, t)
           h == [x \in 1 .. N |-> 2 ^ t - 2 ^ (t - Part(len, n, t, x))]
           w == 2 ^ (t - 1)
<1>1. t - 1 \in Nat /\ t \in Nat /\ t \in 0 .. n /\ t - 1 \in 0 .. n
      /\ (t - 1) + 1 = t
  OBVIOUS
<1>2. w \in Nat /\ 2 ^ t = 2 * w
  <2>1. 2 ^ (t - 1) \in Nat \ {0} /\ 2 ^ ((t - 1) + 1) = 2 * 2 ^ (t - 1)
    BY <1>1, PowerOfTwo
  <2>2. QED
    BY <1>1, <2>1
<1>3. ASSUME NEW x \in 1 .. N
      PROVE  f[x] \in Int /\ g[x] \in Int /\ h[x] = f[x] + w * g[x]
  <2> DEFINE p == Part(len, n, t - 1, x)
             q == Part(len, n, t, x)
             b == g[x]
  <2>1. /\ p \in 0 .. t - 1 /\ q \in 0 .. t /\ b \in {0, 1} /\ q = p + b
        /\ b = 0 => q = 0
    <3>1. len[x] \in 0 .. n
      OBVIOUS
    <3>2. QED
      BY <1>1, <3>1, PartIs
  <2>2. f[x] = w - 2 ^ ((t - 1) - p) /\ h[x] = 2 * w - 2 ^ (t - q)
    BY <1>2
  <2> HIDE DEF p, q, f, g, h
  <2>3. 2 ^ ((t - 1) - p) \in Nat
    <3>1. (t - 1) - p \in Nat
      BY <1>1, <2>1
    <3>2. QED
      BY <3>1, PowerOfTwo
  <2>4. CASE b = 1
    <3>1. t - q = (t - 1) - p
      BY <1>1, <2>1, <2>4
    <3>2. h[x] = f[x] + w * 1
      BY <1>2, <2>2, <2>3, <3>1
    <3>3. QED
      BY <1>2, <2>2, <2>3, <2>4, <3>2
  <2>5. CASE b = 0
    <3>1. q = 0 /\ p = 0
      BY <2>1, <2>5
    <3>2. (t - 1) - p = t - 1 /\ t - q = t
      BY <1>1, <3>1
    <3>3. f[x] = w - w /\ h[x] = 2 * w - 2 * w
      BY <1>2, <2>2, <3>2 DEF w
    <3>4. f[x] = 0 /\ h[x] = 0 /\ w * 0 = 0
      BY <1>2, <3>3
    <3>5. QED
      BY <2>5, <3>4
  <2>6. QED
    BY <2>1, <2>4, <2>5
<1> HIDE DEF f, g, h, w
<1>4. w \in Int /\ IsLinear(N, w, f, g, h)
  BY <1>2, <1>3 DEF IsLinear
<1>5. /\ Total(f, N) \in Int /\ Total(g, N) \in Int
      /\ Total(h, N) = Total(f, N) + w * Total(g, N)
  BY <1>4, TotalLinear
<1>6. w * Total(g, N) = Total(g, N) * w
  BY <1>4, <1>5
<1>7. QED
  BY <1>5, <1>6 DEF PartWidth, f, g, h, w

\* Leaves that are taken weigh as much as the first ones at least.
LEMMA TakenAtLeast ==
  ASSUME NEW leaves, IsLeaves(leaves), NEW b,
         \A x \in 1 .. Len(leaves) : b[x] \in {0, 1},
         NEW g, \A x \in 1 .. Len(leaves) : g[x] = leaves[x].weight * b[x]
  PROVE  /\ Total(b, Len(leaves)) \in 0 .. Len(leaves)
         /\ Weight(leaves, Total(b, Len(leaves))) <= Total(g, Len(leaves))
<1> DEFINE N == Len(leaves)
           S == {k \in 0 .. N : /\ Total(b, k) \in 0 .. k /\ Total(g, k) \in Int
                                /\ Weight(leaves, Total(b, k)) <= Total(g, k)}
<1>1. leaves \in Seq(Items) /\ N \in Nat
  BY DEF IsLeaves
<1>2. 0 \in S
  <2>1. Total(b, 0) = 0 /\ Total(g, 0) = 0
    BY TotalIs
  <2>2. Weight(leaves, 0) = 0
    BY <1>1, WeightIs
  <2>3. QED
    BY <1>1, <2>1, <2>2
<1>3. ASSUME NEW k \in 0 .. N - 1, k \in S
      PROVE  k + 1 \in S
  <2> DEFINE c == Total(b, k)
  <2>1. /\ k \in Nat /\ k + 1 \in 1 .. N /\ k + 1 \in 0 .. N
        /\ c \in 0 .. k /\ Total(g, k) \in Int /\ Weight(leaves, c) <= Total(g, k)
    BY <1>3
  <2>2. /\ Total(b, k + 1) = c + b[k + 1]
        /\ Total(g, k + 1) = Total(g, k) + g[k + 1]
    BY <2>1, TotalIs
  <2> HIDE DEF c
  <2>3. c \in Nat /\ c \in 0 .. N - 1 /\ c \in 0 .. N /\ c + 1 \in 1 .. N /\ c + 1 <= k + 1
    BY <1>1, <2>1
  <2>4. /\ leaves[k + 1].weight \in Nat /\ leaves[c + 1].weight \in Nat
        /\ leaves[c + 1].weight <= leaves[k + 1].weight
    <3>1. leaves[c + 1].weight <= leaves[k + 1].weight
      BY <2>1, <2>3 DEF IsLeaves
    <3>2. QED
      BY <1>1, <2>1, <2>3, <3>1, ItemType
  <2>5. Weight(leaves, c + 1) = Weight(leaves, c) + leaves[c + 1].weight
        /\ Weight(leaves, c) \in Int
    BY <1>1, <2>3, WeightIs
  <2>6. b[k + 1] \in {0, 1} /\ g[k + 1] = leaves[k + 1].weight * b[k + 1]
    BY <2>1
  <2> DEFINE v == leaves[k + 1].weight
             u == leaves[c + 1].weight
  <2>7. CASE b[k + 1] = 1
    <3>1. g[k + 1] = v
      BY <2>4, <2>6, <2>7
    <3>2. Total(b, k + 1) = c + 1 /\ Total(g, k + 1) = Total(g, k) + v
      BY <2>2, <2>7, <3>1
    <3>3. v \in Nat /\ u \in Nat /\ u <= v
      BY <2>4
    <3>4. Weight(leaves, c + 1) = Weight(leaves, c) + u
      BY <2>5
    <3> HIDE DEF v, u
    <3>5. Weight(leaves, c + 1) <= Total(g, k + 1) /\ Total(g, k + 1) \in Int
          /\ c + 1 \in 0 .. k + 1
      BY <2>1, <2>3, <2>5, <3>2, <3>3, <3>4
    <3>6. QED
      BY <2>1, <3>2, <3>5
  <2>8. CASE b[k + 1] = 0
    <3>1. g[k + 1] = 0
      BY <2>4, <2>6, <2>8
    <3>2. Total(b, k + 1) = c /\ Total(g, k + 1) = Total(g, k)
      BY <2>1, <2>2, <2>3, <2>8, <3>1
    <3>3. c \in 0 .. k + 1
      BY <2>1
    <3>4. QED
      BY <2>1, <3>2, <3>3
  <2>9. QED
    BY <2>6, <2>7, <2>8
<1>4. 0 .. N \subseteq S
  <2> HIDE DEF S
  <2>1. QED
    BY <1>1, <1>2, <1>3, IntervalInduction
<1>5. N \in S
  BY <1>1, <1>4
<1>6. QED
  BY <1>5

\* The first a leaves weigh what they are said to.
AreFirst(b, a, N) == \A x \in 1 .. N : b[x] = IF x <= a THEN 1 ELSE 0

LEMMA TakenExactly ==
  ASSUME NEW leaves, IsLeaves(leaves), NEW a \in 0 .. Len(leaves), NEW b,
         AreFirst(b, a, Len(leaves)),
         NEW g, \A x \in 1 .. Len(leaves) : g[x] = leaves[x].weight * b[x]
  PROVE  Total(g, Len(leaves)) = Weight(leaves, a)
<1> DEFINE N == Len(leaves)
           S == {k \in 0 .. N : Total(g, k) = Weight(leaves, IF k <= a THEN k ELSE a)}
<1>1. leaves \in Seq(Items) /\ N \in Nat
  BY DEF IsLeaves
<1>2. 0 \in S
  <2>1. Total(g, 0) = 0
    BY TotalIs
  <2>2. Weight(leaves, 0) = 0
    BY <1>1, WeightIs
  <2>3. QED
    BY <1>1, <2>1, <2>2
<1>3. ASSUME NEW k \in 0 .. N - 1, k \in S
      PROVE  k + 1 \in S
  <2>1. /\ k \in Nat /\ k + 1 \in 1 .. N /\ k + 1 \in 0 .. N
        /\ Total(g, k) = Weight(leaves, IF k <= a THEN k ELSE a)
    BY <1>3
  <2>2. Total(g, k + 1) = Total(g, k) + g[k + 1]
    BY <2>1, TotalIs
  <2>3. leaves[k + 1].weight \in Nat
    BY <1>1, <2>1, ItemType
  <2>4. b[k + 1] = (IF k + 1 <= a THEN 1 ELSE 0) /\ g[k + 1] = leaves[k + 1].weight * b[k + 1]
    BY <2>1 DEF AreFirst
  <2>5. CASE k + 1 <= a
    <3>1. k <= a /\ g[k + 1] = leaves[k + 1].weight
      BY <2>1, <2>3, <2>4, <2>5
    <3>2. Weight(leaves, k + 1) = Weight(leaves, k) + leaves[k + 1].weight
      BY <1>1, WeightIs
    <3>3. Total(g, k + 1) = Weight(leaves, k + 1)
      BY <2>1, <2>2, <3>1, <3>2
    <3>4. QED
      BY <2>1, <2>5, <3>3
  <2>6. CASE ~ (k + 1 <= a)
    <3>1. g[k + 1] = 0
      BY <2>3, <2>4, <2>6
    <3>2. (IF k <= a THEN k ELSE a) = a
      BY <2>1, <2>6
    <3>3. Weight(leaves, a) \in Int
      BY <1>1, WeightIs
    <3>4. Total(g, k + 1) = Weight(leaves, a)
      BY <2>1, <2>2, <3>1, <3>2, <3>3
    <3>5. QED
      BY <2>1, <2>6, <3>4
  <2>7. QED
    BY <2>5, <2>6
<1>4. 0 .. N \subseteq S
  <2> HIDE DEF S
  <2>1. QED
    BY <1>1, <1>2, <1>3, IntervalInduction
<1>5. N \in S
  BY <1>1, <1>4
<1>6. Total(g, N) = Weight(leaves, IF N <= a THEN N ELSE a)
  BY <1>5
<1>7. (IF N <= a THEN N ELSE a) = a
  BY <1>1
<1>8. QED
  BY <1>6, <1>7

\* Nothing is taken of no list.
LEMMA NothingYet ==
  ASSUME NEW leaves \in Seq(Items), NEW n \in Nat \ {0}, NEW len,
         \A x \in 1 .. Len(leaves) : len[x] \in 0 .. n
  PROVE  /\ PartCost(leaves, len, n, 0) = 0
         /\ PartWidth(len, Len(leaves), n, 0) = 0
<1> DEFINE N == Len(leaves)
           g == [x \in 1 .. N |-> leaves[x].weight * Part(len, n, 0, x)]
           h == [x \in 1 .. N |-> 2 ^ 0 - 2 ^ (0 - Part(len, n, 0, x))]
<1>1. N \in Nat
  OBVIOUS
<1>2. ASSUME NEW x \in 1 .. N
      PROVE  g[x] = 0 /\ h[x] = 0
  <2>1. Part(len, n, 0, x) = 0
    <3>1. len[x] \in 0 .. n
      OBVIOUS
    <3>2. QED
      BY <3>1, PartEnds
  <2>2. leaves[x].weight * 0 = 0
    BY ItemType
  <2>3. 2 ^ 0 - 2 ^ (0 - 0) = 0
    BY PowerOfZero
  <2>4. g[x] = leaves[x].weight * Part(len, n, 0, x)
    OBVIOUS
  <2>5. h[x] = 2 ^ 0 - 2 ^ (0 - Part(len, n, 0, x))
    OBVIOUS
  <2>6. QED
    BY <2>1, <2>2, <2>3, <2>4, <2>5, Zenon
<1> HIDE DEF g, h
<1>3. (\A x \in 1 .. N : g[x] = 0) /\ \A x \in 1 .. N : h[x] = 0
  BY <1>2
<1>4. Total(g, N) = 0 /\ Total(h, N) = 0
  BY <1>1, <1>3, TotalZero
<1>5. QED
  BY <1>4 DEF PartCost, PartWidth, g, h

LEMMA CostsAreInt ==
  ASSUME NEW leaves \in Seq(Items), NEW n \in Nat \ {0}, NEW len,
         \A x \in 1 .. Len(leaves) : len[x] \in 0 .. n, NEW t \in 0 .. n
  PROVE  /\ PartCost(leaves, len, n, t) \in Int
         /\ PartWidth(len, Len(leaves), n, t) \in Int
<1>1. Len(leaves) \in Nat
  OBVIOUS
<1>2. CASE t = 0
  BY <1>2, NothingYet
<1>3. CASE t # 0
  <2>1. t \in 1 .. n /\ t - 1 \in Nat
    BY <1>3
  <2>2. PartCost(leaves, len, n, t) \in Int
    <3>1. /\ PartCost(leaves, len, n, t - 1) \in Int
          /\ TakenWeight(leaves, len, n, t) \in Int
          /\ PartCost(leaves, len, n, t)
               = PartCost(leaves, len, n, t - 1) + TakenWeight(leaves, len, n, t)
      BY <2>1, CostOnce
    <3>2. QED
      BY <3>1
  <2>3. PartWidth(len, Len(leaves), n, t) \in Int
    <3> DEFINE N == Len(leaves)
               c == Total(Long(len, N, n, t), N)
               w == 2 ^ (t - 1)
    <3>1. /\ PartWidth(len, N, n, t - 1) \in Int /\ c \in Int
          /\ PartWidth(len, N, n, t) = PartWidth(len, N, n, t - 1) + c * w
      BY <1>1, <2>1, WidthOnce
    <3>2. w \in Nat
      BY <2>1, PowerOfTwo
    <3> HIDE DEF N, c, w
    <3>3. PartWidth(len, N, n, t) \in Int
      BY <3>1, <3>2
    <3>4. QED
      BY <3>3 DEF N
  <2>4. QED
    BY <2>2, <2>3
<1>4. QED
  BY <1>2, <1>3

\* Lengths are a choice of leaves for every list.
LEMMA LengthsTake ==
  ASSUME NEW leaves, IsLeaves(leaves), NEW n \in Nat \ {0}, NEW len,
         \A x \in 1 .. Len(leaves) : len[x] \in 0 .. n
  PROVE  Taking(leaves, n,
                [t \in 1 .. n |-> Total(Long(len, Len(leaves), n, t), Len(leaves))],
                [t \in 0 .. n |-> PartCost(leaves, len, n, t)],
                [t \in 0 .. n |-> PartWidth(len, Len(leaves), n, t)])
<1> DEFINE N == Len(leaves)
           a == [t \in 1 .. n |-> Total(Long(len, N, n, t), N)]
           cost == [t \in 0 .. n |-> PartCost(leaves, len, n, t)]
           width == [t \in 0 .. n |-> PartWidth(len, N, n, t)]
<1>1. leaves \in Seq(Items) /\ N \in Nat /\ \A x \in 1 .. N : len[x] \in 0 .. n
  BY DEF IsLeaves
<1>2. cost[0] = 0 /\ width[0] = 0
  <2>1. PartCost(leaves, len, n, 0) = 0 /\ PartWidth(len, N, n, 0) = 0
    BY <1>1, NothingYet
  <2>2. 0 \in 0 .. n
    OBVIOUS
  <2>3. QED
    BY <2>1, <2>2
<1>3. ASSUME NEW t \in 0 .. n
      PROVE  cost[t] \in Int /\ width[t] \in Int
  <2>1. PartCost(leaves, len, n, t) \in Int /\ PartWidth(len, N, n, t) \in Int
    BY <1>1, CostsAreInt
  <2>2. QED
    BY <2>1
<1>4. ASSUME NEW t \in 1 .. n
      PROVE  /\ a[t] \in 0 .. N
             /\ cost[t - 1] + Weight(leaves, a[t]) <= cost[t]
             /\ width[t] = width[t - 1] + a[t] * 2 ^ (t - 1)
  <2>1. t \in 0 .. n /\ t - 1 \in 0 .. n
    OBVIOUS
  <2>2. /\ cost[t] = PartCost(leaves, len, n, t)
        /\ cost[t - 1] = PartCost(leaves, len, n, t - 1)
        /\ width[t] = PartWidth(len, N, n, t)
        /\ width[t - 1] = PartWidth(len, N, n, t - 1)
        /\ a[t] = Total(Long(len, N, n, t), N)
    BY <2>1
  <2>3. /\ PartCost(leaves, len, n, t - 1) \in Int
        /\ TakenWeight(leaves, len, n, t) \in Int
        /\ PartCost(leaves, len, n, t)
             = PartCost(leaves, len, n, t - 1) + TakenWeight(leaves, len, n, t)
    BY <1>1, CostOnce
  <2>4. PartWidth(len, N, n, t) = PartWidth(len, N, n, t - 1)
          + Total(Long(len, N, n, t), N) * 2 ^ (t - 1)
    BY <1>1, WidthOnce
  <2> DEFINE b == Long(len, N, n, t)
             g == [x \in 1 .. N |-> leaves[x].weight * b[x]]
  <2>5. \A x \in 1 .. N : b[x] \in {0, 1}
    BY DEF Long
  <2>6. \A x \in 1 .. N : g[x] = leaves[x].weight * b[x]
    OBVIOUS
  <2>7. Total(g, N) = TakenWeight(leaves, len, n, t)
    BY DEF TakenWeight
  <2> HIDE DEF b, g, cost, width, a
  <2>8. /\ Total(b, N) \in 0 .. N
        /\ Weight(leaves, Total(b, N)) <= Total(g, N)
    BY <2>5, <2>6, TakenAtLeast
  <2>9. Weight(leaves, Total(b, N)) \in Int
    BY <1>1, <2>8, WeightIs
  <2>10. a[t] = Total(b, N)
    BY <2>2 DEF b
  <2>11. width[t] = width[t - 1] + a[t] * 2 ^ (t - 1)
    BY <2>2, <2>4, Zenon
  <2>12. cost[t - 1] + Weight(leaves, a[t]) <= cost[t]
    BY <2>2, <2>3, <2>7, <2>8, <2>9, <2>10
  <2>13. QED
    BY <2>8, <2>10, <2>11, <2>12
<1> HIDE DEF a, cost, width
<1>5. Taking(leaves, n, a, cost, width)
  BY <1>2, <1>3, <1>4 DEF Taking
<1>6. QED
  BY <1>5 DEF a, cost, width

\* All lists: the whole of every length.
LEMMA WholeCost ==
  ASSUME NEW leaves \in Seq(Items), NEW n \in Nat \ {0}, NEW len,
         \A x \in 1 .. Len(leaves) : len[x] \in 0 .. n,
         NEW h, \A x \in 1 .. Len(leaves) : h[x] = leaves[x].weight * len[x]
  PROVE  PartCost(leaves, len, n, n) = Total(h, Len(leaves))
<1> DEFINE N == Len(leaves)
           g == [x \in 1 .. N |-> leaves[x].weight * Part(len, n, n, x)]
<1>1. N \in Nat
  OBVIOUS
<1>2. ASSUME NEW x \in 1 .. N
      PROVE  g[x] = h[x]
  <2>1. Part(len, n, n, x) = len[x]
    <3>1. len[x] \in 0 .. n
      OBVIOUS
    <3>2. QED
      BY <3>1, PartEnds
  <2>2. QED
    BY <2>1
<1> HIDE DEF g
<1>3. Total(g, N) = Total(h, N)
  BY <1>1, <1>2, TotalSame
<1>4. QED
  BY <1>3 DEF PartCost, g

LEMMA WholeWidth ==
  ASSUME NEW N \in Nat, NEW n \in Nat \ {0}, NEW len,
         \A x \in 1 .. N : len[x] \in 0 .. n,
         NEW h, \A x \in 1 .. N : h[x] = 2 ^ (n - len[x])
  PROVE  /\ Total(h, N) \in Int
         /\ PartWidth(len, N, n, n) = N * 2 ^ n - Total(h, N)
<1> DEFINE w == 2 ^ n
           g == [x \in 1 .. N |-> 2 ^ n - 2 ^ (n - Part(len, n, n, x))]
           S == {k \in 0 .. N : Total(h, k) \in Int /\ Total(g, k) = k * w - Total(h, k)}
<1>1. w \in Nat
  BY PowerOfTwo
<1>2. ASSUME NEW x \in 1 .. N
      PROVE  g[x] = w - h[x] /\ h[x] \in Nat
  <2>1. len[x] \in 0 .. n
    OBVIOUS
  <2>2. Part(len, n, n, x) = len[x]
    BY <2>1, PartEnds
  <2>3. n - len[x] \in Nat
    BY <2>1
  <2>4. 2 ^ (n - len[x]) \in Nat
    BY <2>3, PowerOfTwo
  <2>5. QED
    BY <2>2, <2>4
<1> HIDE DEF g, w
<1>3. 0 \in S
  <2>1. Total(g, 0) = 0 /\ Total(h, 0) = 0
    BY TotalIs
  <2>2. 0 * w = 0
    BY <1>1
  <2>3. QED
    BY <2>1, <2>2
<1>4. ASSUME NEW k \in 0 .. N - 1, k \in S
      PROVE  k + 1 \in S
  <2>1. /\ k \in Nat /\ k + 1 \in 1 .. N /\ k + 1 \in 0 .. N
        /\ Total(h, k) \in Int /\ Total(g, k) = k * w - Total(h, k)
    BY <1>4
  <2>2. /\ Total(g, k + 1) = Total(g, k) + g[k + 1]
        /\ Total(h, k + 1) = Total(h, k) + h[k + 1]
    BY <2>1, TotalIs
  <2>3. g[k + 1] = w - h[k + 1] /\ h[k + 1] \in Nat
    BY <1>2, <2>1
  <2>4. (k + 1) * w = k * w + w /\ k * w \in Int
    BY <1>1, <2>1
  <2>5. Total(h, k + 1) \in Int /\ Total(g, k + 1) = (k + 1) * w - Total(h, k + 1)
    BY <1>1, <2>1, <2>2, <2>3, <2>4
  <2>6. QED
    BY <2>1, <2>5
<1>5. 0 .. N \subseteq S
  <2> HIDE DEF S
  <2>1. QED
    BY <1>3, <1>4, IntervalInduction
<1>6. Total(h, N) \in Int /\ Total(g, N) = N * w - Total(h, N)
  BY <1>5
<1>7. QED
  BY <1>6 DEF PartWidth, g, w

-------------------------------------------------------------------------------
(* The computed lengths and any others.                                    *)

\* len are lengths of n bits at most, by Kraft's inequality a prefix code's.
IsKraft(len, N, n) ==
  /\ \A x \in 1 .. N : len[x] \in 0 .. n
  /\ Total([x \in 1 .. N |-> 2 ^ (n - len[x])], N) <= 2 ^ n

\* The bits of codes that occur as often as the leaves weigh.
Bits(leaves, len) ==
  Total([x \in 1 .. Len(leaves) |-> leaves[x].weight * len[x]], Len(leaves))

\* What any lengths cost, from the last list.
LEMMA KraftCosts ==
  ASSUME NEW n \in Nat \ {0}, NEW all, NEW leaves, IsLeaves(leaves),
         IsLists(all, leaves, n), 2 <= Len(leaves),
         NEW len, IsKraft(len, Len(leaves), n)
  PROVE  Weight(all[n], 2 * (Len(leaves) - 1)) <= Bits(leaves, len)
<1> DEFINE N == Len(leaves)
           w == 2 ^ n
           a == [t \in 1 .. n |-> Total(Long(len, N, n, t), N)]
           cost == [t \in 0 .. n |-> PartCost(leaves, len, n, t)]
           width == [t \in 0 .. n |-> PartWidth(len, N, n, t)]
           g == [x \in 1 .. N |-> leaves[x].weight * len[x]]
           h == [x \in 1 .. N |-> 2 ^ (n - len[x])]
<1>1. /\ leaves \in Seq(Items) /\ N \in Nat
      /\ \A x \in 1 .. N : len[x] \in 0 .. n
      /\ Total(h, N) <= w
  BY DEF IsLeaves, IsKraft
<1>2. w \in Nat
  BY PowerOfTwo
<1>3. PICK J : AllMerged(all, leaves, n, J)
  BY MergesExist
<1>4. Taking(leaves, n, a, cost, width)
  BY <1>1, LengthsTake
<1>5. n \in 0 .. n /\ cost[n] = PartCost(leaves, len, n, n)
      /\ width[n] = PartWidth(len, N, n, n)
  OBVIOUS
<1>6. /\ \A x \in 1 .. N : g[x] = leaves[x].weight * len[x]
      /\ \A x \in 1 .. N : h[x] = 2 ^ (n - len[x])
      /\ Bits(leaves, len) = Total(g, N)
  BY DEF Bits
<1> HIDE DEF a, cost, width, g, h
<1>7. cost[n] = Total(g, N)
  BY <1>1, <1>5, <1>6, WholeCost
<1>8. Total(h, N) \in Int /\ PartWidth(len, N, n, n) = N * 2 ^ n - Total(h, N)
  BY <1>1, <1>6, WholeWidth
<1>9. (N - 1) * 2 ^ n <= width[n]
  <2>1. Total(h, N) <= w /\ width[n] = N * w - Total(h, N) /\ Total(h, N) \in Int
    BY <1>1, <1>5, <1>8
  <2>2. N * w \in Int
    BY <1>1, <1>2
  <2>3. (N - 1) * w = N * w - w
    BY <1>1, <1>2
  <2>4. (N - 1) * w <= width[n]
    <3> HIDE DEF N, w
    <3>1. QED
      BY <1>2, <2>1, <2>2, <2>3
  <2>5. QED
    BY <2>4
<1>10. Weight(all[n], 2 * (N - 1)) <= cost[n]
  BY <1>3, <1>4, <1>9, AtLeast
<1>11. QED
  BY <1>6, <1>7, <1>10

\* The computed lengths cost what the last list says.
LEMMA ComputedCosts ==
  ASSUME NEW bucket, DOMAIN bucket \subseteq Nat, NEW order, IsOrder(order, bucket),
         NEW n \in Nat \ {0}, 2 <= Len(order), Len(order) <= 2 ^ n,
         NEW dep, dep = lengths(bucket, order, n)
  PROVE  LET leaves == Leaves(bucket, order)
             all == lists(bucket, order, n)
             own == [x \in 1 .. Len(order) |-> dep[order[x]]]
         IN  /\ Bits(leaves, own) = Weight(all[n], 2 * (Len(leaves) - 1))
             /\ \A x \in 1 .. Len(order) : own[x] \in 0 .. n
<1> DEFINE leaves == Leaves(bucket, order)
           all == lists(bucket, order, n)
           N == Len(order)
           own == [x \in 1 .. N |-> dep[order[x]]]
<1>1. IsLeaves(leaves) /\ Len(leaves) = N /\ N \in Nat
  <2>1. IsLeaves(leaves) /\ Len(leaves) = N
    BY LeavesAre
  <2>2. QED
    BY <2>1 DEF IsOrder
<1>2. leaves \in Seq(Items)
  BY <1>1 DEF IsLeaves
<1>3. IsLists(all, leaves, n)
  BY <1>2, ListsAre
<1>4. PICK P, l : /\ IsLevels(P, l, n, N)
                  /\ lengths(bucket, order, n) = Depths(order, l, n, DOMAIN bucket)
                  /\ IsTaken(all, leaves, n, P, l)
  BY LengthsAre
<1>5. /\ dep \in [DOMAIN bucket -> 0 .. n]
      /\ \A x \in 1 .. N : \A i \in 1 .. n :
           x <= l[i] <=> n - i + 1 <= dep[order[x]]
  <2>1. dep = Depths(order, l, n, DOMAIN bucket)
    BY <1>4
  <2>2. IsLevels(P, l, n, Len(order))
    BY <1>4
  <2>3. QED
    BY <2>1, <2>2, DepthsAre
<1>6. \A x \in 1 .. N : own[x] \in 0 .. n /\ own[x] = dep[order[x]]
  BY <1>5 DEF IsOrder
<1> DEFINE cost == [t \in 0 .. n |-> PartCost(leaves, own, n, t)]
           g == [x \in 1 .. N |-> leaves[x].weight * own[x]]
<1>7. /\ \A x \in 1 .. N : g[x] = leaves[x].weight * own[x]
      /\ Bits(leaves, own) = Total(g, N)
      /\ \A t \in 0 .. n : cost[t] = PartCost(leaves, own, n, t)
  BY <1>1 DEF Bits
<1> HIDE DEF leaves, all, own, cost, g
<1>8. cost[0] = 0
  <2>1. \A x \in 1 .. Len(leaves) : own[x] \in 0 .. n
    BY <1>1, <1>6
  <2>2. PartCost(leaves, own, n, 0) = 0
    BY <1>2, <2>1, NothingYet
  <2>3. QED
    BY <1>7, <2>2
<1>9. ASSUME NEW i \in 1 .. n
      PROVE  cost[i] = cost[i - 1] + Weight(leaves, l[i])
  <2>1. i \in 0 .. n /\ i - 1 \in 0 .. n
    OBVIOUS
  <2>2. \A x \in 1 .. Len(leaves) : own[x] \in 0 .. n
    BY <1>1, <1>6
  <2>3. PartCost(leaves, own, n, i)
          = PartCost(leaves, own, n, i - 1) + TakenWeight(leaves, own, n, i)
    BY <1>2, <2>2, CostOnce
  <2> DEFINE b == Long(own, Len(leaves), n, i)
             e == [x \in 1 .. Len(leaves) |-> leaves[x].weight * b[x]]
  <2>4. AreFirst(b, l[i], Len(leaves))
    <3>1. ASSUME NEW x \in 1 .. Len(leaves)
          PROVE  b[x] = IF x <= l[i] THEN 1 ELSE 0
      <4>1. x \in 1 .. N
        BY <1>1
      <4>2. x <= l[i] <=> n - i + 1 <= own[x]
        BY <1>5, <1>6, <4>1
      <4>3. b[x] = IF n - i + 1 <= own[x] THEN 1 ELSE 0
        BY DEF Long
      <4>4. QED
        BY <4>2, <4>3
    <3> HIDE DEF b
    <3>2. QED
      BY <3>1 DEF AreFirst
  <2>5. \A x \in 1 .. Len(leaves) : e[x] = leaves[x].weight * b[x]
    OBVIOUS
  <2>6. Total(e, Len(leaves)) = TakenWeight(leaves, own, n, i)
    BY DEF TakenWeight
  <2>7. l[i] \in 0 .. Len(leaves)
    BY <1>1, <1>4 DEF IsLevels
  <2> HIDE DEF b, e
  <2>8. Total(e, Len(leaves)) = Weight(leaves, l[i])
    BY <1>1, <2>4, <2>5, <2>7, TakenExactly
  <2>9. QED
    BY <1>7, <2>1, <2>3, <2>6, <2>8
<1>10. cost[n] = Weight(all[n], 2 * (Len(leaves) - 1))
  <2>1. IsLevels(P, l, n, Len(leaves))
    BY <1>1, <1>4
  <2>2. IsCost(cost, leaves, l, n)
    BY <1>8, <1>9 DEF IsCost
  <2>3. IsTaken(all, leaves, n, P, l)
    BY <1>4
  <2>4. QED
    BY <1>1, <1>3, <2>1, <2>2, <2>3, Exact
<1>11. cost[n] = Total(g, N)
  <2>1. \A x \in 1 .. Len(leaves) : own[x] \in 0 .. n
    BY <1>1, <1>6
  <2>2. \A x \in 1 .. Len(leaves) : g[x] = leaves[x].weight * own[x]
    BY <1>1, <1>7
  <2>3. PartCost(leaves, own, n, n) = Total(g, Len(leaves))
    BY <1>2, <2>1, <2>2, WholeCost
  <2>4. n \in 0 .. n
    OBVIOUS
  <2>5. QED
    BY <1>1, <1>7, <2>3, <2>4
<1>12. Bits(leaves, own) = Weight(all[n], 2 * (Len(leaves) - 1))
  BY <1>7, <1>10, <1>11
<1>13. QED
  BY <1>6, <1>12 DEF leaves, all, own

\* What the codes of order cost: x at the length len[x], or c at dep[c].
OrderCost(bucket, order, len) ==
  Total([x \in 1 .. Len(order) |-> bucket[order[x]] * len[x]], Len(order))

DepthCost(bucket, order, dep) ==
  Total([x \in 1 .. Len(order) |-> bucket[order[x]] * dep[order[x]]], Len(order))

\* lengths() is the best choice.
LEMMA LengthsBest ==
  ASSUME NEW bucket, DOMAIN bucket \subseteq Nat, NEW order, IsOrder(order, bucket),
         NEW n \in Nat \ {0}, 2 <= Len(order), Len(order) <= 2 ^ n,
         NEW dep, dep = lengths(bucket, order, n),
         NEW len, IsKraft(len, Len(order), n)
  PROVE  DepthCost(bucket, order, dep) <= OrderCost(bucket, order, len)
<1> DEFINE leaves == Leaves(bucket, order)
           all == lists(bucket, order, n)
           N == Len(order)
           own == [x \in 1 .. N |-> dep[order[x]]]
           f == [x \in 1 .. N |-> bucket[order[x]] * dep[order[x]]]
           g == [x \in 1 .. N |-> bucket[order[x]] * len[x]]
           ff == [x \in 1 .. N |-> leaves[x].weight * own[x]]
           gg == [x \in 1 .. N |-> leaves[x].weight * len[x]]
<1>1. /\ IsLeaves(leaves) /\ Len(leaves) = N
      /\ \A x \in 1 .. N : leaves[x].weight = bucket[order[x]]
  BY LeavesAre
<1>2. N \in Nat
  BY DEF IsOrder
<1>3. Bits(leaves, own) = Weight(all[n], 2 * (Len(leaves) - 1))
  BY ComputedCosts
<1>4. Weight(all[n], 2 * (Len(leaves) - 1)) <= Bits(leaves, len)
  <2>1. IsLists(all, leaves, n)
    BY <1>1, ListsAre DEF IsLeaves
  <2>2. 2 <= Len(leaves) /\ IsKraft(len, Len(leaves), n)
    BY <1>1
  <2> HIDE DEF leaves, all
  <2>3. QED
    BY <1>1, <2>1, <2>2, KraftCosts
<1>5. \A x \in 1 .. N : ff[x] = f[x] /\ gg[x] = g[x]
  BY <1>1
<1>6. Bits(leaves, own) = Total(ff, N) /\ Bits(leaves, len) = Total(gg, N)
  BY <1>1 DEF Bits
<1> HIDE DEF f, g, ff, gg, leaves, all, own
<1>7. Total(ff, N) = Total(f, N) /\ Total(gg, N) = Total(g, N)
  BY <1>2, <1>5, TotalSame
<1>8. Total(f, N) <= Total(g, N)
  BY <1>3, <1>4, <1>6, <1>7
<1>9. DepthCost(bucket, order, dep) = Total(f, N)
      /\ OrderCost(bucket, order, len) = Total(g, N)
  BY Zenon DEF f, g, DepthCost, OrderCost
<1>10. QED
  BY <1>8, <1>9

-------------------------------------------------------------------------------
(* SumFunction, in any order.                                              *)

One(s) == CHOOSE x \in s : TRUE

Small(D, m) == {s \in SUBSET D : Cardinality(s) <= m}

\* The sums over the subsets that are not larger than m, over all of them.
IsPartSum(f, h, m) ==
  f = [s \in Small(DOMAIN h, m) |->
         IF s = {} THEN 0 ELSE h[One(s)] + f[s \ {One(s)}]]

IsSubsetSum(f, h) ==
  f = [s \in SUBSET (DOMAIN h) |->
         IF s = {} THEN 0 ELSE h[One(s)] + f[s \ {One(s)}]]

LEMMA SumUnfolds ==
  ASSUME NEW h
  PROVE  SumFunction(h) = (CHOOSE f : IsSubsetSum(f, h))[DOMAIN h]
  BY Zenon DEF SumFunction, SumFunctionOnSet, FoldFunctionOnSet, MapThenFoldSet,
               IsSubsetSum, One

LEMMA Smaller ==
  ASSUME NEW D, IsFiniteSet(D), NEW s \in SUBSET D, s # {}
  PROVE  /\ IsFiniteSet(s) /\ Cardinality(s) \in Nat /\ One(s) \in s
         /\ \A x \in s : /\ Cardinality(s \ {x}) = Cardinality(s) - 1
                         /\ s \ {x} \in SUBSET D
<1>1. IsFiniteSet(s)
  BY FS_Subset
<1>2. Cardinality(s) \in Nat
  BY <1>1, FS_CardinalityType
<1>3. One(s) \in s
  BY DEF One
<1>4. \A x \in s : Cardinality(s \ {x}) = Cardinality(s) - 1
  BY <1>1, FS_RemoveElement
<1>5. QED
  BY <1>1, <1>2, <1>3, <1>4

LEMMA PartSumExists ==
  ASSUME NEW h, IsFiniteSet(DOMAIN h), NEW n \in Nat
  PROVE  \E f : IsPartSum(f, h, n)
<1> DEFINE D == DOMAIN h
           S == {m \in 0 .. n : \E f : IsPartSum(f, h, m)}
<1>1. 0 \in S
  <2> DEFINE f == [s \in Small(D, 0) |-> 0]
  <2>1. ASSUME NEW s \in Small(D, 0)
        PROVE  s = {}
    <3>1. IsFiniteSet(s) /\ Cardinality(s) <= 0
      BY FS_Subset DEF Small
    <3>2. Cardinality(s) \in Nat
      BY <3>1, FS_CardinalityType
    <3>3. Cardinality(s) = 0
      BY <3>1, <3>2
    <3>4. QED
      BY <3>1, <3>3, FS_EmptySet
  <2>2. IsPartSum(f, h, 0)
    BY <2>1 DEF IsPartSum
  <2>3. QED
    BY <2>2
<1>2. ASSUME NEW m \in 0 .. n - 1, m \in S
      PROVE  m + 1 \in S
  <2>1. PICK f : IsPartSum(f, h, m)
    BY <1>2
  <2> DEFINE g == [s \in Small(D, m + 1) |->
                     IF s = {} THEN 0 ELSE h[One(s)] + f[s \ {One(s)}]]
  <2>2. ASSUME NEW s \in Small(D, m)
        PROVE  s \in Small(D, m + 1) /\ g[s] = f[s]
    <3>1. s \in SUBSET D /\ Cardinality(s) <= m
      BY DEF Small
    <3>2. Cardinality(s) \in Nat
      BY <3>1, FS_Subset, FS_CardinalityType
    <3>3. Cardinality(s) <= m + 1
      BY <3>1, <3>2
    <3>4. s \in Small(D, m + 1)
      BY <3>1, <3>3 DEF Small
    <3>5. f[s] = IF s = {} THEN 0 ELSE h[One(s)] + f[s \ {One(s)}]
      BY <2>1 DEF IsPartSum
    <3>6. QED
      BY <3>4, <3>5
  <2>3. ASSUME NEW s \in Small(D, m + 1)
        PROVE  g[s] = IF s = {} THEN 0 ELSE h[One(s)] + g[s \ {One(s)}]
    <3>1. CASE s = {}
      BY <3>1
    <3>2. CASE s # {}
      <4>1. s \in SUBSET D /\ Cardinality(s) <= m + 1
        BY DEF Small
      <4>2. /\ Cardinality(s) \in Nat /\ One(s) \in s
            /\ Cardinality(s \ {One(s)}) = Cardinality(s) - 1
            /\ s \ {One(s)} \in SUBSET D
        BY <3>2, <4>1, Smaller
      <4>3. Cardinality(s \ {One(s)}) <= m
        BY <4>1, <4>2
      <4>4. s \ {One(s)} \in Small(D, m)
        BY <4>2, <4>3 DEF Small
      <4>5. g[s \ {One(s)}] = f[s \ {One(s)}]
        BY <2>2, <4>4
      <4>6. QED
        BY <3>2, <4>5
    <3>3. QED
      BY <3>1, <3>2
  <2>4. g = [s \in Small(D, m + 1) |-> g[s]]
    OBVIOUS
  <2> HIDE DEF g
  <2>5. IsPartSum(g, h, m + 1)
    BY <2>3, <2>4 DEF IsPartSum
  <2>6. QED
    BY <2>5
<1>3. 0 .. n \subseteq S
  <2> HIDE DEF S
  <2>1. QED
    BY <1>1, <1>2, IntervalInduction
<1>4. QED
  BY <1>3

LEMMA SubsetSumExists ==
  ASSUME NEW h, IsFiniteSet(DOMAIN h)
  PROVE  \E f : IsSubsetSum(f, h)
<1> DEFINE D == DOMAIN h
           n == Cardinality(D)
<1>1. n \in Nat
  BY FS_CardinalityType
<1>2. PICK f : IsPartSum(f, h, n)
  BY <1>1, PartSumExists
<1>3. ASSUME NEW s \in SUBSET D
      PROVE  s \in Small(D, n)
  <2>1. Cardinality(s) <= n
    BY FS_Subset
  <2>2. QED
    BY <2>1 DEF Small
<1>4. Small(D, n) = SUBSET D
  BY <1>3 DEF Small
<1>5. QED
  BY <1>2, <1>4 DEF IsPartSum, IsSubsetSum

\* It does not matter which element is added first.
LEMMA OneOut ==
  ASSUME NEW h, IsFiniteSet(DOMAIN h), \A x \in DOMAIN h : h[x] \in Int,
         NEW f, IsSubsetSum(f, h)
  PROVE  /\ f[{}] = 0
         /\ \A s \in SUBSET (DOMAIN h) :
              /\ f[s] \in Int
              /\ \A x \in s : f[s] = h[x] + f[s \ {x}]
<1> DEFINE D == DOMAIN h
           n == Cardinality(D)
           Adds(s) == /\ f[s] \in Int
                      /\ \A x \in s : f[s] = h[x] + f[s \ {x}]
           S == {m \in 0 .. n : \A s \in Small(D, m) : Adds(s)}
<1>1. n \in Nat
  BY FS_CardinalityType
<1>2. f[{}] = 0
  BY DEF IsSubsetSum
<1>3. \A s \in SUBSET D : s # {} => f[s] = h[One(s)] + f[s \ {One(s)}]
  BY DEF IsSubsetSum
<1>4. 0 \in S
  <2>1. ASSUME NEW s \in Small(D, 0)
        PROVE  s = {}
    <3>1. IsFiniteSet(s) /\ Cardinality(s) <= 0
      BY FS_Subset DEF Small
    <3>2. Cardinality(s) \in Nat
      BY <3>1, FS_CardinalityType
    <3>3. Cardinality(s) = 0
      BY <3>1, <3>2
    <3>4. QED
      BY <3>1, <3>3, FS_EmptySet
  <2>2. Adds({})
    BY <1>2
  <2> HIDE DEF Adds
  <2>3. \A s \in Small(D, 0) : Adds(s)
    BY <2>1, <2>2
  <2>4. QED
    BY <1>1, <2>3
<1>5. ASSUME NEW m \in 0 .. n - 1, m \in S
      PROVE  m + 1 \in S
  <2>1. m + 1 \in 0 .. n /\ m \in Nat
    BY <1>1
  <2>2. \A s \in Small(D, m) : Adds(s)
    BY <1>5
  <2>3. ASSUME NEW s \in Small(D, m + 1)
        PROVE  Adds(s)
    <3>1. CASE s = {}
      BY <1>2, <3>1
    <3>2. CASE s # {}
      <4>1. s \in SUBSET D /\ Cardinality(s) <= m + 1
        BY DEF Small
      <4>2. /\ IsFiniteSet(s) /\ Cardinality(s) \in Nat /\ One(s) \in s
            /\ \A x \in s : /\ Cardinality(s \ {x}) = Cardinality(s) - 1
                            /\ s \ {x} \in SUBSET D
        BY <3>2, <4>1, Smaller
      <4>3. ASSUME NEW x \in s
            PROVE  s \ {x} \in Small(D, m) /\ Adds(s \ {x}) /\ h[x] \in Int
        <5>1. Cardinality(s \ {x}) <= m
          BY <2>1, <4>1, <4>2
        <5>2. s \ {x} \in Small(D, m)
          BY <4>2, <5>1 DEF Small
        <5>3. Adds(s \ {x})
          BY <2>2, <5>2
        <5>4. h[x] \in Int
          BY <4>1
        <5>5. QED
          BY <5>2, <5>3, <5>4
      <4>4. f[s] = h[One(s)] + f[s \ {One(s)}]
        BY <1>3, <3>2, <4>1
      <4>5. f[s] \in Int
        <5>1. f[s \ {One(s)}] \in Int /\ h[One(s)] \in Int
          BY <4>2, <4>3
        <5>2. QED
          BY <4>4, <5>1
      <4>6. ASSUME NEW x \in s
            PROVE  f[s] = h[x] + f[s \ {x}]
        <5>1. CASE x = One(s)
          BY <4>4, <5>1
        <5>2. CASE x # One(s)
          <6> DEFINE y == One(s)
                     t == s \ {x, y}
          <6>1. /\ y \in s /\ x \in s \ {y} /\ y \in s \ {x}
                /\ (s \ {y}) \ {x} = t /\ (s \ {x}) \ {y} = t
            BY <4>2, <5>2
          <6>2. /\ f[s \ {y}] = h[x] + f[(s \ {y}) \ {x}]
                /\ f[s \ {x}] = h[y] + f[(s \ {x}) \ {y}]
            BY <4>3, <6>1
          <6>3. f[s \ {y}] = h[x] + f[t] /\ f[s \ {x}] = h[y] + f[t]
            BY <6>1, <6>2
          <6>4. s \ {x} \in Small(D, m) /\ y \in s \ {x}
            BY <4>3, <6>1
          <6>5. f[t] \in Int
            <7>1. f[s \ {x}] \in Int /\ s \ {x} \in SUBSET D
              BY <4>2, <4>3
            <7>2. t \in Small(D, m)
              <8>1. t \in SUBSET D /\ s \ {x} # {} /\ y \in s \ {x}
                BY <4>1, <6>1
              <8>2. Cardinality((s \ {x}) \ {y}) = Cardinality(s \ {x}) - 1
                BY <7>1, <8>1, Smaller
              <8>3. Cardinality(t) = Cardinality(s \ {x}) - 1
                BY <6>1, <8>2
              <8>4. Cardinality(s \ {x}) \in Nat /\ Cardinality(s \ {x}) <= m
                BY <6>4, <7>1, <8>1, Smaller DEF Small
              <8>5. Cardinality(t) <= m
                BY <2>1, <8>3, <8>4
              <8>6. QED
                BY <8>1, <8>5 DEF Small
            <7>3. QED
              BY <2>2, <7>2
          <6>6. h[x] \in Int /\ h[y] \in Int
            BY <4>3, <6>1
          <6>7. f[s] = h[y] + f[s \ {y}]
            BY <4>4
          <6> HIDE DEF y, t
          <6>8. QED
            BY <6>3, <6>5, <6>6, <6>7
        <5>3. QED
          BY <5>1, <5>2
      <4>7. QED
        BY <4>5, <4>6
    <3>3. QED
      BY <3>1, <3>2
  <2> HIDE DEF Adds
  <2>4. QED
    BY <2>1, <2>3
<1>6. 0 .. n \subseteq S
  <2> HIDE DEF S, n
  <2>1. QED
    BY <1>1, <1>4, <1>5, IntervalInduction
<1>7. ASSUME NEW s \in SUBSET D
      PROVE  Adds(s)
  <2>1. Cardinality(s) <= n
    BY FS_Subset
  <2>2. s \in Small(D, n)
    BY <2>1 DEF Small
  <2>3. n \in S
    <3> HIDE DEF S, n
    <3>1. QED
      BY <1>1, <1>6
  <2> HIDE DEF Adds
  <2>4. QED
    BY <2>2, <2>3
<1>8. QED
  BY <1>2, <1>7

\* pi names every x of D once.
Names(pi, n, D) ==
  /\ \A k \in 1 .. n : pi[k] \in D
  /\ \A k, j \in 1 .. n : pi[k] = pi[j] => k = j
  /\ \A x \in D : \E k \in 1 .. n : x = pi[k]

First(pi, k) == {pi[j] : j \in 1 .. k}

GrowOneByOne(pi, n, D) ==
  /\ First(pi, 0) = {} /\ First(pi, n) = D
  /\ \A k \in 0 .. n - 1 :
       /\ First(pi, k + 1) \in SUBSET D /\ pi[k + 1] \in First(pi, k + 1)
       /\ First(pi, k + 1) \ {pi[k + 1]} = First(pi, k)

LEMMA FirstAre ==
  ASSUME NEW n \in Nat, NEW D, NEW pi, Names(pi, n, D)
  PROVE  GrowOneByOne(pi, n, D)
<1>1. First(pi, 0) = {}
  BY DEF First
<1>2. First(pi, n) = D
  BY DEF First, Names
<1>3. ASSUME NEW k \in 0 .. n - 1
      PROVE  /\ First(pi, k + 1) \in SUBSET D /\ pi[k + 1] \in First(pi, k + 1)
             /\ First(pi, k + 1) \ {pi[k + 1]} = First(pi, k)
  <2>1. k + 1 \in 1 .. k + 1 /\ k + 1 \in 1 .. n
    OBVIOUS
  <2>2. First(pi, k + 1) \in SUBSET D /\ pi[k + 1] \in First(pi, k + 1)
    <3>1. \A j \in 1 .. k + 1 : j \in 1 .. n
      OBVIOUS
    <3>2. QED
      BY <2>1, <3>1 DEF First, Names
  <2>3. ASSUME NEW x \in First(pi, k + 1), x # pi[k + 1]
        PROVE  x \in First(pi, k)
    <3>1. PICK j \in 1 .. k + 1 : x = pi[j]
      BY DEF First
    <3>2. j # k + 1
      BY <2>3, <3>1
    <3>3. j \in 1 .. k
      BY <3>2
    <3>4. QED
      BY <3>1, <3>3 DEF First
  <2>4. ASSUME NEW x \in First(pi, k)
        PROVE  x \in First(pi, k + 1) /\ x # pi[k + 1]
    <3>1. PICK j \in 1 .. k : x = pi[j]
      BY DEF First
    <3>2. j \in 1 .. k + 1 /\ j \in 1 .. n /\ j # k + 1
      OBVIOUS
    <3>3. x # pi[k + 1]
      BY <2>1, <3>1, <3>2 DEF Names
    <3>4. QED
      BY <3>1, <3>2, <3>3 DEF First
  <2>5. QED
    BY <2>2, <2>3, <2>4
<1>4. QED
  BY <1>1, <1>2, <1>3 DEF GrowOneByOne

\* A sum over a set is the sum in the order of any numbering of it.
LEMMA SumIsTotal ==
  ASSUME NEW n \in Nat, NEW h, IsFiniteSet(DOMAIN h), \A x \in DOMAIN h : h[x] \in Int,
         NEW pi, Names(pi, n, DOMAIN h),
         NEW g, \A k \in 1 .. n : g[k] = h[pi[k]]
  PROVE  SumFunction(h) = Total(g, n) /\ Total(g, n) \in Int
<1> DEFINE D == DOMAIN h
           f == CHOOSE f : IsSubsetSum(f, h)
           S == {k \in 0 .. n : f[First(pi, k)] = Total(g, k)}
<1>1. IsSubsetSum(f, h)
  BY SubsetSumExists
<1>2. SumFunction(h) = f[D]
  BY SumUnfolds
<1> HIDE DEF f
<1>3. /\ f[{}] = 0
      /\ \A s \in SUBSET D : /\ f[s] \in Int
                             /\ \A x \in s : f[s] = h[x] + f[s \ {x}]
  BY <1>1, OneOut
<1>4. /\ First(pi, 0) = {} /\ First(pi, n) = D
      /\ \A k \in 0 .. n - 1 :
           /\ First(pi, k + 1) \in SUBSET D /\ pi[k + 1] \in First(pi, k + 1)
           /\ First(pi, k + 1) \ {pi[k + 1]} = First(pi, k)
  <2>1. GrowOneByOne(pi, n, D)
    BY FirstAre
  <2>2. QED
    BY <2>1 DEF GrowOneByOne
<1>5. 0 \in S
  <2>1. f[First(pi, 0)] = 0
    BY <1>3, <1>4
  <2>2. Total(g, 0) = 0
    BY TotalIs
  <2>3. QED
    BY <2>1, <2>2
<1>6. ASSUME NEW k \in 0 .. n - 1, k \in S
      PROVE  k + 1 \in S
  <2>1. k \in Nat /\ k + 1 \in 0 .. n /\ k + 1 \in 1 .. n /\ f[First(pi, k)] = Total(g, k)
    BY <1>6
  <2>2. /\ First(pi, k + 1) \in SUBSET D /\ pi[k + 1] \in First(pi, k + 1)
        /\ First(pi, k + 1) \ {pi[k + 1]} = First(pi, k)
    BY <1>4
  <2>3. f[First(pi, k + 1)] = h[pi[k + 1]] + f[First(pi, k)]
    BY <1>3, <2>2
  <2>4. Total(g, k + 1) = Total(g, k) + g[k + 1]
    BY <2>1, TotalIs
  <2>5. g[k + 1] = h[pi[k + 1]] /\ h[pi[k + 1]] \in Int
    BY <2>1 DEF Names
  <2>6. f[First(pi, k)] \in Int
    <3>1. First(pi, k) \in SUBSET D
      BY <2>2
    <3>2. QED
      BY <1>3, <3>1
  <2>7. f[First(pi, k + 1)] = Total(g, k + 1)
    BY <2>1, <2>3, <2>4, <2>5, <2>6
  <2>8. QED
    BY <2>1, <2>7
<1>7. 0 .. n \subseteq S
  <2> HIDE DEF S
  <2>1. QED
    BY <1>5, <1>6, IntervalInduction
<1>8. f[First(pi, n)] = Total(g, n)
  BY <1>7
<1>9. f[D] \in Int
  BY <1>3
<1>10. QED
  BY <1>2, <1>4, <1>8, <1>9

-------------------------------------------------------------------------------
(* A source and the lengths of its codes.                                  *)

\* SetToSeq(): a numbering.
LEMMA SymbolsAre ==
  ASSUME NEW S, IsFiniteSet(S)
  PROVE  Len(SetToSeq(S)) = Cardinality(S) /\ Names(SetToSeq(S), Cardinality(S), S)
<1> DEFINE n == Cardinality(S)
           D == 1 .. n
           s == SetToSeq(S)
<1>1. n \in Nat /\ ExistsBijection(D, S)
  BY FS_CardinalityType
<1>2. \E f \in [D -> S] : IsInjective(f)
  BY <1>1 DEF ExistsBijection, Bijection, Injection
<1>3. s \in [D -> S] /\ IsInjective(s)
  <2>1. s = CHOOSE f \in [D -> S] : IsInjective(f)
    BY Zenon DEF SetToSeq
  <2> HIDE DEF s, D
  <2>2. QED
    BY <1>2, <2>1
<1>4. Len(s) = n
  <2> HIDE DEF s, n
  <2>1. QED
    BY <1>1, <1>3
<1>5. Cardinality(D) = n /\ IsFiniteSet(D)
  <2>1. 1 \in Int /\ n \in Int
    BY <1>1
  <2>2. IsFiniteSet(1 .. n) /\ Cardinality(1 .. n) = IF 1 > n THEN 0 ELSE n - 1 + 1
    BY <2>1, FS_Interval
  <2> HIDE DEF n
  <2>3. QED
    BY <1>1, <2>2
<1>6. s \in Surjection(D, S)
  <2>1. s \in Injection(D, S)
    BY <1>3 DEF Injection
  <2> HIDE DEF s
  <2>2. QED
    BY <1>1, <1>5, <2>1, FS_Injection
<1>7. Names(s, n, S)
  <2> HIDE DEF s, n
  <2>1. \A k \in D : s[k] \in S
    BY <1>3
  <2>2. \A k, j \in D : s[k] = s[j] => k = j
    BY <1>3 DEF IsInjective
  <2>3. \A x \in S : \E k \in D : x = s[k]
    BY <1>6 DEF Surjection
  <2>4. QED
    BY <2>1, <2>2, <2>3 DEF Names
<1>8. QED
  BY <1>4, <1>7

\* The number that pi gives x.
NumberOf(pi, n, x) == CHOOSE k \in 1 .. n : pi[k] = x

\* Numbers of the same things, one numbering's by the other.
IsRenumbering(q, pi, order, n) ==
  /\ \A x \in 1 .. n : q[x] \in 1 .. n /\ pi[q[x]] = order[x]
  /\ Names(q, n, 1 .. n)

Renumbering(pi, order, n) == [x \in 1 .. n |-> NumberOf(pi, n, order[x])]

LEMMA NumbersAre ==
  ASSUME NEW n \in Nat, NEW D, NEW pi, Names(pi, n, D), NEW order, Names(order, n, D)
  PROVE  IsRenumbering(Renumbering(pi, order, n), pi, order, n)
<1> DEFINE q == Renumbering(pi, order, n)
<1>1. ASSUME NEW x \in 1 .. n
      PROVE  q[x] \in 1 .. n /\ pi[q[x]] = order[x]
  <2>1. order[x] \in D
    BY DEF Names
  <2>2. \E k \in 1 .. n : pi[k] = order[x]
    BY <2>1 DEF Names
  <2>3. q[x] = CHOOSE k \in 1 .. n : pi[k] = order[x]
    BY DEF NumberOf, Renumbering
  <2>4. QED
    BY <2>2, <2>3
<1> HIDE DEF q
<1>2. ASSUME NEW x \in 1 .. n, NEW y \in 1 .. n, q[x] = q[y]
      PROVE  x = y
  <2>1. order[x] = order[y]
    BY <1>1, <1>2
  <2>2. QED
    BY <2>1 DEF Names
<1>3. ASSUME NEW k \in 1 .. n
      PROVE  \E x \in 1 .. n : k = q[x]
  <2>1. pi[k] \in D
    BY DEF Names
  <2>2. PICK x \in 1 .. n : pi[k] = order[x]
    BY <2>1 DEF Names
  <2>3. pi[q[x]] = pi[k] /\ q[x] \in 1 .. n
    BY <1>1, <2>2
  <2>4. q[x] = k
    BY <2>3 DEF Names
  <2>5. QED
    BY <2>4
<1>4. IsRenumbering(q, pi, order, n)
  BY <1>1, <1>2, <1>3 DEF Names, IsRenumbering
<1>5. QED
  BY <1>4 DEF q

\* g has the numbers of h in the order in which pi names them.
IsNumbered(h, pi, n, g) ==
  /\ IsFiniteSet(DOMAIN h) /\ Names(pi, n, DOMAIN h)
  /\ \A x \in DOMAIN h : h[x] \in Int
  /\ \A k \in 1 .. n : g[k] = h[pi[k]]

LEMMA NumberedSum ==
  ASSUME NEW n \in Nat, NEW h, NEW pi, NEW g, IsNumbered(h, pi, n, g)
  PROVE  SumFunction(h) = Total(g, n) /\ Total(g, n) \in Int
<1>1. /\ IsFiniteSet(DOMAIN h) /\ Names(pi, n, DOMAIN h)
      /\ \A x \in DOMAIN h : h[x] \in Int
  BY DEF IsNumbered
<1>2. \A k \in 1 .. n : g[k] = h[pi[k]]
  BY DEF IsNumbered
<1>3. QED
  BY <1>1, <1>2, SumIsTotal

\* What sorted() returns numbers the codes.
LEMMA SortedNames ==
  ASSUME NEW bucket, NEW S, NEW order, IsSorting(order, bucket, S)
  PROVE  Names(order, Cardinality(S), S)
  BY DEF IsSorting, IsOrder, Names

\* The lengths l of N codes satisfy Kraft's inequality.
IsPrefixCode(l, N, n) ==
  /\ l \in [1 .. N -> 1 .. n]
  /\ SumFunction([k \in 1 .. N |-> 2 ^ (n - l[k])]) <= 2 ^ n

\* The source takes with dep no more bits than with l.
IsCheaper(bucket, dep, symbols, l, N) ==
  SumFunction([c \in used(bucket) |-> bucket[c] * dep[c]])
    <= SumFunction([k \in 1 .. N |-> bucket[symbols[k]] * l[k]])

\* A source of two codes and more.
LEMMA BestOfMany ==
  ASSUME NEW M \in Nat, M >= 2, NEW bucket \in [0 .. M - 1 -> Nat],
         NEW n \in Nat \ {0}, M <= 2 ^ n,
         NEW N, N = Cardinality(used(bucket)), N >= 2,
         NEW order \in sorted(bucket, index(bucket)),
         NEW dep, dep = lengths(bucket, order, n),
         NEW symbols, Names(symbols, N, used(bucket)),
         NEW l, IsPrefixCode(l, N, n)
  PROVE  IsCheaper(bucket, dep, symbols, l, N)
<1> DEFINE D == used(bucket)
           q == Renumbering(symbols, order, N)
           len == [x \in 1 .. N |-> l[q[x]]]
           own == [c \in D |-> bucket[c] * dep[c]]
           ownTotal == [x \in 1 .. N |-> bucket[order[x]] * dep[order[x]]]
           other == [k \in 1 .. N |-> bucket[symbols[k]] * l[k]]
           otherTotal == [x \in 1 .. N |-> bucket[order[x]] * len[x]]
           room == [k \in 1 .. N |-> 2 ^ (n - l[k])]
           roomTotal == [x \in 1 .. N |-> 2 ^ (n - len[x])]
<1>1. /\ D \subseteq 0 .. M - 1 /\ IsFiniteSet(D) /\ N \in Nat
      /\ D # {}
  <2>1. D # {}
    BY FS_EmptySet
  <2>2. QED
    BY <2>1, UsedIs
<1>2. D = index(bucket) /\ N <= M
  <2>1. /\ D \subseteq index(bucket) /\ IsFiniteSet(index(bucket))
        /\ Cardinality(index(bucket)) = Max({2, N})
        /\ Cardinality(index(bucket)) <= M
    BY <1>1, IndexIs
  <2>2. Max({2, N}) = N
    <3>1. {2, N} \in SUBSET Int /\ N \in {2, N} /\ \A y \in {2, N} : y <= N
      BY <1>1
    <3>2. QED
      BY <3>1, MaxIs
  <2> HIDE DEF D
  <2>3. QED
    BY <2>1, <2>2, FS_Subset DEF D
<1>3. IsSorting(order, bucket, D)
  <2> HIDE DEF D
  <2>1. QED
    BY <1>1, <1>2, SortedIs
<1>4. /\ IsOrder(order, bucket) /\ Len(order) = N /\ Names(order, N, D)
  <2> HIDE DEF D
  <2>1. Names(order, Cardinality(D), D)
    BY <1>3, SortedNames
  <2>2. QED
    BY <1>3, <2>1 DEF IsSorting, D
<1>5. /\ \A x \in 1 .. N : q[x] \in 1 .. N /\ symbols[q[x]] = order[x]
      /\ Names(q, N, 1 .. N)
  <2> HIDE DEF D
  <2>1. Names(symbols, N, D)
    BY DEF D
  <2>2. IsRenumbering(q, symbols, order, N)
    BY <1>1, <1>4, <2>1, NumbersAre
  <2> HIDE DEF q
  <2>3. QED
    BY <2>2 DEF IsRenumbering
<1> HIDE DEF q
<1>6. \A k \in 1 .. N : l[k] \in 1 .. n
  BY DEF IsPrefixCode
<1>7. \A x \in 1 .. N : len[x] = l[q[x]] /\ len[x] \in 1 .. n
  BY <1>5, <1>6
<1>8. N \in Nat /\ IsFiniteSet(1 .. N)
  <2>1. 1 \in Int /\ N \in Int
    BY <1>1
  <2>2. QED
    BY <1>1, <2>1, FS_Interval
<1>9. DOMAIN bucket \subseteq Nat /\ dep \in [DOMAIN bucket -> 0 .. n]
  <2>1. IsComplete(dep, n, M)
    BY <1>1, CalculatedIs
  <2>2. QED
    BY <2>1 DEF IsComplete
<1>10. SumFunction(own) = Total(ownTotal, N)
  <2>1. DOMAIN own = D
    OBVIOUS
  <2>2. \A c \in D : own[c] \in Int
    <3>1. ASSUME NEW c \in D
          PROVE  own[c] \in Int
      <4>1. bucket[c] \in Nat /\ dep[c] \in 0 .. n
        BY <1>1, <1>9
      <4>2. PICK b \in Nat, d \in Nat : b = bucket[c] /\ d = dep[c]
        BY <4>1
      <4>3. own[c] = b * d
        BY <4>2
      <4> HIDE DEF own
      <4>4. QED
        BY <4>3
    <3>2. QED
      BY <3>1
  <2>3. \A x \in 1 .. N : ownTotal[x] = own[order[x]]
    <3>1. \A x \in 1 .. N : order[x] \in D
      BY <1>4 DEF Names
    <3>2. QED
      BY <3>1
  <2> HIDE DEF own, ownTotal, D
  <2>4. IsNumbered(own, order, N, ownTotal)
    BY <1>1, <1>4, <1>8, <2>1, <2>2, <2>3 DEF IsNumbered
  <2>5. QED
    BY <1>8, <2>4, NumberedSum
<1>11. SumFunction(other) = Total(otherTotal, N)
  <2>1. DOMAIN other = 1 .. N
    OBVIOUS
  <2>2. \A k \in 1 .. N : other[k] \in Int
    <3>1. ASSUME NEW k \in 1 .. N
          PROVE  other[k] \in Int
      <4>1. symbols[k] \in D
        BY DEF Names
      <4>2. bucket[symbols[k]] \in Nat /\ l[k] \in 1 .. n
        BY <1>1, <1>6, <4>1
      <4>3. PICK b \in Nat, d \in Nat : b = bucket[symbols[k]] /\ d = l[k]
        BY <4>2
      <4>4. other[k] = b * d
        BY <4>3
      <4> HIDE DEF other
      <4>5. QED
        BY <4>4
    <3>2. QED
      BY <3>1
  <2>3. \A x \in 1 .. N : otherTotal[x] = other[q[x]]
    BY <1>5, <1>7
  <2> HIDE DEF other, otherTotal
  <2>4. IsNumbered(other, q, N, otherTotal)
    BY <1>5, <1>8, <2>1, <2>2, <2>3 DEF IsNumbered
  <2>5. QED
    BY <1>8, <2>4, NumberedSum
<1>12. SumFunction(room) = Total(roomTotal, N)
  <2>1. DOMAIN room = 1 .. N
    OBVIOUS
  <2>2. \A k \in 1 .. N : room[k] \in Int
    <3>1. ASSUME NEW k \in 1 .. N
          PROVE  room[k] \in Int
      <4>1. PICK e \in Nat : e = n - l[k]
        BY <1>6
      <4>2. room[k] = 2 ^ e
        BY <4>1
      <4>3. 2 ^ e \in Nat
        BY PowerOfTwo
      <4>4. QED
        BY <4>2, <4>3
    <3>2. QED
      BY <3>1
  <2>3. \A x \in 1 .. N : roomTotal[x] = room[q[x]]
    BY <1>5, <1>7
  <2> HIDE DEF room, roomTotal
  <2>4. IsNumbered(room, q, N, roomTotal)
    BY <1>5, <1>8, <2>1, <2>2, <2>3 DEF IsNumbered
  <2>5. QED
    BY <1>8, <2>4, NumberedSum
<1>13. IsKraft(len, N, n)
  <2>1. SumFunction(room) <= 2 ^ n
    BY DEF IsPrefixCode
  <2>2. Total(roomTotal, N) <= 2 ^ n
    <3> HIDE DEF room, roomTotal
    <3>1. QED
      BY <1>12, <2>1
  <2>3. \A x \in 1 .. N : len[x] \in 0 .. n
    BY <1>7
  <2> HIDE DEF len
  <2>4. QED
    BY <2>2, <2>3 DEF IsKraft
<1>14. Total(ownTotal, N) <= Total(otherTotal, N)
  <2>1. 2 <= Len(order) /\ Len(order) <= 2 ^ n
    <3>1. 2 ^ n \in Nat
      BY PowerOfTwo
    <3> HIDE DEF D
    <3>2. QED
      BY <1>1, <1>2, <1>4, <3>1
  <2>2. IsKraft(len, Len(order), n) /\ IsOrder(order, bucket)
    BY <1>4, <1>13
  <2> HIDE DEF len
  <2>3. DepthCost(bucket, order, dep) <= OrderCost(bucket, order, len)
    BY <1>9, <2>1, <2>2, LengthsBest
  <2>4. QED
    BY <1>4, <2>3, Zenon DEF DepthCost, OrderCost
<1>15. SumFunction(own) <= SumFunction(other)
  <2> HIDE DEF own, other, ownTotal, otherTotal
  <2>1. QED
    BY <1>10, <1>11, <1>14
<1>16. QED
  BY <1>15, Zenon DEF IsCheaper

LEMMA TotalOfTwo ==
  ASSUME NEW h, h[1] \in Int, h[2] \in Int
  PROVE  Total(h, 1) = h[1] /\ Total(h, 2) = h[1] + h[2]
<1>1. Total(h, 0) = 0
  BY TotalIs
<1>2. Total(h, 0 + 1) = Total(h, 0) + h[0 + 1]
  BY TotalIs
<1>3. Total(h, 1 + 1) = Total(h, 1) + h[1 + 1]
  BY TotalIs
<1>4. 0 + 1 = 1 /\ 1 + 1 = 2
  OBVIOUS
<1>5. Total(h, 1) = 0 + h[1]
  BY <1>1, <1>2, <1>4
<1>6. Total(h, 1) = h[1]
  BY <1>5
<1>7. Total(h, 2) = Total(h, 1) + h[2]
  BY <1>3, <1>4
<1>8. QED
  BY <1>6, <1>7

LEMMA SumOfOne ==
  ASSUME NEW h, NEW x, DOMAIN h = {x}, h[x] \in Int
  PROVE  SumFunction(h) = h[x]
<1> DEFINE pi == [k \in 1 .. 1 |-> x]
           g == [k \in 1 .. 1 |-> h[x]]
<1>1. IsFiniteSet({x})
  BY FS_Singleton
<1>2. \A k \in 1 .. 1 : k = 1 /\ pi[k] = x /\ g[k] = h[x]
  OBVIOUS
<1>3. 1 \in 1 .. 1 /\ pi[1] = x
  OBVIOUS
<1> HIDE DEF pi, g
<1>4. Names(pi, 1, DOMAIN h)
  BY <1>2, <1>3 DEF Names
<1>5. IsNumbered(h, pi, 1, g)
  BY <1>1, <1>2, <1>4 DEF IsNumbered
<1>6. SumFunction(h) = Total(g, 1)
  BY <1>5, NumberedSum
<1>7. Total(g, 1) = g[1]
  <2>1. Total(g, 0 + 1) = Total(g, 0) + g[0 + 1] /\ Total(g, 0) = 0
    BY TotalIs
  <2>2. 0 + 1 = 1 /\ g[1] \in Int
    BY <1>2
  <2>3. Total(g, 1) = 0 + g[1]
    BY <2>1, <2>2
  <2>4. QED
    BY <2>2, <2>3
<1>8. g[1] = h[x]
  BY <1>2
<1>9. QED
  BY <1>6, <1>7, <1>8

\* A source of one code: the second one weighs nothing.
LEMMA OneAndNothing ==
  ASSUME NEW M \in Nat, M >= 2, NEW bucket \in [0 .. M - 1 -> Nat],
         NEW c, used(bucket) = {c}, NEW order \in sorted(bucket, index(bucket))
  PROVE  /\ IsOrder(order, bucket) /\ Len(order) = 2
         /\ order[2] = c /\ bucket[order[1]] = 0
<1> DEFINE S == index(bucket)
<1>1. Cardinality({c}) = 1
  BY FS_Singleton
<1>2. /\ {c} \subseteq S /\ S \subseteq 0 .. M - 1
      /\ Cardinality(S) = Max({2, 1})
  <2>1. used(bucket) # {} /\ Cardinality(used(bucket)) = 1
    BY <1>1
  <2>2. Cardinality(index(bucket)) = Max({2, 1})
    BY <2>1, IndexIs
  <2>3. used(bucket) \subseteq index(bucket) /\ index(bucket) \subseteq 0 .. M - 1
    BY <2>1, IndexIs
  <2>4. QED
    BY <2>2, <2>3
<1>3. Max({2, 1}) = 2
  <2>1. {2, 1} \in SUBSET Int /\ 2 \in {2, 1} /\ \A y \in {2, 1} : y <= 2
    OBVIOUS
  <2>2. QED
    BY <2>1, MaxIs
<1>4. IsSorting(order, bucket, S)
  <2> HIDE DEF S
  <2>1. order \in sorted(bucket, S)
    BY DEF S
  <2>2. QED
    BY <1>2, <2>1, SortedIs
<1> HIDE DEF S
<1>5. IsOrder(order, bucket) /\ Len(order) = 2
  BY <1>2, <1>3, <1>4 DEF IsSorting
<1>6. \A x \in {1, 2} : order[x] \in 0 .. M - 1 /\ bucket[order[x]] \in Nat
  <2>1. \A x \in 1 .. Len(order) : order[x] \in S
    BY <1>4 DEF IsSorting
  <2>2. 1 \in 1 .. 2 /\ 2 \in 1 .. 2
    OBVIOUS
  <2>3. QED
    BY <1>2, <1>5, <2>1, <2>2
<1>7. order[1] # order[2] /\ bucket[order[1]] <= bucket[order[2]]
  <2>1. /\ 1 \in 1 .. Len(order) /\ 2 \in 1 .. Len(order) /\ 1 <= 2 /\ 1 # 2
    BY <1>5
  <2>2. QED
    BY <1>5, <2>1 DEF IsOrder
<1>8. \A d \in 0 .. M - 1 : bucket[d] > 0 <=> d = c
  <2>1. used(bucket) = {d \in 0 .. M - 1 : bucket[d] > 0}
    BY DEF used
  <2>2. c \in 0 .. M - 1
    BY <1>2
  <2>3. QED
    BY <2>1, <2>2
<1>9. \E x \in {1, 2} : c = order[x]
  <2>1. c \in S
    BY <1>2
  <2>2. PICK x \in 1 .. Len(order) : c = order[x]
    BY <1>4, <2>1 DEF IsSorting
  <2>3. x \in {1, 2}
    BY <1>5
  <2>4. QED
    BY <2>2, <2>3
<1>10. order[2] = c
  <2>1. CASE order[1] = c
    <3>1. bucket[order[2]] > 0
      <4>1. bucket[order[1]] > 0
        BY <1>6, <1>8, <2>1
      <4>2. QED
        BY <1>6, <1>7, <4>1
    <3>2. order[2] = c
      BY <1>6, <1>8, <3>1
    <3>3. QED
      BY <3>2
  <2>2. QED
    BY <1>9, <2>1
<1>11. bucket[order[1]] = 0
  <2>1. ~ (bucket[order[1]] > 0)
    BY <1>6, <1>7, <1>8, <1>10
  <2>2. QED
    BY <1>6, <2>1
<1>12. QED
  BY <1>5, <1>10, <1>11

\* One bit suffices for each of two codes.
LEMMA OneBitEach ==
  ASSUME NEW n \in Nat \ {0}, NEW len, len = [x \in 1 .. 2 |-> 1]
  PROVE  IsKraft(len, 2, n)
<1> DEFINE room == [x \in 1 .. 2 |-> 2 ^ (n - len[x])]
<1>1. \A x \in 1 .. 2 : len[x] = 1
  OBVIOUS
<1>2. \A x \in 1 .. 2 : len[x] \in 0 .. n
  BY <1>1
<1>3. PICK m \in Nat : m = n - 1
  OBVIOUS
<1>4. 2 ^ m \in Nat /\ 2 ^ (m + 1) = 2 * 2 ^ m /\ m + 1 = n
  BY <1>3, PowerOfTwo
<1>5. room[1] = 2 ^ m /\ room[2] = 2 ^ m
  BY <1>1, <1>3
<1>6. Total(room, 2) = 2 ^ m + 2 ^ m
  <2> HIDE DEF room
  <2>1. QED
    BY <1>4, <1>5, TotalOfTwo
<1>7. 2 ^ n = 2 * 2 ^ m
  BY <1>4
<1>8. Total(room, 2) <= 2 ^ n
  <2> HIDE DEF room
  <2>1. PICK p \in Nat : p = 2 ^ m
    BY <1>4
  <2>2. Total(room, 2) = p + p /\ 2 ^ n = 2 * p
    BY <1>6, <1>7, <2>1
  <2>3. QED
    BY <2>2
<1>9. QED
  BY <1>2, <1>8 DEF IsKraft

\* A source of one code, however often it occurs, takes one bit each time.
LEMMA BestOfOne ==
  ASSUME NEW M \in Nat, M >= 2, NEW bucket \in [0 .. M - 1 -> Nat],
         NEW n \in Nat \ {0}, M <= 2 ^ n,
         NEW c, used(bucket) = {c},
         NEW order \in sorted(bucket, index(bucket)),
         NEW dep, dep = lengths(bucket, order, n),
         NEW symbols, Names(symbols, 1, {c}),
         NEW l, IsPrefixCode(l, 1, n)
  PROVE  IsCheaper(bucket, dep, symbols, l, 1)
<1> DEFINE own == [d \in {c} |-> bucket[d] * dep[d]]
           other == [k \in 1 .. 1 |-> bucket[symbols[k]] * l[k]]
           len == [x \in 1 .. 2 |-> 1]
           ownTotal == [x \in 1 .. 2 |-> bucket[order[x]] * dep[order[x]]]
           otherTotal == [x \in 1 .. 2 |-> bucket[order[x]] * len[x]]
<1>1. /\ IsOrder(order, bucket) /\ Len(order) = 2
      /\ order[2] = c /\ bucket[order[1]] = 0
  BY OneAndNothing
<1>2. /\ used(bucket) # {} /\ 2 <= 2 ^ n
  <2>1. 2 ^ n \in Nat
    BY PowerOfTwo
  <2>2. QED
    BY <2>1
<1>3. DOMAIN bucket \subseteq Nat /\ dep \in [DOMAIN bucket -> 0 .. n]
  <2>1. IsComplete(dep, n, M)
    BY <1>2, CalculatedIs
  <2>2. QED
    BY <2>1 DEF IsComplete
<1>4. order[1] \in DOMAIN bucket /\ order[2] \in DOMAIN bucket
  <2>1. 1 \in 1 .. Len(order) /\ 2 \in 1 .. Len(order)
    BY <1>1
  <2>2. QED
    BY <1>1, <2>1 DEF IsOrder
<1>5. PICK b \in Nat, d \in Nat, e \in Nat : b = bucket[c] /\ d = dep[c] /\ e = dep[order[1]]
  BY <1>1, <1>3, <1>4
<1>6. Total(ownTotal, 2) <= Total(otherTotal, 2)
  <2>1. IsKraft(len, Len(order), n) /\ IsOrder(order, bucket)
    BY <1>1, OneBitEach
  <2>2. 2 <= Len(order) /\ Len(order) <= 2 ^ n
    BY <1>1, <1>2
  <2> HIDE DEF len
  <2>3. DepthCost(bucket, order, dep) <= OrderCost(bucket, order, len)
    BY <1>3, <2>1, <2>2, LengthsBest
  <2>4. QED
    BY <1>1, <2>3, Zenon DEF DepthCost, OrderCost
<1>7. Total(ownTotal, 2) = b * d
  <2>1. ownTotal[1] = 0 * e /\ ownTotal[2] = b * d
    BY <1>1, <1>5
  <2>2. ownTotal[1] = 0 /\ b * d \in Int
    BY <2>1
  <2> HIDE DEF ownTotal
  <2>3. QED
    BY <2>1, <2>2, TotalOfTwo
<1>8. Total(otherTotal, 2) = b
  <2>1. otherTotal[1] = 0 * 1 /\ otherTotal[2] = b * 1
    BY <1>1, <1>5
  <2>2. otherTotal[1] = 0 /\ otherTotal[2] = b
    BY <2>1
  <2> HIDE DEF otherTotal
  <2>3. QED
    BY <2>2, TotalOfTwo
<1>9. b * d <= b
  <2> HIDE DEF ownTotal, otherTotal
  <2>1. QED
    BY <1>6, <1>7, <1>8
<1>10. SumFunction(own) = b * d
  <2>1. DOMAIN own = {c} /\ own[c] = b * d
    BY <1>5
  <2>2. b * d \in Int
    OBVIOUS
  <2> HIDE DEF own
  <2>3. QED
    BY <2>1, <2>2, SumOfOne
<1>11. PICK v \in 1 .. n : v = l[1]
  BY DEF IsPrefixCode
<1>12. SumFunction(other) = b * v
  <2>1. symbols[1] = c
    <3>1. 1 \in 1 .. 1
      OBVIOUS
    <3>2. QED
      BY <3>1 DEF Names
  <2>2. DOMAIN other = {1} /\ other[1] = b * v
    BY <1>5, <1>11, <2>1
  <2>3. b * v \in Int
    OBVIOUS
  <2> HIDE DEF other
  <2>4. QED
    BY <2>2, <2>3, SumOfOne
<1>13. b <= b * v
  <2>1. PICK u \in Nat : v = u + 1
    <3>1. v - 1 \in Nat /\ v = (v - 1) + 1
      OBVIOUS
    <3>2. QED
      BY <3>1
  <2>2. b * (u + 1) = b * u + b /\ b * u \in Nat
    OBVIOUS
  <2>3. QED
    BY <2>1, <2>2
<1>14. SumFunction(own) <= SumFunction(other)
  <2>1. b * d \in Int /\ b * v \in Int
    OBVIOUS
  <2> HIDE DEF own, other
  <2>2. PICK y \in Int, z \in Int : y = b * d /\ z = b * v
    BY <2>1
  <2>3. y <= b /\ b <= z
    BY <1>9, <1>13, <2>2
  <2>4. y <= z
    BY <2>3
  <2>5. QED
    BY <1>10, <1>12, <2>2, <2>4
<1>15. QED
  BY <1>14, Zenon DEF IsCheaper

-------------------------------------------------------------------------------
(* The tree.                                                               *)

\* Before calculate() the tree is empty; after it, it is what calculate()
\* makes of its source, for some order of the codes that occur equally often.
IInv ==
  /\ m_max_len \in MaxLens
  /\ process \in {"runs", "exited"}
  /\ m_bucket \in [Codes -> Nat]
  /\ ~ Calculated => m_dep = None /\ m_code = None
  /\ Calculated =>
       /\ used(m_bucket) # {}
       /\ \E order \in sorted(m_bucket, index(m_bucket)) :
            m_dep = lengths(m_bucket, order, m_max_len)
       /\ m_code = [c \in Codes |-> IF m_dep[c] > 0 THEN code(m_dep, c) ELSE 0]

LEMMA CodesAre ==
  /\ MaxCode \in Nat /\ MaxCode >= 2 /\ Codes = 0 .. MaxCode - 1
  /\ \A n \in MaxLens : n \in Nat \ {0} /\ MaxCode <= 2 ^ n
  /\ None \in [Codes -> Nat] /\ \A c \in Codes : None[c] = 0
  BY HuffmanTreeAssumption DEF Codes, None

LEMMA InitInvariant == Init => IInv
  BY CodesAre DEF Init, IInv, Calculated

LEMMA CalculateInvariant ==
  ASSUME IInv, NEW bucket \in [Codes -> Counts], calculate(bucket)
  PROVE  IInv'
<1>1. /\ m_bucket = None /\ used(bucket) # {} /\ m_bucket' = bucket
      /\ \E order \in sorted(bucket, index(bucket)) :
           m_dep' = lengths(bucket, order, m_max_len)
      /\ m_code' = [c \in Codes |-> IF m_dep'[c] > 0 THEN code(m_dep', c)
                                    ELSE m_code[c]]
      /\ m_max_len' = m_max_len /\ process' = process
  BY Zenon DEF calculate
<1>2. bucket \in [Codes -> Nat]
  BY HuffmanTreeAssumption
<1>3. m_code = None
  BY <1>1 DEF IInv, Calculated
<1>4. bucket # None
  <2>1. PICK c \in DOMAIN bucket : bucket[c] > 0
    BY <1>1 DEF used
  <2>2. c \in Codes
    BY <1>2, <2>1
  <2>3. None[c] = 0
    BY <2>2, CodesAre
  <2>4. QED
    BY <2>1, <2>3
<1>5. m_code' = [c \in Codes |-> IF m_dep'[c] > 0 THEN code(m_dep', c) ELSE 0]
  <2>1. \A c \in Codes : m_code[c] = 0
    BY <1>3, CodesAre
  <2>2. QED
    BY <1>1, <2>1
<1>6. Calculated'
  BY <1>1, <1>4 DEF Calculated, None, Codes
<1>7. QED
  BY <1>1, <1>2, <1>5, <1>6 DEF IInv, Codes

LEMMA PanicInvariant ==
  ASSUME IInv, panic
  PROVE  IInv'
  BY DEF IInv, panic, Calculated, Codes, None, used

LEMMA NextInvariant ==
  ASSUME IInv, [Next]_vars
  PROVE  IInv'
<1>1. CASE panic
  BY <1>1, PanicInvariant
<1>2. ASSUME NEW bucket \in [Codes -> Counts], calculate(bucket)
      PROVE  IInv'
  BY <1>2, CalculateInvariant
<1>3. CASE UNCHANGED vars
  BY <1>3 DEF IInv, vars, Calculated, Codes, None, used
<1>4. QED
  BY <1>1, <1>2, <1>3 DEF Next

\* What the tree of a source is.
LEMMA TreeIs ==
  ASSUME IInv, Calculated
  PROVE  /\ m_max_len \in Nat \ {0}
         /\ IsComplete(m_dep, m_max_len, MaxCode)
         /\ m_dep \in [Codes -> 0 .. m_max_len]
         /\ Coded = index(m_bucket)
         /\ \A c \in Codes : m_dep[c] > 0 => m_code[c] = code(m_dep, c)
         /\ \A c \in Codes : m_dep[c] = 0 => m_code[c] = 0
<1>1. /\ m_max_len \in Nat \ {0} /\ MaxCode <= 2 ^ m_max_len
      /\ MaxCode \in Nat /\ MaxCode >= 2
      /\ m_bucket \in [0 .. MaxCode - 1 -> Nat] /\ used(m_bucket) # {}
  BY CodesAre DEF IInv
<1>2. PICK order \in sorted(m_bucket, index(m_bucket)) :
        m_dep = lengths(m_bucket, order, m_max_len)
  BY DEF IInv
<1>3. /\ IsComplete(m_dep, m_max_len, MaxCode)
      /\ {c \in 0 .. MaxCode - 1 : m_dep[c] > 0} = index(m_bucket)
  BY <1>1, <1>2, CalculatedIs
<1>4. m_dep \in [Codes -> 0 .. m_max_len]
  BY <1>3 DEF IsComplete, Codes
<1>5. Coded = index(m_bucket)
  BY <1>3 DEF Coded, Codes
<1>6. m_code = [c \in Codes |-> IF m_dep[c] > 0 THEN code(m_dep, c) ELSE 0]
  BY DEF IInv
<1>7. ASSUME NEW c \in Codes
      PROVE  /\ m_dep[c] > 0 => m_code[c] = code(m_dep, c)
             /\ m_dep[c] = 0 => m_code[c] = 0
  <2>1. m_dep[c] \in Nat
    BY <1>1, <1>4
  <2>2. m_code[c] = IF m_dep[c] > 0 THEN code(m_dep, c) ELSE 0
    BY <1>6
  <2>3. QED
    BY <2>1, <2>2
<1>8. QED
  BY <1>1, <1>3, <1>4, <1>5, <1>7

\* calculate() reaches what IInv says of its result, for every source.
THEOREM Invariant == Spec => []IInv
<1>1. Init => IInv
  BY InitInvariant
<1>2. IInv /\ [Next]_vars => IInv'
  BY NextInvariant
<1>3. QED
  BY <1>1, <1>2, PTL DEF Spec

LEMMA TypeImplied ==
  ASSUME IInv
  PROVE  TypeOK
<1>1. /\ m_max_len \in MaxLens /\ m_max_len \in Nat \ {0}
      /\ process \in {"runs", "exited"} /\ m_bucket \in [Codes -> Nat]
  BY CodesAre DEF IInv
<1>2. CASE ~ Calculated
  <2>1. m_dep = None /\ m_code = None
    BY <1>2 DEF IInv
  <2>2. m_dep \in [Codes -> 0 .. m_max_len]
    <3>1. 0 \in 0 .. m_max_len
      BY <1>1
    <3>2. QED
      BY <2>1, <3>1 DEF None
  <2>3. \A c \in Codes : m_dep[c] = 0 /\ m_code[c] = 0
    BY <2>1, CodesAre
  <2>4. \A c \in Codes : m_code[c] \in 0 .. 2 ^ m_dep[c] - 1
    <3>1. 0 \in 0 .. 2 ^ 0 - 1
      BY PowerOfZero
    <3>2. QED
      BY <2>3, <3>1
  <2>5. QED
    BY <1>1, <2>2, <2>4 DEF TypeOK
<1>3. CASE Calculated
  <2>1. /\ IsComplete(m_dep, m_max_len, MaxCode)
        /\ m_dep \in [Codes -> 0 .. m_max_len]
        /\ \A c \in Codes : m_dep[c] > 0 => m_code[c] = code(m_dep, c)
        /\ \A c \in Codes : m_dep[c] = 0 => m_code[c] = 0
    BY <1>3, TreeIs
  <2>2. ASSUME NEW c \in Codes
        PROVE  m_code[c] \in 0 .. 2 ^ m_dep[c] - 1
    <3>1. m_dep[c] \in Nat
      BY <1>1, <2>1
    <3>2. CASE m_dep[c] = 0
      <4>1. 0 \in 0 .. 2 ^ 0 - 1
        BY PowerOfZero
      <4>2. QED
        BY <2>1, <3>2, <4>1
    <3>3. CASE m_dep[c] # 0
      <4> DEFINE v == code(m_dep, c)
                 full == 2 ^ m_dep[c]
      <4>1. m_dep[c] > 0
        BY <3>1, <3>3
      <4>2. v \in Nat /\ v + 1 <= full
        BY <1>1, <2>1, <4>1, CodesAre, CodeWithin
      <4>3. full \in Nat
        BY <3>1, PowerOfTwo
      <4>4. m_code[c] = v
        BY <2>1, <4>1
      <4> HIDE DEF v, full
      <4>5. v \in 0 .. full - 1
        BY <4>2, <4>3
      <4>6. QED
        BY <4>4, <4>5 DEF full
    <3>4. QED
      BY <3>2, <3>3
  <2>3. QED
    BY <1>1, <2>1, <2>2 DEF TypeOK
<1>4. QED
  BY <1>2, <1>3

\* A code is never longer than the limit, and its value fits in its length:
\* write_bits writes all of it.
THEOREM TypeCorrect == Spec => []TypeOK
<1>1. IInv => TypeOK
  BY TypeImplied
<1>2. QED
  BY Invariant, <1>1, PTL

LEMMA SourceImplied ==
  ASSUME IInv
  PROVE  CodesTheSource
<1>1. SUFFICES ASSUME Calculated
               PROVE  /\ used(m_bucket) \subseteq Coded
                      /\ Cardinality(Coded) = Max({2, Cardinality(used(m_bucket))})
  BY DEF CodesTheSource
<1>2. /\ MaxCode \in Nat /\ MaxCode >= 2
      /\ m_bucket \in [0 .. MaxCode - 1 -> Nat] /\ used(m_bucket) # {}
  BY <1>1, CodesAre DEF IInv
<1>3. Coded = index(m_bucket)
  BY <1>1, TreeIs
<1>4. /\ used(m_bucket) \subseteq index(m_bucket)
      /\ Cardinality(index(m_bucket)) = Max({2, Cardinality(used(m_bucket))})
  BY <1>2, IndexIs
<1>5. QED
  BY <1>3, <1>4

\* Whatever the source is, its codes have a length, and no others have, but
\* for a second one when a code is alone.
THEOREM EverySourceCoded == Spec => []CodesTheSource
<1>1. IInv => CodesTheSource
  BY SourceImplied
<1>2. QED
  BY Invariant, <1>1, PTL

\* The strings that begin with a code, from its value and its length.
LEMMA StringsAre ==
  ASSUME IInv, Calculated, NEW c \in Coded
  PROVE  LET v == code(m_dep, c)
             w == 2 ^ (m_max_len - m_dep[c])
         IN  /\ v \in Nat /\ w \in Nat \ {0} /\ v * w \in Nat /\ (v + 1) * w \in Nat
             /\ v * w < (v + 1) * w /\ (v + 1) * w <= 2 ^ m_max_len
             /\ Strings(c) = v * w .. (v + 1) * w - 1
             /\ Min(Strings(c)) = v * w /\ Max(Strings(c)) = (v + 1) * w - 1
<1> DEFINE v == code(m_dep, c)
           w == 2 ^ (m_max_len - m_dep[c])
           a == v * w
           b == (v + 1) * w
<1>1. /\ m_max_len \in Nat \ {0} /\ IsComplete(m_dep, m_max_len, MaxCode)
      /\ MaxCode \in Nat /\ c \in 0 .. MaxCode - 1 /\ m_dep[c] > 0
      /\ m_code[c] = v /\ m_dep[c] \in 1 .. m_max_len
  <2>1. c \in Codes /\ m_dep[c] > 0
    BY DEF Coded
  <2>2. QED
    BY <2>1, TreeIs, CodesAre
<1>2. v \in Nat /\ w \in Nat \ {0} /\ b <= EndOf(m_dep, m_max_len, m_dep[c])
  BY <1>1, CodeWithin
<1>3. /\ EndOf(m_dep, m_max_len, m_dep[c]) <= 2 ^ m_max_len
      /\ EndOf(m_dep, m_max_len, m_dep[c]) \in Nat /\ 2 ^ m_max_len \in Nat
  BY <1>1, EdgesOrdered, CountsAreNat, PowerOfTwo
<1>4. Strings(c) = a .. b - 1
  BY <1>1 DEF Strings
<1> HIDE DEF v, w
<1>5. a \in Nat /\ b \in Nat /\ b = a + w
  BY <1>2
<1> HIDE DEF a, b
<1>6. a < b /\ b <= 2 ^ m_max_len
  BY <1>2, <1>3, <1>5
<1>7. Min(Strings(c)) = a
  <2>1. Strings(c) \in SUBSET Int /\ a \in Strings(c) /\ \A y \in Strings(c) : a <= y
    BY <1>4, <1>5, <1>6
  <2>2. QED
    BY <2>1, MinIs
<1>8. Max(Strings(c)) = b - 1
  <2>1. Strings(c) \in SUBSET Int /\ b - 1 \in Strings(c)
        /\ \A y \in Strings(c) : y <= b - 1
    BY <1>4, <1>5, <1>6
  <2>2. QED
    BY <2>1, MaxIs
<1>9. QED
  BY <1>2, <1>4, <1>5, <1>6, <1>7, <1>8 DEF a, b, v, w

LEMMA PrefixImplied ==
  ASSUME IInv
  PROVE  PrefixCode
<1>1. SUFFICES ASSUME Calculated
               PROVE  /\ \A c, d \in Coded :
                           m_dep[c] < m_dep[d] \/ (m_dep[c] = m_dep[d] /\ c < d) =>
                             Max(Strings(c)) < Min(Strings(d))
                      /\ UNION {Strings(c) : c \in Coded} = 0 .. 2 ^ m_max_len - 1
  BY DEF PrefixCode
<1>2. /\ m_max_len \in Nat \ {0} /\ IsComplete(m_dep, m_max_len, MaxCode)
      /\ MaxCode \in Nat /\ Codes = 0 .. MaxCode - 1
      /\ \A c \in Coded : c \in 0 .. MaxCode - 1 /\ m_dep[c] > 0
  BY <1>1, TreeIs, CodesAre DEF Coded
<1>3. ASSUME NEW c \in Coded, NEW d \in Coded,
             m_dep[c] < m_dep[d] \/ (m_dep[c] = m_dep[d] /\ c < d)
      PROVE  Max(Strings(c)) < Min(Strings(d))
  <2> DEFINE x == (code(m_dep, c) + 1) * 2 ^ (m_max_len - m_dep[c])
             y == code(m_dep, d) * 2 ^ (m_max_len - m_dep[d])
  <2>1. x <= y
    BY <1>2, <1>3, CodesOrdered
  <2>2. x \in Nat /\ Max(Strings(c)) = x - 1
    BY <1>1, StringsAre
  <2>3. y \in Nat /\ Min(Strings(d)) = y
    BY <1>1, StringsAre
  <2> HIDE DEF x, y
  <2>4. x - 1 < y
    BY <2>1, <2>2, <2>3
  <2>5. QED
    BY <2>2, <2>3, <2>4
<1>4. 2 ^ m_max_len \in Nat
  BY <1>2, PowerOfTwo
<1>5. ASSUME NEW c \in Coded, NEW t \in Strings(c)
      PROVE  t \in 0 .. 2 ^ m_max_len - 1
  <2> DEFINE a == code(m_dep, c) * 2 ^ (m_max_len - m_dep[c])
             b == (code(m_dep, c) + 1) * 2 ^ (m_max_len - m_dep[c])
  <2>1. /\ a \in Nat /\ b \in Nat /\ b <= 2 ^ m_max_len /\ Strings(c) = a .. b - 1
    BY <1>1, StringsAre
  <2> HIDE DEF a, b
  <2>2. QED
    BY <1>4, <2>1
<1>6. ASSUME NEW t \in 0 .. 2 ^ m_max_len - 1
      PROVE  \E c \in Coded : t \in Strings(c)
  <2>1. PICK c \in 0 .. MaxCode - 1 :
          /\ m_dep[c] > 0
          /\ code(m_dep, c) * 2 ^ (m_max_len - m_dep[c]) <= t
          /\ t < (code(m_dep, c) + 1) * 2 ^ (m_max_len - m_dep[c])
    BY <1>2, CodesCover
  <2>2. c \in Coded
    BY <1>2, <2>1 DEF Coded
  <2> DEFINE a == code(m_dep, c) * 2 ^ (m_max_len - m_dep[c])
             b == (code(m_dep, c) + 1) * 2 ^ (m_max_len - m_dep[c])
  <2>3. a \in Nat /\ b \in Nat /\ Strings(c) = a .. b - 1
    BY <1>1, <2>2, StringsAre
  <2>4. a <= t /\ t < b /\ t \in Int
    BY <2>1
  <2> HIDE DEF a, b
  <2>5. t \in Strings(c)
    BY <2>3, <2>4
  <2>6. QED
    BY <2>2, <2>5
<1>7. UNION {Strings(c) : c \in Coded} = 0 .. 2 ^ m_max_len - 1
  <2> HIDE DEF Strings
  <2>1. ASSUME NEW t \in UNION {Strings(c) : c \in Coded}
        PROVE  t \in 0 .. 2 ^ m_max_len - 1
    BY <1>5, <2>1
  <2>2. ASSUME NEW t \in 0 .. 2 ^ m_max_len - 1
        PROVE  t \in UNION {Strings(c) : c \in Coded}
    BY <1>6, <2>2
  <2>3. QED
    BY <2>1, <2>2
<1>8. QED
  BY <1>3, <1>7

\* Kraft's equality: no code begins another, none is missing, and a reader
\* that is sent the lengths only numbers them the same.
THEOREM CompletePrefixCode == Spec => []PrefixCode
<1>1. IInv => PrefixCode
  BY PrefixImplied
<1>2. QED
  BY Invariant, <1>1, PTL


LEMMA OptimalImplied ==
  ASSUME IInv
  PROVE  Optimal
<1> DEFINE D == used(m_bucket)
           N == Cardinality(D)
           symbols == SetToSeq(D)
<1>1. SUFFICES ASSUME Calculated, NEW l \in PrefixLengths[m_max_len][Len(symbols)]
               PROVE  Cost(m_dep) <= SumFunction([k \in 1 .. Len(symbols) |->
                                                    m_bucket[symbols[k]] * l[k]])
  BY Zenon DEF Optimal
<1>2. /\ m_max_len \in MaxLens /\ m_max_len \in Nat \ {0} /\ MaxCode <= 2 ^ m_max_len
      /\ MaxCode \in Nat /\ MaxCode >= 2
      /\ m_bucket \in [0 .. MaxCode - 1 -> Nat] /\ D # {}
  BY <1>1, CodesAre DEF IInv
<1>3. PICK order \in sorted(m_bucket, index(m_bucket)) :
        m_dep = lengths(m_bucket, order, m_max_len)
  BY <1>1 DEF IInv
<1>4. /\ D \subseteq 0 .. MaxCode - 1 /\ IsFiniteSet(D) /\ N \in Nat
      /\ IsFiniteSet(0 .. MaxCode - 1) /\ Cardinality(0 .. MaxCode - 1) = MaxCode
  BY <1>2, UsedIs
<1>5. Len(symbols) = N /\ Names(symbols, N, D)
  <2> HIDE DEF D
  <2>1. QED
    BY <1>4, SymbolsAre
<1>6. N \in 1 .. MaxCode
  <2>1. N <= MaxCode
    <3>1. D \in SUBSET (0 .. MaxCode - 1) /\ IsFiniteSet(0 .. MaxCode - 1)
      BY <1>4
    <3> HIDE DEF D
    <3>2. Cardinality(D) <= Cardinality(0 .. MaxCode - 1)
      BY <3>1, FS_Subset, ZenonT(60)
    <3>3. QED
      BY <1>4, <3>2, Zenon
  <2>2. N # 0
    BY <1>2, <1>4, FS_EmptySet
  <2> HIDE DEF N
  <2>3. QED
    BY <1>2, <1>4, <2>1, <2>2
<1>7. IsPrefixCode(l, N, m_max_len)
  <2> HIDE DEF N, symbols, D
  <2>1. l \in PrefixLengths[m_max_len][N]
    BY <1>1, <1>5
  <2>2. PrefixLengths[m_max_len][N] =
          {k \in [1 .. N -> 1 .. m_max_len] :
             SumFunction([j \in 1 .. N |-> 2 ^ (m_max_len - k[j])]) <= 2 ^ m_max_len}
    BY <1>2, <1>6, Zenon DEF PrefixLengths
  <2>3. l \in {k \in [1 .. N -> 1 .. m_max_len] :
                 SumFunction([j \in 1 .. N |-> 2 ^ (m_max_len - k[j])]) <= 2 ^ m_max_len}
    BY <2>1, <2>2, Zenon
  <2>4. QED
    BY <2>3, Zenon DEF IsPrefixCode
<1>8. IsCheaper(m_bucket, m_dep, symbols, l, N)
  <2> HIDE DEF symbols
  <2>1. CASE N >= 2
    <3>1. Names(symbols, N, used(m_bucket)) /\ N = Cardinality(used(m_bucket))
      BY <1>5
    <3> HIDE DEF N
    <3>2. QED
      BY <1>2, <1>3, <1>7, <2>1, <3>1, BestOfMany
  <2>2. CASE N = 1
    <3>1. PICK c : D = {c}
      <4> HIDE DEF D
      <4>1. PICK c \in D : TRUE
        BY <1>2
      <4>2. Cardinality(D \ {c}) = 0
        <5>1. Cardinality(D \ {c}) = N - 1
          BY <1>4, FS_RemoveElement
        <5> HIDE DEF N
        <5>2. QED
          BY <2>2, <5>1
      <4>3. IsFiniteSet(D \ {c})
        BY <1>4, FS_Subset
      <4>4. D \ {c} = {}
        BY <4>2, <4>3, FS_EmptySet
      <4>5. D = {c}
        BY <4>4
      <4>6. QED
        BY <4>5
    <3>2. Names(symbols, 1, {c}) /\ used(m_bucket) = {c}
      BY <1>5, <2>2, <3>1
    <3>3. IsPrefixCode(l, 1, m_max_len)
      BY <1>7, <2>2
    <3> HIDE DEF N, D
    <3>4. IsCheaper(m_bucket, m_dep, symbols, l, 1)
      BY <1>2, <1>3, <3>2, <3>3, BestOfOne
    <3>5. QED
      BY <2>2, <3>4, Zenon
  <2>3. QED
    <3> HIDE DEF N
    <3>1. QED
      BY <1>6, <2>1, <2>2
<1>9. QED
  <2> HIDE DEF N, symbols
  <2>1. QED
    BY <1>5, <1>8, Zenon DEF Cost, IsCheaper

\* "Huffman (package merge)": no prefix code within the limit takes fewer bits
\* than the code of calculate(), for every source, every limit that suffices,
\* and every order std::sort leaves equally frequent codes in.
THEOREM ShortestCode == Spec => []Optimal
  BY Invariant, OptimalImplied, PTL
===============================================================================
