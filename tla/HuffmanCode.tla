----------------------------- MODULE HuffmanCode ------------------------------
(***************************************************************************)
(* The algorithm of HuffmanTree::calculate (compress/deflate_huffman.cpp): *)
(* package-merge from the number of times every code occurs to the lengths *)
(* of a prefix code, and from the lengths to the prefix code itself.       *)
(*                                                                         *)
(* A bucket is a function on the codes 0 .. m_max_code - 1, dep its result.*)
(***************************************************************************)
EXTENDS Integers, Sequences, FiniteSets, FiniteSetsExt, SequencesExt

-------------------------------------------------------------------------------
(* Package-merge.                                                          *)

used(bucket) == {c \in DOMAIN bucket : bucket[c] > 0}

\* Mutant of index: a code that is alone stays alone.
index_unpadded(bucket) == used(bucket)

\* The codes that get a length: those that occur, and the first ones that
\* do not until there are two.
index(bucket) ==
  LET occur == used(bucket)
      spare(c) == {d \in DOMAIN bucket \ occur : d < c}
  IN  occur \cup {c \in DOMAIN bucket :
                    Cardinality(occur) + Cardinality(spare(c)) < 2}

\* What std::sort may make of the codes S: nothing orders equal ones.
sorted(bucket, S) ==
  {order \in SetToSeqs(S) :
     \A j, k \in DOMAIN order : j < k => bucket[order[j]] <= bucket[order[k]]}

\* Mutant of packages: a package weighs what its heavier half does.
packages_heavier(list) ==
  [k \in 1 .. Len(list) \div 2 |->
     [first |-> -1 - 2 * (k - 1), weight |-> list[2 * k].weight]]

\* Two by two, the items of a list are packed.  `first` is the code of a
\* leaf, or -1 - last_p for the items last_p and last_p + 1 (from 0).
packages(list) ==
  [k \in 1 .. Len(list) \div 2 |->
     [first |-> -1 - 2 * (k - 1),
      weight |-> list[2 * k - 1].weight + list[2 * k].weight]]

\* Leaves and packages in the order of their weights, leaves first: item by
\* item, with the number of leaves that are in the list already.
merge(leaves, packs) ==
  LET size == Len(leaves) + Len(packs)
      first[p \in 0 .. size] ==
        IF p = 0 THEN [list |-> <<>>, j |-> 0]
        ELSE LET before == first[p - 1]
                 j == before.j + 1
                 k == p - before.j
             IN  IF /\ k <= Len(packs)
                    /\ j > Len(leaves) \/ packs[k].weight < leaves[j].weight
                 THEN [list |-> Append(before.list, packs[k]), j |-> before.j]
                 ELSE [list |-> Append(before.list, leaves[j]), j |-> j]
  IN  first[size].list

\* lists, after max_len rounds.
lists(bucket, order, max_len) ==
  LET leaves == [j \in DOMAIN order |-> [first |-> order[j],
                                         weight |-> bucket[order[j]]]]
      upto[i \in 1 .. max_len] ==
        IF i = 1 THEN <<leaves>>
        ELSE LET before == upto[i - 1] IN
             Append(before, merge(leaves, packages(before[i - 1])))
  IN  upto[max_len]

\* Mutant of new_bound: the second half of the last package is forgotten.
new_bound_half(list, bound) ==
  LET packed == {j \in 1 .. bound : list[j].first < 0} IN
  IF packed = {} THEN 0 ELSE -list[Max(packed)].first

\* How many items of the list before are packed in the first `bound` ones.
new_bound(list, bound) ==
  LET packed == {j \in 1 .. bound : list[j].first < 0} IN
  IF packed = {} THEN 0 ELSE 1 - list[Max(packed)].first

\* m_dep: a code's length is in how many lists its leaf is taken.
lengths(bucket, order, max_len) ==
  LET all == lists(bucket, order, max_len)
      bound[i \in 1 .. max_len] ==
        IF i = max_len THEN 2 * (Len(order) - 1)
        ELSE new_bound(all[i + 1], bound[i + 1])
      taken == [i \in 1 .. max_len |->
                  {all[i][j].first : j \in 1 .. bound[i]}]
  IN  [c \in DOMAIN bucket |->
         Cardinality({i \in 1 .. max_len : c \in taken[i]})]

-------------------------------------------------------------------------------
(* From lengths to codes.                                                  *)

bl_count(dep, level) ==
  IF level = 0 THEN 0 ELSE Cardinality({c \in DOMAIN dep : dep[c] = level})

\* Mutant of start_code: the codes of the level above are not counted.
start_code_uncounted(dep, level) ==
  LET start[l \in 0 .. level] ==
        IF l = 0 THEN 0
        ELSE IF l = level THEN 2 * start[l - 1]
        ELSE 2 * (start[l - 1] + bl_count(dep, l - 1))
  IN  start[level]

\* The first code of a length.
start_code(dep, level) ==
  LET start[l \in 0 .. level] ==
        IF l = 0 THEN 0 ELSE 2 * (start[l - 1] + bl_count(dep, l - 1))
  IN  start[level]

\* m_code[c], for a c that has a length.
code(dep, c) ==
  start_code(dep, dep[c])
    + Cardinality({d \in DOMAIN dep : d < c /\ dep[d] = dep[c]})

\* get_last_code()
last_code(dep) == Max({-1} \cup {c \in DOMAIN dep : dep[c] > 0})
===============================================================================
