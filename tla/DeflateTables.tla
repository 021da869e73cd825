---------------------------- MODULE DeflateTables -----------------------------
(***************************************************************************)
(* What the programs that print tables at build time put into them:        *)
(* table_deflate.hpp (compress/gt_deflate.cpp) and table_reversebits.hpp   *)
(* (util/gt_reversebits.cpp).  A row of the former is a code, how many     *)
(* extra bits follow it, and their value.                                  *)
(***************************************************************************)
EXTENDS Integers, Sequences, FiniteSets, FiniteSetsExt

literal_row(x) == <<x, 0, 0>>

\* The branches of the length table: first length, its code, extra bits.
length_branches ==
  <<<<3, 257, 0>>, <<11, 265, 1>>, <<19, 269, 2>>, <<35, 273, 3>>,
    <<67, 277, 4>>, <<131, 281, 5>>, <<258, 285, 0>>>>

length_row(x) ==
  LET b == length_branches[Max({k \in 1 .. 7 : length_branches[k][1] <= x})]
  IN  <<b[2] + (x - b[1]) \div 2 ^ b[3], b[3], (x - b[1]) % 2 ^ b[3]>>

distance_div ==
  <<<<0, 1>>, <<4, 5>>, <<6, 9>>, <<8, 17>>, <<10, 33>>, <<12, 65>>,
    <<14, 129>>, <<16, 257>>, <<18, 513>>, <<20, 1025>>, <<22, 2049>>,
    <<24, 4097>>, <<26, 8193>>, <<28, 16385>>>>

\* b counts the rows that begin at x or before, and is one less in the end.
distance_row(x) ==
  LET b == Cardinality({k \in 1 .. 14 : distance_div[k][2] <= x}) - 1
      over == x - distance_div[b + 1][2]
  IN  <<distance_div[b + 1][1] + over \div 2 ^ b, b, over % 2 ^ b>>

\* reverse_bits() by GetReverseBitTable(n), each entry made from the one of
\* half its index.
reverse_bits(payload, n) ==
  LET vec[i \in 0 .. 2 ^ n - 1] ==
        IF i = 0 THEN 0 ELSE vec[i \div 2] \div 2 + (i % 2) * 2 ^ (n - 1)
  IN  vec[payload % 2 ^ n]
===============================================================================
