---------------------------- MODULE MCDeflateBlock ----------------------------
(* Instances of DeflateBlock for TLC.                                        *)
EXTENDS DeflateBlock

Lit(v) == <<[type |-> "literal", val |-> v]>>
Match(n, d) == <<[type |-> "length", val |-> n], [type |-> "distance", val |-> d]>>
Block(s) == s \o <<[type |-> "eob", val |-> 256]>>

\* One literal: it and the end of block cut the 257 lengths into runs of
\* zeros of every length there is.
OneLiteral == {Lit(v) : v \in 0 .. 255}

\* The ends of every distance code.
Distances == UNION {{distance_div[k][2], distance_div[k][2] + 2 ^ (k - 1) - 1,
                     distance_div[k][2] + 2 ^ (k - 1),
                     distance_div[k][2] + 2 ^ k - 1} : k \in 1 .. 14} \cup {3, 4}
\* Every length.
Matches == {Lit(7) \o Match(n, 1) : n \in 3 .. 258}

\* Behind the byte 7, repeated until distance d lies inside the block.
FarMatches ==
  {Lit(7) \o [k \in 1 .. 2 * ((d + 256) \div 258) |-> Match(258, 1)[2 - (k % 2)]]
     \o Match(3, d) : d \in Distances}

\* n literals that occur once each, in two ranges: their codes are equally
\* long, and the ranges are runs of that length.
Ranges(n) ==
  {[k \in 1 .. n |-> Lit(IF k <= r THEN k ELSE 100 + k)[1]] : r \in 1 .. n}

\* Literals that occur 1, 2, 4, .. times: codes of many lengths.
Skewed(n) ==
  {[k \in 1 .. 2 ^ n - 1 |-> Lit(step * Cardinality({j \in 1 .. n : 2 ^ j <= k}))[1]] :
     step \in {1, 2, 12}}

MCContents ==
  {Block(s) : s \in OneLiteral \cup Matches \cup FarMatches \cup Ranges(7) \cup Ranges(15)
                      \cup Skewed(4)}
===============================================================================
