----------------------------- MODULE HuffmanTree ------------------------------
(***************************************************************************)
(* A HuffmanTree object (compress/deflate_huffman.cpp): calculate() for    *)
(* any source, and the code that encode() then hands out, against what a   *)
(* decoder needs of it: a complete prefix code, numbered as RFC 1951 says, *)
(* and against the definition of an optimal one.                           *)
(***************************************************************************)
EXTENDS HuffmanCode

CONSTANTS
  MaxCode,  \* m_max_code: codes are 0 .. MaxCode - 1
  MaxLens,  \* values of m_max_len
  Counts    \* how often a code may occur in the source

ASSUME HuffmanTreeAssumption ==
  /\ MaxCode \in Nat
  /\ MaxCode >= 2
  /\ MaxLens \subseteq Nat \ {0}
  /\ \A max_len \in MaxLens : MaxCode <= 2 ^ max_len
  /\ Counts \subseteq Nat

VARIABLES
  m_max_len,
  m_bucket,  \* how often every code occurs in the source
  m_dep,     \* the lengths; 0 for a code that has none
  m_code,
  process    \* whether the process runs

vars == <<m_max_len, m_bucket, m_dep, m_code, process>>

Codes == 0 .. MaxCode - 1

None == [c \in Codes |-> 0]

Init ==
  /\ m_max_len \in MaxLens
  /\ m_bucket = None
  /\ m_dep = None
  /\ m_code = None
  /\ process = "runs"

\* calculate() of a source in which c occurs bucket[c] times; it is called
\* once in the life of a tree.
calculate(bucket) ==
  /\ process = "runs"
  /\ m_bucket = None
  /\ used(bucket) # {}
  /\ m_bucket' = bucket
  /\ \E order \in sorted(bucket, index(bucket)) :
       m_dep' = lengths(bucket, order, m_max_len)
  /\ m_code' = [c \in Codes |-> IF m_dep'[c] > 0 THEN code(m_dep', c)
                                ELSE m_code[c]]
  /\ UNCHANGED <<m_max_len, process>>

\* calculate() of an empty source: log::panic exits.
panic ==
  /\ process = "runs"
  /\ m_bucket = None
  /\ process' = "exited"
  /\ UNCHANGED <<m_max_len, m_bucket, m_dep, m_code>>

Next == panic \/ \E bucket \in [Codes -> Counts] : calculate(bucket)

Spec == Init /\ [][Next]_vars

-------------------------------------------------------------------------------
(* Properties.                                                             *)

Calculated == m_bucket # None

Coded == {c \in Codes : m_dep[c] > 0}

\* Every code is as long as the limit allows at most, and its value is not
\* longer than its length: write_bits would cut it.
TypeOK ==
  /\ m_max_len \in MaxLens
  /\ m_bucket \in [Codes -> Nat]
  /\ m_dep \in [Codes -> 0 .. m_max_len]
  /\ \A c \in Codes : m_code[c] \in 0 .. 2 ^ m_dep[c] - 1
  /\ process \in {"runs", "exited"}

\* Every code of the source can be encoded, and no code gets a length in
\* vain: only a code that is alone is given a second one.
CodesTheSource ==
  Calculated => /\ used(m_bucket) \subseteq Coded
                /\ Cardinality(Coded) = Max({2, Cardinality(used(m_bucket))})

\* The strings of m_max_len bits that begin with code c.
Strings(c) ==
  LET step == 2 ^ (m_max_len - m_dep[c]) IN
  m_code[c] * step .. (m_code[c] + 1) * step - 1

\* No code is the beginning of another, and whatever bits follow, a code is
\* recognised: inflaters refuse a code that is not complete.  They are sent
\* the lengths only, and take shorter codes, and of codes of one length those
\* of smaller symbols, to be the smaller strings.
PrefixCode ==
  Calculated =>
    /\ \A c, d \in Coded :
         m_dep[c] < m_dep[d] \/ (m_dep[c] = m_dep[d] /\ c < d) =>
           Max(Strings(c)) < Min(Strings(d))
    /\ UNION {Strings(c) : c \in Coded} = 0 .. 2 ^ m_max_len - 1

\* The bits the source takes with lengths dep.
Cost(dep) == SumFunction([c \in used(m_bucket) |-> m_bucket[c] * dep[c]])

\* The lengths, by Kraft's inequality, of the prefix codes of n symbols.
PrefixLengths ==
  [max_len \in MaxLens |->
     [n \in 1 .. MaxCode |->
        {l \in [1 .. n -> 1 .. max_len] :
           SumFunction([k \in 1 .. n |-> 2 ^ (max_len - l[k])])
             <= 2 ^ max_len}]]

\* "Huffman (package merge)": no prefix code within the limit takes fewer
\* bits, however the sort orders codes that occur equally often.
Optimal ==
  LET symbols == SetToSeq(used(m_bucket)) IN
  Calculated =>
    \A l \in PrefixLengths[m_max_len][Len(symbols)] :
      Cost(m_dep) <= SumFunction([k \in 1 .. Len(symbols) |->
                                    m_bucket[symbols[k]] * l[k]])
===============================================================================
