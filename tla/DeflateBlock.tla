----------------------------- MODULE DeflateBlock -----------------------------
(***************************************************************************)
(* deflate_encode_static_block and deflate_encode_dynamic_block            *)
(* (compress/deflate.cpp): the items of a block are written, field by      *)
(* field, into a bit stream, and an inflater reads them back.              *)
(*                                                                         *)
(* The stream is the sequence of bits that BitStream is shown to be; the   *)
(* trees are HuffmanCode's.                                                *)
(***************************************************************************)
EXTENDS HuffmanCode, DeflateTables, SequencesExt

CONSTANT
  Contents  \* the items of a block: what LZ77 may find, and the end of block

LEL == "lit_len_eob"
Dis == "dis"

LZ77DictionarySize == 32768

LZ77Items ==
  [type : {"literal"}, val : 0 .. 255] \cup [type : {"length"}, val : 3 .. 258]
    \cup [type : {"distance"}, val : 1 .. LZ77DictionarySize]
    \cup [type : {"eob"}, val : {256}]

ASSUME ContentsAssumption ==
  \A items \in Contents :
    /\ items \in Seq(LZ77Items)
    /\ \A k \in DOMAIN items :
         /\ items[k].type = "length" => items[k + 1].type = "distance"
         /\ items[k].type = "distance" => k > 1 /\ items[k - 1].type = "length"
         /\ items[k].type = "eob" <=> k = Len(items)
    /\ Len(items) > 1

VARIABLES
  items,        \* what is to be written
  last_block,
  coding_type,  \* "static_coding", "dynamic_coding"
  bs,           \* the bits that are written
  writer,       \* program counter, loop index, h1, h2 and h3 (their buckets,
                \* then their lengths), the run length codes to be written
  reader        \* the inflater

args == <<items, last_block, coding_type>>
vars == <<args, bs, writer, reader>>

Reader == INSTANCE Inflate

-------------------------------------------------------------------------------
(* run_length_encode and run_length_decode.                                *)

LeastOf(a, b) == IF a <= b THEN a ELSE b

\* What is left of a run of x when no code for a repetition fits.
singly(x, n) == [k \in 1 .. n |-> x]

\* Mutant of repetitions: a run of 7 is not cut.
repetitions_long(x, n) ==
  LET cut[m \in 0 .. n] ==
        IF m < 3 THEN singly(x, m)
        ELSE LET k == LeastOf(m, 7) IN <<16 + 32 * (k - 3)>> \o cut[m - k]
  IN  cut[n]

\* n times the length x, which was written before.
repetitions(x, n) ==
  LET cut[m \in 0 .. n] ==
        IF m < 3 THEN singly(x, m)
        ELSE LET k == LeastOf(m, 6) IN <<16 + 32 * (k - 3)>> \o cut[m - k]
  IN  cut[n]

\* n times the length 0.
zeros(n) ==
  LET cut[m \in 0 .. n] ==
        IF m < 3 THEN singly(0, m)
        ELSE IF m < 11
        THEN LET k == LeastOf(m, 10) IN <<17 + 32 * (k - 3)>> \o cut[m - k]
        ELSE LET k == LeastOf(m, 138) IN <<18 + 32 * (k - 11)>> \o cut[m - k]
  IN  cut[n]

run_length_encode(src) ==
  LET from[i \in 1 .. Len(src) + 1] ==
        IF i > Len(src) THEN <<>>
        ELSE LET j == Min({k \in i + 1 .. Len(src) + 1 :
                             k > Len(src) \/ src[k] # src[i]})
             IN (IF src[i] # 0 THEN <<src[i]>> \o repetitions(src[i], j - i - 1)
                               ELSE zeros(j - i)) \o from[j]
  IN  from[1]

\* The symbol of a run length code, and the number its extra bits stand for.
run_length_decode(c) ==
  LET x == c % 32
      y == c \div 32
  IN  <<x, IF x <= 15 THEN y ELSE IF x <= 17 THEN y + 3 ELSE y + 11>>

-------------------------------------------------------------------------------
(* Writing bits.                                                           *)

\* Mutant of little: the bits above the first are not masked.
little_unmasked(payload, n) == [i \in 1 .. n |-> payload \div 2 ^ (i - 1)]

little(payload, n) == [i \in 1 .. n |-> (payload \div 2 ^ (i - 1)) % 2]
big(payload, n) == little(reverse_bits(payload, n), n)

\* encode() and write_to_bs() of the tree with lengths dep.
tree_bits(dep, x) == big(code(dep, x), dep[x])

row(item) ==
  CASE item.type = "literal" -> literal_row(item.val)
    [] item.type = "length" -> length_row(item.val)
    [] item.type = "distance" -> distance_row(item.val)
    [] item.type = "eob" -> <<256, 0, 0>>

extra_bits(item) == little(row(item)[3], row(item)[2])

\* The fixed codes, by ranges.
static_bits(item) ==
  LET base == row(item)[1] IN
  IF item.type = "distance" THEN big(base, 5)
  ELSE IF base < 144 THEN big(48 + base, 8)
  ELSE IF base < 256 THEN big(400 + base - 144, 9)
  ELSE IF base < 280 THEN big(base - 256, 7)
  ELSE big(192 + base - 280, 8)

-------------------------------------------------------------------------------
(* The trees of a dynamic block.                                           *)

\* How often c occurs; "if no distance code is presented, push an arbitrary
\* one", and the end of block is counted once more than it occurs.
occurrences(types, c) ==
  Cardinality({k \in DOMAIN items : items[k].type \in types /\ row(items[k])[1] = c})

lel_bucket ==
  [c \in 0 .. 285 |-> occurrences({"literal", "length", "eob"}, c)
                      + (IF c = 256 THEN 1 ELSE 0)]

\* Mutant of dis_bucket: no arbitrary code.
dis_bucket_bare == [c \in 0 .. 29 |-> occurrences({"distance"}, c)]

dis_bucket ==
  [c \in 0 .. 29 |->
     IF c = 0 /\ \A k \in DOMAIN items : items[k].type # "distance" THEN 1
     ELSE occurrences({"distance"}, c)]

rlc_bucket(rlc) ==
  [c \in 0 .. 18 |-> Cardinality({k \in DOMAIN rlc : rlc[k] % 32 = c})]

\* The sort's outcome that keeps equal codes in their order.  HuffmanTree
\* checks that every other outcome gives a code that is as good.
stable(bucket) ==
  LET S == index(bucket)
      before(c) == {d \in S : bucket[d] < bucket[c]
                              \/ (bucket[d] = bucket[c] /\ d < c)}
  IN  [k \in 1 .. Cardinality(S) |->
         CHOOSE c \in S : Cardinality(before(c)) = k - 1]

\* calculate(), with a limit of max_len.
tree(bucket, max_len) == lengths(bucket, stable(bucket), max_len)

\* cl, resized to get_last_code() + 1.
resized(dep) == [i \in 1 .. last_code(dep) + 1 |-> dep[i - 1]]

DeflateRLCPermutation ==
  <<16, 17, 18, 0, 8, 7, 9, 6, 10, 5, 11, 4, 12, 3, 13, 2, 14, 1, 15>>

rlc_last_code_index(cl3) ==
  Max({i \in 0 .. 18 : cl3[DeflateRLCPermutation[i + 1]] # 0})

-------------------------------------------------------------------------------
NoTree == <<>>

Init ==
  /\ items \in Contents
  /\ last_block \in {0, 1}
  /\ coding_type \in {"static_coding", "dynamic_coding"}
  /\ bs = <<>>
  /\ writer = [pc |-> "start", k |-> 1,
               h1 |-> NoTree, h2 |-> NoTree, h3 |-> NoTree, rlc |-> <<>>]
  /\ reader = Reader!Start

StaticHeader ==
  /\ writer.pc = "start"
  /\ coding_type = "static_coding"
  /\ bs' = <<last_block>> \o little(1, 2)
  /\ writer' = [writer EXCEPT !.pc = "items"]
  /\ UNCHANGED <<args, reader>>

\* All codes of the two trees are collected.
Collect ==
  /\ writer.pc = "start"
  /\ coding_type = "dynamic_coding"
  /\ writer' = [writer EXCEPT !.pc = "trees", !.h1 = lel_bucket, !.h2 = dis_bucket]
  /\ UNCHANGED <<args, bs, reader>>

\* calculate() of the two; log::panic, if one has no codes.
BuildTrees ==
  /\ writer.pc = "trees"
  /\ writer' = IF used(writer.h1) = {} \/ used(writer.h2) = {}
               THEN [writer EXCEPT !.pc = "panic"]
               ELSE
               [writer EXCEPT !.pc = "runs",
                  !.h1 = tree(writer.h1, 15), !.h2 = tree(writer.h2, 15)]
  /\ UNCHANGED <<args, bs, reader>>

\* rlc1 and rlc2, the run length codes of their lengths.
RunLengths ==
  /\ writer.pc = "runs"
  /\ writer' = [writer EXCEPT !.pc = "third",
                  !.rlc = run_length_encode(resized(writer.h1))
                            \o run_length_encode(resized(writer.h2))]
  /\ UNCHANGED <<args, bs, reader>>

\* calculate() of the third tree, the one of these codes.
ThirdTree ==
  /\ writer.pc = "third"
  /\ writer' = [writer EXCEPT !.pc = "header", !.h3 = tree(rlc_bucket(writer.rlc), 7)]
  /\ UNCHANGED <<args, bs, reader>>

\* The header, up to the lengths of the third tree.
DynamicHeader ==
  /\ writer.pc = "header"
  /\ bs' = <<last_block>> \o little(2, 2)
             \o little(last_code(writer.h1) + 1 - 257, 5)
             \o little(last_code(writer.h2) + 1 - 1, 5)
             \o little(rlc_last_code_index(writer.h3) + 1 - 4, 4)
             \o FlattenSeq([i \in 1 .. rlc_last_code_index(writer.h3) + 1 |->
                              little(writer.h3[DeflateRLCPermutation[i]], 3)])
  /\ writer' = [writer EXCEPT !.pc = "lengths"]
  /\ UNCHANGED <<args, reader>>

\* write_huffman_code_len, for one run length code.
length_bits(c) ==
  LET decoded == run_length_decode(c)
      x == decoded[1]
      y == decoded[2]
  IN  tree_bits(writer.h3, x) \o (CASE x = 16 -> little(y - 3, 2)
                                    [] x = 17 -> little(y - 3, 3)
                                    [] x = 18 -> little(y - 11, 7)
                                    [] OTHER -> <<>>)

WriteLength ==
  /\ writer.pc = "lengths"
  /\ writer.k <= Len(writer.rlc)
  /\ bs' = bs \o length_bits(writer.rlc[writer.k])
  /\ writer' = [writer EXCEPT !.k = @ + 1]
  /\ UNCHANGED <<args, reader>>

LengthsWritten ==
  /\ writer.pc = "lengths"
  /\ writer.k > Len(writer.rlc)
  /\ writer' = [writer EXCEPT !.pc = "items", !.k = 1]
  /\ UNCHANGED <<args, bs, reader>>

\* Mutant of dynamic_bits: distances are coded with the first tree.
dynamic_bits_one_tree(item) == tree_bits(writer.h1, row(item)[1])

dynamic_bits(item) ==
  tree_bits(IF item.type = "distance" THEN writer.h2 ELSE writer.h1, row(item)[1])

\* The code of an item and its extra bits.
WriteItem ==
  /\ writer.pc = "items"
  /\ writer.k <= Len(items)
  /\ bs' = bs \o (IF coding_type = "static_coding"
                  THEN static_bits(items[writer.k])
                  ELSE dynamic_bits(items[writer.k]))
             \o extra_bits(items[writer.k])
  /\ writer' = [writer EXCEPT !.k = @ + 1]
  /\ UNCHANGED <<args, reader>>

Written ==
  /\ writer.pc = "items"
  /\ writer.k > Len(items)
  /\ writer' = [writer EXCEPT !.pc = "done"]
  /\ UNCHANGED <<args, bs, reader>>

Write ==
  StaticHeader \/ Collect \/ BuildTrees \/ RunLengths \/ ThirdTree
    \/ DynamicHeader \/ WriteLength \/ LengthsWritten \/ WriteItem \/ Written

-------------------------------------------------------------------------------
Reads(pc, r) ==
  /\ writer.pc = "done"
  /\ reader.pc = pc
  /\ reader' = r
  /\ UNCHANGED <<args, bs, writer>>

AllLengths == Len(reader.lens) = reader.hlit + reader.hdist

ReadHeader == Reads("header", Reader!read_header(reader, bs))
ReadLength == ~ AllLengths /\ Reads("lengths", Reader!read_length(reader, bs))
BuildCodes == AllLengths /\ Reads("lengths", Reader!build_codes(reader))
ReadItem == Reads("items", Reader!read_item(reader, bs))

Read == ReadHeader \/ ReadLength \/ BuildCodes \/ ReadItem

Next == Write \/ Read

Spec == Init /\ [][Next]_vars

-------------------------------------------------------------------------------
(* Properties.                                                             *)

TypeOK ==
  /\ last_block \in {0, 1}
  /\ coding_type \in {"static_coding", "dynamic_coding"}
  /\ \A i \in DOMAIN bs : bs[i] \in {0, 1}
  /\ writer.pc \in {"start", "trees", "runs", "third", "header", "lengths",
                    "items", "done", "panic"}
  /\ writer.k \in 1 .. Max({Len(writer.rlc), Len(items)}) + 1
  /\ reader.pc \in {"header", "lengths", "items", "done", "refused"}

\* A block always has two trees, no field of its header is cut, no code is
\* over- or undersubscribed, no repetition lacks a length to repeat or runs
\* over the end: an inflater finds nothing in the block to refuse.
NeverRefused == writer.pc # "panic" /\ reader.pc # "refused"

\* "Return the run length code of src": however runs are cut, and whatever
\* the third tree and the permutation make of them, the inflater comes to
\* the lengths of the two codes the writer uses, and tells the two apart.
LengthsAgree ==
  LET sent == resized(writer.h1) \o resized(writer.h2) IN
  /\ reader.lens = SubSeq(sent, 1, Len(reader.lens))
  /\ reader.pc \in {"items", "done"} /\ coding_type = "dynamic_coding" =>
       /\ reader.lens = sent
       /\ reader.hlit = last_code(writer.h1) + 1

\* What is read is what was written, and it is read to the last bit: what is
\* appended to the block is not taken for a part of it.
RoundTrip ==
  /\ reader.out = SubSeq(items, 1, Len(reader.out))
  /\ reader.pc = "done" =>
       /\ reader.out = items
       /\ reader.final = last_block
       /\ reader.pos = Len(bs)
===============================================================================
