--------------------------- MODULE DeflateSections ----------------------------
(***************************************************************************)
(* DeflateCompressor::compress (compress/deflate.cpp): the source is cut   *)
(* into sections, a thread encodes each section block by block into a bit  *)
(* stream of its own, the calling thread joins them all and appends their  *)
(* streams to one another.                                                 *)
(*                                                                         *)
(* What a block is coded to is left out: only its length in bits, chosen   *)
(* from CodedSizes, counts.  A stream is its length in bits and the pieces *)
(* (coded blocks and stored sub-blocks) it is made of; the bytes of the    *)
(* source are their positions.  What appending bits does is BitStream.     *)
(***************************************************************************)
EXTENDS ProgressBar, Sequences, FiniteSets, SequencesExt

CONSTANTS
  SrcLens,          \* lengths of the source, in bytes
  ThreadOptions,    \* values of m_thread_cnt, a size_t
  IntMod,           \* 2^w, w the width of int
  DeflateBlockSize, \* 1 MB in the code
  SubBlockSize,     \* 65535 in the code: what the 16-bit LEN field can say
  CodedSizes,       \* lengths in bits of a coded block
  ReportOver        \* LZ77 reports progress when it is more than this

ASSUME SectionsAssumption ==
  /\ SrcLens \subseteq Nat
  /\ ThreadOptions \subseteq Nat
  /\ IntMod \in Nat \ {0}
  /\ DeflateBlockSize \in Nat \ {0}
  /\ SubBlockSize \in Nat \ {0}
  /\ CodedSizes \subseteq Nat \ {0}
  /\ ReportOver \in Nat

VARIABLES
  m_src_len,     \* bytes that were fed
  m_thread_cnt,  \* the number of threads asked for
  m_finish,      \* whether m_res holds the compressed content
  m_res,         \* bs, and what is exported from it: a stream
  main,          \* the calling thread: program counter, i and p
  thread         \* the work threads: program counter, arguments, locals, bss

comp_vars == <<m_src_len, m_thread_cnt, m_finish, m_res>>
vars == <<comp_vars, main, thread, bar_vars>>

MinOf(a, b) == IF a <= b THEN a ELSE b

\* The smallest k with k * b >= a.
CeilDiv(a, b) == (a + b - 1) \div b

\* static_cast<int> of a size_t.
AsInt(n) ==
  LET m == n % IntMod IN IF 2 * m < IntMod THEN m ELSE m - IntMod

block_cnt == AsInt(CeilDiv(m_src_len, DeflateBlockSize))
thread_cnt == MinOf(block_cnt, AsInt(m_thread_cnt))
each_cnt == CeilDiv(block_cnt, thread_cnt)

\* Mutant of section_end: the division rounds down and what it leaves over is
\* nobody's.
section_end_floor(p) == p + (block_cnt \div thread_cnt) * DeflateBlockSize

\* q in the scheduler: where the section that begins at p ends.
section_end(p) == MinOf(p + each_cnt * DeflateBlockSize, m_src_len)

EmptyStream == [bits |-> 0, pieces |-> <<>>]

\* Bits from position k to the byte boundary align_to_byte goes to: 8 when
\* k is on a boundary already.
AlignBits(k) == 8 - (k % 8)

-------------------------------------------------------------------------------
(* Streams.  A piece takes the bits at .. at + size - 1 of its stream; the *)
(* bytes of a stored piece (LEN, NLEN, data) begin at bit `data`.          *)

append_piece(bs, piece) ==
  [bits |-> bs.bits + piece.size, pieces |-> Append(bs.pieces, piece)]

\* bs->append(*bs_cps): a block coded in b bits, bytes lo .. hi - 1.
append_coded(bs, b, lo, hi, last_block) ==
  append_piece(bs, [stored |-> FALSE, lo |-> lo, hi |-> hi,
                    final |-> last_block,
                    at |-> bs.bits, data |-> bs.bits + 3, size |-> b])

\* Mutant of store_sub_block: the last block's sub-blocks are all final.
store_sub_block_final(bs, lo, hi, rest, last_block) ==
  LET data == bs.bits + 3 + AlignBits(bs.bits + 3) IN
  append_piece(bs, [stored |-> TRUE, lo |-> lo, hi |-> hi,
                    final |-> last_block,
                    at |-> bs.bits, data |-> data,
                    size |-> data + 32 + 8 * (hi - lo) - bs.bits])

\* One round of deflate_encode_store_block, rest bytes being left with it.
store_sub_block(bs, lo, hi, rest, last_block) ==
  LET data == bs.bits + 3 + AlignBits(bs.bits + 3) IN
  append_piece(bs, [stored |-> TRUE, lo |-> lo, hi |-> hi,
                    final |-> last_block /\ hi - lo = rest,
                    at |-> bs.bits, data |-> data,
                    size |-> data + 32 + 8 * (hi - lo) - bs.bits])

\* bs->append(*bss[i]): the pieces move to the end of bs.
append_stream(bs, rhs) ==
  [bits |-> bs.bits + rhs.bits,
   pieces |-> bs.pieces \o
     [k \in 1 .. Len(rhs.pieces) |->
        [rhs.pieces[k] EXCEPT !.at = @ + bs.bits, !.data = @ + bs.bits]]]

-------------------------------------------------------------------------------
Init ==
  /\ m_src_len \in SrcLens
  /\ m_thread_cnt \in ThreadOptions
  /\ m_finish = FALSE
  /\ m_res = EmptyStream
  /\ main = [pc |-> "idle", i |-> 0, p |-> 0]
  /\ thread = <<>>
  /\ BarInit

\* Whether the process is still there.
Alive == main.pc \notin {"crashed", "terminated"}

\* Mutant of feed: the flag stays.
feed_kept ==
  /\ main.pc = "idle"
  /\ m_src_len' \in SrcLens
  /\ UNCHANGED <<m_thread_cnt, m_finish, m_res, main, thread, bar_vars>>

\* Compressor::feed: new content; the result is dropped by compress() only.
feed ==
  /\ main.pc = "idle"
  /\ m_src_len' \in SrcLens
  /\ m_finish' = FALSE
  /\ UNCHANGED <<m_thread_cnt, m_res, main, thread, bar_vars>>

-------------------------------------------------------------------------------
(* The calling thread.                                                     *)

\* With m_finish set compress() returns what it has.  Otherwise each_cnt
\* is divided by thread_cnt, and the vectors of thread_cnt elements throw
\* std::length_error when it is negative.
compress ==
  /\ main.pc = "idle"
  /\ ~ m_finish
  /\ m_res' = EmptyStream
  /\ new_bar(m_src_len)
  /\ main' = [pc |-> IF thread_cnt = 0 THEN "crashed"
                     ELSE IF thread_cnt < 0 THEN "terminated" ELSE "spawn",
              i |-> 0, p |-> 0]
  /\ thread' = <<>>
  /\ UNCHANGED <<m_src_len, m_thread_cnt, m_finish>>

\* Mutant: the loop runs once too often.
Spawn_one_more ==
  LET q == section_end(main.p) IN
  /\ main.pc = "spawn"
  /\ main.i <= thread_cnt
  /\ thread' = Append(thread,
                 [pc |-> "block", st |-> main.p, ed |-> q,
                  last_section |-> q = m_src_len,
                  p |-> main.p, q |-> main.p, reported |-> 0,
                  bs |-> EmptyStream])
  /\ main' = [main EXCEPT !.i = @ + 1, !.p = q]
  /\ UNCHANGED <<comp_vars, bar_vars>>

\* The next thread gets the section from main.p on; a section may be empty.
Spawn ==
  LET q == section_end(main.p) IN
  /\ main.pc = "spawn"
  /\ main.i < thread_cnt
  /\ thread' = Append(thread,
                 [pc |-> "block", st |-> main.p, ed |-> q,
                  last_section |-> q = m_src_len,
                  p |-> main.p, q |-> main.p, reported |-> 0,
                  bs |-> EmptyStream])
  /\ main' = [main EXCEPT !.i = @ + 1, !.p = q]
  /\ UNCHANGED <<comp_vars, bar_vars>>

\* The constructor of std::thread throws: threads that are joinable are
\* destroyed with the vector, which ends the process.
SpawnFails ==
  /\ main.pc = "spawn"
  /\ main.i < thread_cnt
  /\ main' = [main EXCEPT !.pc = "terminated"]
  /\ UNCHANGED <<comp_vars, thread, bar_vars>>

Spawned ==
  /\ main.pc = "spawn"
  /\ main.i = thread_cnt
  /\ main' = [main EXCEPT !.pc = "join", !.i = 0]
  /\ UNCHANGED <<comp_vars, thread, bar_vars>>

Join ==
  /\ main.pc = "join"
  /\ main.i < thread_cnt
  /\ thread[main.i + 1].pc = "done"
  /\ main' = [main EXCEPT !.i = @ + 1]
  /\ UNCHANGED <<comp_vars, thread, bar_vars>>

FillBar ==
  /\ main.pc = "join"
  /\ main.i = thread_cnt
  /\ set_full
  /\ main' = [main EXCEPT !.pc = "hide"]
  /\ UNCHANGED <<comp_vars, thread>>

HideBar ==
  /\ main.pc = "hide"
  /\ hide
  /\ main' = [main EXCEPT !.pc = "concat", !.i = 0]
  /\ UNCHANGED <<comp_vars, thread>>

Concat ==
  /\ main.pc = "concat"
  /\ main.i < thread_cnt
  /\ m_res' = append_stream(m_res, thread[main.i + 1].bs)
  /\ main' = [main EXCEPT !.i = @ + 1]
  /\ UNCHANGED <<m_src_len, m_thread_cnt, m_finish, thread, bar_vars>>

\* compress() returns; its vectors go.
Export ==
  /\ main.pc = "concat"
  /\ main.i = thread_cnt
  /\ m_finish' = TRUE
  /\ main' = [pc |-> "idle", i |-> 0, p |-> 0]
  /\ thread' = <<>>
  /\ UNCHANGED <<m_src_len, m_thread_cnt, m_res, bar_vars>>

Main == Spawn \/ Spawned \/ Join \/ FillBar \/ HideBar \/ Concat \/ Export

-------------------------------------------------------------------------------
(* A work thread.  p is the byte its block starts at, q the end of the     *)
(* block; while a block is stored, p is how far the sub-blocks have come.  *)

\* Mutant of block_end: a rest of a whole block is merged as well.
block_end_greedy(p, ed) ==
  LET q == MinOf(p + DeflateBlockSize, ed) IN
  IF ed - q <= DeflateBlockSize THEN ed ELSE q

\* Where the block that begins at p ends: a rest shorter than a block
\* joins the block before it.
block_end(p, ed) ==
  LET q == MinOf(p + DeflateBlockSize, ed) IN
  IF ed - q < DeflateBlockSize THEN ed ELSE q

WorkerUnchanged == UNCHANGED <<comp_vars, main>>

StartBlock(t) ==
  /\ Alive
  /\ thread[t].pc = "block"
  /\ thread[t].p < thread[t].ed
  /\ thread' = [thread EXCEPT ![t].pc = "scan",
                  ![t].q = block_end(thread[t].p, thread[t].ed),
                  ![t].reported = 0]
  /\ WorkerUnchanged /\ UNCHANGED bar_vars

\* calc() reports the bytes it has gone through when they are more than
\* ReportOver, and forgets what is left of them when it returns.
Report(t) ==
  /\ Alive
  /\ thread[t].pc = "scan"
  /\ \E delta \in ReportOver + 1 ..
                    thread[t].q - thread[t].p - thread[t].reported :
       /\ increase_progress(delta)
       /\ thread' = [thread EXCEPT ![t].reported = @ + delta]
  /\ WorkerUnchanged

\* Mutant: the longer of the two is kept.
Encode_longer(t) ==
  LET w == thread[t]
      last_block == w.q = w.ed /\ w.last_section
  IN
  /\ Alive
  /\ w.pc = "scan"
  /\ \E b \in CodedSizes :
       thread' =
         IF CeilDiv(b, 8) < w.q - w.p
         THEN [thread EXCEPT ![t].pc = "store"]
         ELSE [thread EXCEPT ![t].pc = "block", ![t].p = w.q,
                 ![t].bs = append_coded(w.bs, b, w.p, w.q, last_block)]
  /\ WorkerUnchanged /\ UNCHANGED bar_vars

\* The block is coded, and stored when that made it no shorter.
Encode(t) ==
  LET w == thread[t]
      last_block == w.q = w.ed /\ w.last_section
  IN
  /\ Alive
  /\ w.pc = "scan"
  /\ \E b \in CodedSizes :
       thread' =
         IF CeilDiv(b, 8) >= w.q - w.p
         THEN [thread EXCEPT ![t].pc = "store"]
         ELSE [thread EXCEPT ![t].pc = "block", ![t].p = w.q,
                 ![t].bs = append_coded(w.bs, b, w.p, w.q, last_block)]
  /\ WorkerUnchanged /\ UNCHANGED bar_vars

Store(t) ==
  LET w == thread[t]
      last_block == w.q = w.ed /\ w.last_section
      sub_block == MinOf(SubBlockSize, w.q - w.p)
  IN
  /\ Alive
  /\ w.pc = "store"
  /\ w.p < w.q
  /\ thread' = [thread EXCEPT ![t].p = w.p + sub_block,
                  ![t].bs = store_sub_block(w.bs, w.p, w.p + sub_block,
                                            w.q - w.p, last_block)]
  /\ WorkerUnchanged /\ UNCHANGED bar_vars

Stored(t) ==
  /\ Alive
  /\ thread[t].pc = "store"
  /\ thread[t].p = thread[t].q
  /\ thread' = [thread EXCEPT ![t].pc = "block"]
  /\ WorkerUnchanged /\ UNCHANGED bar_vars

\* Mutant: an empty section keeps its thread waiting.
Finish_nonempty(t) ==
  /\ Alive
  /\ thread[t].pc = "block"
  /\ thread[t].p >= thread[t].ed
  /\ thread[t].st < thread[t].ed
  /\ thread' = [thread EXCEPT ![t].pc = "done"]
  /\ WorkerUnchanged /\ UNCHANGED bar_vars

Finish(t) ==
  /\ Alive
  /\ thread[t].pc = "block"
  /\ thread[t].p >= thread[t].ed
  /\ thread' = [thread EXCEPT ![t].pc = "done"]
  /\ WorkerUnchanged /\ UNCHANGED bar_vars

\* An exception (out of memory) that leaves a thread ends the process.
WorkerFails(t) ==
  /\ Alive
  /\ thread[t].pc \in {"block", "scan", "store"}
  /\ main' = [main EXCEPT !.pc = "terminated"]
  /\ UNCHANGED <<comp_vars, thread, bar_vars>>

Work(t) ==
  StartBlock(t) \/ Encode(t) \/ Store(t) \/ Stored(t) \/ Finish(t)

-------------------------------------------------------------------------------
Next ==
  \/ feed \/ compress \/ Main \/ SpawnFails
  \/ \E t \in 1 .. Len(thread) : Work(t) \/ Report(t) \/ WorkerFails(t)

Spec == Init /\ [][Next]_vars

\* No source has more threads than blocks.
MaxThreads == UNION {1 .. CeilDiv(n, DeflateBlockSize) : n \in SrcLens}

\* The calling thread and every work thread keep running.
FairSpec ==
  /\ Spec
  /\ WF_vars(Main)
  /\ \A t \in MaxThreads : WF_vars(t \in DOMAIN thread /\ Work(t))

-------------------------------------------------------------------------------
(* Properties.                                                             *)

Piece == [stored : BOOLEAN, lo : Nat, hi : Nat, final : BOOLEAN,
          at : Nat, data : Nat, size : Nat]

Streams == [bits : Nat, pieces : Seq(Piece)]

Worker == [pc : {"block", "scan", "store", "done"},
           st : Nat, ed : Nat, last_section : BOOLEAN,
           p : Nat, q : Nat, reported : Nat, bs : Streams]

\* Types; and no more threads are started than the vectors have room for.
TypeOK ==
  /\ m_src_len \in Nat
  /\ m_thread_cnt \in Nat
  /\ m_finish \in BOOLEAN
  /\ m_res \in Streams
  /\ main \in [pc : {"idle", "spawn", "join", "hide", "concat",
                     "crashed", "terminated"}, i : Nat, p : Nat]
  /\ thread \in Seq(Worker)
  /\ Len(thread) > 0 => Len(thread) <= thread_cnt
  /\ BarTypeOK

\* bs is made of the bytes lo .. hi - 1 of the source, in order, each once,
\* and its pieces fill its bits without gap or overlap.
Holds(bs, lo, hi) ==
  LET n == Len(bs.pieces) IN
  IF n = 0 THEN bs.bits = 0 /\ lo = hi
  ELSE /\ bs.pieces[1].lo = lo /\ bs.pieces[1].at = 0
       /\ bs.pieces[n].hi = hi
       /\ bs.pieces[n].at + bs.pieces[n].size = bs.bits
       /\ \A k \in 1 .. n : bs.pieces[k].lo < bs.pieces[k].hi
       /\ \A k \in 1 .. n - 1 :
            /\ bs.pieces[k + 1].lo = bs.pieces[k].hi
            /\ bs.pieces[k + 1].at = bs.pieces[k].at + bs.pieces[k].size

\* However the source is cut and whatever the threads do when, the stream
\* that compress() hands out holds the whole source, each byte once.
ResultIsTheSource == m_finish => Holds(m_res, 0, m_src_len)

\* A decoder stops at the first final block: the last piece is final, and
\* no other is (empty sections at the end call themselves last as well).
OneFinalBlock ==
  m_finish => \A k \in 1 .. Len(m_res.pieces) :
                m_res.pieces[k].final <=> k = Len(m_res.pieces)

\* A stored piece fits its 16-bit LEN field, and a block is shorter than
\* two blocks: "the input bytes is actually O(2 * DeflateBlockSize)".
PiecesBounded ==
  \A t \in DOMAIN thread : \A k \in DOMAIN thread[t].bs.pieces :
    LET piece == thread[t].bs.pieces[k] IN
    piece.hi - piece.lo <=
      IF piece.stored THEN SubBlockSize ELSE 2 * DeflateBlockSize - 1

\* Whichever way the blocks are coded, the result is longer than the source
\* by no more than the headers of the stored pieces.
NeverMuchLonger ==
  m_finish =>
    m_res.bits <= 8 * m_src_len
                  + 43 * Cardinality({k \in DOMAIN m_res.pieces :
                                        m_res.pieces[k].stored})

\* A stored piece has its bytes where the format has them, and an inflater
\* looks for them: at the next byte boundary behind its three header bits.
InFormat(piece) ==
  piece.stored => piece.data = 8 * CeilDiv(piece.at + 3, 8)

AllInFormat(bs) == \A k \in DOMAIN bs.pieces : InFormat(bs.pieces[k])

\* The bytes of a stored block begin at the next byte boundary behind its
\* three header bits: "store block (in deflate format)", README.md:223.
StoredBlocksInDeflateFormat == m_finish => AllInFormat(m_res)

\* The bit at which an inflater that has read the pieces before k stands.
NextBit(bs, k) ==
  IF k = 1 THEN 0 ELSE bs.pieces[k - 1].at + bs.pieces[k - 1].size

\* What an inflater makes of a stream: the pieces, one where the other ends,
\* up to a final one, or to a stored one whose bytes are not where it looks.
Inflated(bs) ==
  LET n == Len(bs.pieces)
      read == {k \in 1 .. n :
                 /\ \A i \in 1 .. k - 1 : ~ bs.pieces[i].final
                 /\ \A i \in 1 .. k : /\ bs.pieces[i].at = NextBit(bs, i)
                                     /\ InFormat(bs.pieces[i])}
  IN  FlattenSeq([k \in 1 .. Cardinality(read) |->
                    [i \in 1 .. bs.pieces[k].hi - bs.pieces[k].lo |->
                       bs.pieces[k].lo + i]])

Content(n) == [i \in 1 .. n |-> i]

Promise == INSTANCE Compressor WITH
  Contents <- {Content(n) : n \in SrcLens},
  NoResult <- "none",
  content <- Content(m_src_len),
  finish <- m_finish,
  result <- IF m_finish THEN Inflated(m_res) ELSE "none"

\* What the code does and a Compressor may not: compress() finishes with a
\* result in which a stored block is out of place, so that an inflater gets a
\* part of the content at most.  The runs StoreAligned and StoreConcat show
\* the two ways to get there.
Misplaced ==
  /\ ~ m_finish
  /\ m_finish'
  /\ UNCHANGED m_src_len
  /\ ~ StoredBlocksInDeflateFormat'

\* "Compress the fed content", "unset when fed by new data, set when
\* compress() is called and finished", compressor.hpp:31 and 46: whatever the
\* threads do, an inflater gets from a finished compressor the very content
\* it was fed with last, calling compress() again changes nothing, and only
\* feed() takes it back; with one exception, a stored block out of place.
\* It excuses the content of such a result and nothing of what is done when.
ImplementsCompressor ==
  Promise!Init /\ [][Promise!Next \/ Misplaced]_(Promise!vars)

\* The bytes of its section that LZ77 has gone through in thread w.
ScannedBy(w) ==
  (IF w.pc = "scan" THEN w.p + w.reported
   ELSE IF w.pc = "store" THEN w.q ELSE w.p) - w.st

\* And in the first k threads.
Scanned[k \in 0 .. Len(thread)] ==
  IF k = 0 THEN 0 ELSE Scanned[k - 1] + ScannedBy(thread[k])

\* The bar, which all threads write, is never ahead of their work.
BarHonest ==
  main.pc \in {"spawn", "join"} => m_accumulate <= Scanned[Len(thread)]

\* And it never goes back while a compression runs.
BarNeverBack ==
  [][main.pc # "idle" => m_accumulate' >= m_accumulate]_vars

\* The bar that is left on the terminal is full.
BarEndsFull ==
  main.pc = "concat" \/ m_finish => line = [fill |-> Width, full |-> TRUE]

\* compress() comes to an end: it returns, or the process does.
CompressReturns ==
  main.pc # "idle" ~> main.pc \in {"idle", "crashed", "terminated"}

\* "Compress the fed content.  Return the length of compressed content":
\* compressor.hpp:31 knows no content, and no number of threads, for which
\* that is not what compress() does.
NeverCrashes == main.pc # "crashed"
===============================================================================
