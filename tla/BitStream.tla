------------------------------- MODULE BitStream -------------------------------
(***************************************************************************)
(* BitStream (util/bit_util.hpp, util/bit_util.cpp): the growing bit       *)
(* buffer every deflate block is written into.  An operation is a call     *)
(* whose loops run one iteration per step, so that what holds between two  *)
(* iterations can be stated, and proved, as an invariant.                  *)
(*                                                                         *)
(* The bytes of the std::vector are laid out bit by bit: bit k of byte b   *)
(* is m_bytes[8 * b + k].  Pointers into the vector are indices.  A        *)
(* payload, or the storage of the stream given to append, is a sequence of *)
(* bits, lowest first; bits past its end are 0, as in a wider word.        *)
(***************************************************************************)
EXTENDS Integers, Sequences

CONSTANTS
  InitSizes,  \* sizes in bits a stream may be constructed with
  Bits,       \* the bits that write_bit and align_to_byte are called with
  Words,      \* the payloads, and the contents of streams to append
  Lengths,    \* the lengths n that write_bits and append are called with
  MaxBits     \* bound of the model: no call takes the stream past this size

Bit == {0, 1}

ASSUME BitStreamAssumption ==
  /\ InitSizes \subseteq Nat
  /\ Bits \subseteq Bit
  /\ Words \subseteq Seq(Bit)
  /\ Lengths \subseteq Nat
  /\ MaxBits \in Nat

VARIABLES
  m_bytes,     \* the vector's storage, as bits
  m_cap,       \* its size in bytes
  m_cur_byte,  \* the byte being filled
  m_cur_bit,   \* the next free bit of that byte
  call         \* the call in progress: its program counter and locals

vars == <<m_bytes, m_cap, m_cur_byte, m_cur_bit, call>>

(***************************************************************************)
(* Locals of a call.  word and n are the arguments (n is what the code     *)
(* counts down as n, remain or t), done counts the source bits already     *)
(* appended (the code shifts them out of payload, or moves p past them),   *)
(* offset, p and i are the locals of append.                               *)
(***************************************************************************)
Call(pc, word, n, offset) ==
  [pc |-> pc, word |-> word, n |-> n, done |-> 0,
   offset |-> offset, p |-> 0, i |-> 0]

Idle == Call("idle", <<>>, 0, 0)

\* Bit k of a payload or of the storage of the appended stream.
BitOf(word, k) == IF k + 1 \in 1 .. Len(word) THEN word[k + 1] ELSE 0

get_bits_size == 8 * m_cur_byte + m_cur_bit
get_bytes_size == m_cur_byte + (IF m_cur_bit # 0 THEN 1 ELSE 0)

\* What export_bitstream(dst) copies out: whole bytes.
export_bitstream == [k \in 0 .. 8 * get_bytes_size - 1 |-> m_bytes[k]]

\* Mutant of OrBits: the payload is not masked to its low k bits.
OrBitsUnmasked(k, word, from) ==
  [x \in DOMAIN m_bytes |->
     IF /\ get_bits_size <= x
        /\ x < 8 * m_cur_byte + 8
        /\ BitOf(word, from + x - get_bits_size) = 1
     THEN 1 ELSE m_bytes[x]]

\* m_bytes[..] |= : the k bits from position get_bits_size on are or-ed
\* with the bits of word from `from` on.
OrBits(k, word, from) ==
  [x \in DOMAIN m_bytes |->
     IF /\ get_bits_size <= x
        /\ x < get_bits_size + k
        /\ BitOf(word, from + x - get_bits_size) = 1
     THEN 1 ELSE m_bytes[x]]

\* *m_cur_byte = : the whole current byte is assigned 8 bits of word.
AssignByte(word, from) ==
  [x \in DOMAIN m_bytes |->
     IF 8 * m_cur_byte <= x /\ x < 8 * m_cur_byte + 8
     THEN BitOf(word, from + x - 8 * m_cur_byte) ELSE m_bytes[x]]

\* vector::resize keeps the old bytes and zero-fills the new ones.
resize(mem, cap) ==
  [x \in 0 .. 8 * cap - 1 |-> IF x \in DOMAIN mem THEN mem[x] ELSE 0]

\* Mutant of next_byte: the buffer is expanded one byte too late.
next_byte_late(mem) ==
  /\ m_cur_byte' = m_cur_byte + 1
  /\ m_cur_bit' = 0
  /\ m_cap' = IF m_cur_byte = m_cap THEN 2 * m_cap ELSE m_cap
  /\ m_bytes' = IF m_cur_byte = m_cap THEN resize(mem, 2 * m_cap) ELSE mem

\* next_byte() and expand(), after the current byte of mem was written:
\* the cursor never rests on m_buffer_end.
next_byte(mem) ==
  /\ m_cur_byte' = m_cur_byte + 1
  /\ m_cur_bit' = 0
  /\ m_cap' = IF m_cur_byte + 1 = m_cap THEN 2 * m_cap ELSE m_cap
  /\ m_bytes' = IF m_cur_byte + 1 = m_cap THEN resize(mem, 2 * m_cap) ELSE mem

\* n more bits in the current byte, which stays the current one.
stay_in_byte(mem, n) ==
  /\ m_bytes' = mem
  /\ m_cur_bit' = m_cur_bit + n
  /\ UNCHANGED <<m_cap, m_cur_byte>>

\* Mutant of put_bit: the full byte is not left.
put_bit_no_carry(word, k) == stay_in_byte(OrBits(1, word, k), 1)

\* The body of write_bit: or in bit k of word, move on when the byte is full.
put_bit(word, k) ==
  IF m_cur_bit + 1 = 8 THEN next_byte(OrBits(1, word, k))
                       ELSE stay_in_byte(OrBits(1, word, k), 1)

stream_unchanged == UNCHANGED <<m_bytes, m_cap, m_cur_byte, m_cur_bit>>

Return == call' = Idle

-------------------------------------------------------------------------------
(* The constructor: the bytes asked for, then m_cap doubled up to them.    *)

Init ==
  \E init_size \in InitSizes :
    LET bytes == init_size \div 8 + (IF init_size % 8 # 0 THEN 1 ELSE 0)
    IN  /\ m_bytes = [x \in 0 .. 8 * bytes - 1 |-> 0]
        /\ m_cap = 1
        /\ m_cur_byte = 0
        /\ m_cur_bit = 0
        /\ call = Call("construct", <<>>, bytes, 0)

\* Mutant of RoundUpCap: the capacity is not doubled.
RoundUpCapStuck ==
  /\ call.pc = "construct"
  /\ m_cap < call.n
  /\ UNCHANGED vars

RoundUpCap ==
  /\ call.pc = "construct"
  /\ m_cap < call.n
  /\ m_cap' = 2 * m_cap
  /\ UNCHANGED <<m_bytes, m_cur_byte, m_cur_bit, call>>

Constructed ==
  /\ call.pc = "construct"
  /\ m_cap >= call.n
  /\ m_bytes' = resize(m_bytes, m_cap)
  /\ Return
  /\ UNCHANGED <<m_cap, m_cur_byte, m_cur_bit>>

-------------------------------------------------------------------------------
(* write_bit and write_bits.                                               *)

write_bit(b) ==
  /\ call.pc = "idle"
  /\ get_bits_size + 1 <= MaxBits
  /\ put_bit(<<b>>, 0)
  /\ UNCHANGED call

\* reverse_bits(payload, n): its mask (1u << n) - 1 needs n < 32, its
\* table of reversed words 0 < n.
reverse_bits(word, n) == [k \in 1 .. n |-> BitOf(word, n - k)]

write_bits(word, n, little_end) ==
  /\ call.pc = "idle"
  /\ get_bits_size + n <= MaxBits
  /\ little_end \/ n \in 1 .. 31
  /\ call' = Call("first",
                  IF little_end THEN word ELSE reverse_bits(word, n), n, 0)
  /\ stream_unchanged

\* The payload fits in what is left of the current byte, with room to spare.
FitInFirstByte ==
  /\ call.pc = "first"
  /\ call.n < 8 - m_cur_bit
  /\ stay_in_byte(OrBits(call.n, call.word, 0), call.n)
  /\ Return

FillFirstByte ==
  LET room == 8 - m_cur_bit IN
  /\ call.pc = "first"
  /\ call.n >= room
  /\ next_byte(OrBits(room, call.word, 0))
  /\ call' = [call EXCEPT !.pc = "full", !.n = @ - room, !.done = room]

FullByte ==
  /\ call.pc = "full"
  /\ call.n >= 8
  /\ next_byte(AssignByte(call.word, call.done))
  /\ call' = [call EXCEPT !.n = @ - 8, !.done = @ + 8]

LastBits ==
  /\ call.pc = "full"
  /\ call.n < 8
  /\ IF call.n = 0 THEN stream_unchanged
     ELSE stay_in_byte(OrBits(call.n, call.word, call.done), call.n)
  /\ Return

-------------------------------------------------------------------------------
(* align_to_byte: t = 8 - m_cur_bit calls of write_bit, also when the      *)
(* stream is aligned already.                                              *)

align_to_byte(b) ==
  /\ call.pc = "idle"
  /\ get_bits_size + 8 - m_cur_bit <= MaxBits
  /\ call' = Call("align", [k \in 1 .. 8 |-> b], 8 - m_cur_bit, 0)
  /\ stream_unchanged

AlignBit ==
  /\ call.pc = "align"
  /\ IF call.n = 0 THEN Return /\ stream_unchanged
     ELSE /\ put_bit(call.word, 0)
          /\ call' = [call EXCEPT !.n = @ - 1]

-------------------------------------------------------------------------------
(* append: rhs is another stream, of n bits; its storage goes on with 0.   *)

append(word, n) ==
  /\ call.pc = "idle"
  /\ n > 0
  /\ get_bits_size + n <= MaxBits
  /\ call' = Call(IF m_cur_bit = 0 THEN "bytes" ELSE "head",
                  [k \in 1 .. n |-> BitOf(word, k - 1)], n, m_cur_bit)
  /\ stream_unchanged

\* offset = 0: write_bits(*p, 8) on an empty byte takes its first branch only.
AppendByte ==
  /\ call.pc = "bytes"
  /\ call.n >= 8
  /\ next_byte(OrBits(8, call.word, 8 * call.p))
  /\ call' = [call EXCEPT !.n = @ - 8, !.p = @ + 1, !.done = @ + 8]

\* offset # 0: rhs's first byte completes the current one, if it can.
AppendHead ==
  LET room == 8 - call.offset IN
  /\ call.pc = "head"
  /\ call.n >= room
  /\ next_byte(OrBits(room, call.word, 0))
  /\ call' = [call EXCEPT !.pc = "shifted", !.n = @ - room, !.done = room]

\* Mutant of AppendShifted: p is not moved.
AppendShiftedSameByte ==
  /\ call.pc = "shifted"
  /\ call.n >= 8
  /\ next_byte(AssignByte(call.word, 8 * call.p + (8 - call.offset)))
  /\ call' = [call EXCEPT !.n = @ - 8, !.done = @ + 8]

\* A byte made of the high offset bits of *p and the low bits of *(p + 1).
AppendShifted ==
  /\ call.pc = "shifted"
  /\ call.n >= 8
  /\ next_byte(AssignByte(call.word, 8 * call.p + (8 - call.offset)))
  /\ call' = [call EXCEPT !.n = @ - 8, !.p = @ + 1, !.done = @ + 8]

\* The loops over write_bit for the bits that fill no byte: which bit of
\* rhs iteration i writes.
TailBit ==
  IF call.pc # "shifted"   THEN 8 * call.p + call.i
  ELSE IF call.i < call.offset THEN 8 * call.p + (8 - call.offset + call.i)
       ELSE 8 * (call.p + 1) + (call.i - call.offset)

AppendTail ==
  /\ \/ call.pc \in {"bytes", "shifted"} /\ call.n < 8
     \/ call.pc = "head" /\ call.n < 8 - call.offset
  /\ IF call.i < call.n
     THEN /\ put_bit(call.word, TailBit)
          /\ call' = [call EXCEPT !.i = @ + 1, !.done = @ + 1]
     ELSE Return /\ stream_unchanged

-------------------------------------------------------------------------------
\* The running call goes on; it needs nothing from its caller.
Step ==
  \/ RoundUpCap \/ Constructed
  \/ FitInFirstByte \/ FillFirstByte \/ FullByte \/ LastBits
  \/ AlignBit
  \/ AppendByte \/ AppendHead \/ AppendShifted \/ AppendTail

Next ==
  \/ Step
  \/ \E b \in Bits : write_bit(b) \/ align_to_byte(b)
  \/ \E word \in Words, n \in Lengths :
       \/ \E little_end \in BOOLEAN : write_bits(word, n, little_end)
       \/ append(word, n)

Spec == Init /\ [][Next]_vars

\* The caller's thread keeps running a call it has entered.
FairSpec == Spec /\ WF_vars(Step)

-------------------------------------------------------------------------------
(* Properties.                                                             *)

Phases == {"construct", "idle", "first", "full", "align",
           "bytes", "head", "shifted"}

\* Types of the stream and of the locals of the call in progress.
TypeOK ==
  /\ m_cap \in Nat \ {0}
  /\ m_cur_byte \in Nat
  /\ m_cur_bit \in 0 .. 7
  /\ call \in [pc : Phases, word : Seq(Bit), n : Nat, done : Nat,
               offset : 0 .. 7, p : Nat, i : Nat]
  /\ m_bytes \in
       [0 .. 8 * (IF call.pc = "construct" THEN call.n ELSE m_cap) - 1 -> Bit]

\* The cursor stays inside the storage: every write of a call, and the
\* read of *m_cur_byte that |= makes, hits a byte the vector owns.
CursorInBuffer == m_cur_byte < m_cap

\* Every bit from the cursor on is 0.  |= relies on it, export_bitstream
\* copies the padding of the last byte from it, and an appended stream's
\* storage past its size relies on it.
CleanTail ==
  \A x \in DOMAIN m_bytes : x >= get_bits_size => m_bytes[x] = 0

\* The bits the call in progress has still to append, and how many.
Remaining ==
  IF call.pc = "construct" THEN 0 ELSE call.n - call.i

\* A BitStream is an append-only log of bits: whatever path a call takes
\* through the byte-wise code, and however often the buffer is expanded,
\* the bits come out of export_bitstream in order, none lost or changed.
Log == INSTANCE BitLog WITH
  size <- get_bits_size,
  bits <- [k \in 0 .. get_bits_size - 1 |-> export_bitstream[k]],
  pending <- Remaining,
  todo <- [k \in 0 .. Remaining - 1 |->
             IF call.pc = "align" THEN call.word[1]
                                  ELSE BitOf(call.word, call.done + k)]

ImplementsLog == Log!Spec

\* Every call returns: the byte and bit loops make progress.
CallsReturn == (call.pc # "idle") ~> (call.pc = "idle")
===============================================================================
