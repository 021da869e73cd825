---------------------------- MODULE BitStreamProofs ----------------------------
(***************************************************************************)
(* BitStream, for every buffer size, payload, length and bound: types, the *)
(* cursor stays in the buffer, nothing is written past it, and the stream  *)
(* is an append-only log.                                                  *)
(***************************************************************************)
EXTENDS BitStream, TLAPS

(***************************************************************************)
(* What the locals of a call mean, phase by phase.  The byte-wise loops    *)
(* only run on an empty byte; done is how far p and i have come; the bits  *)
(* of a call that is left with fewer bits than a byte still fit in i .. n. *)
(***************************************************************************)
CallLocals ==
  /\ call.i <= call.n
  /\ call.pc = "construct" => m_cur_byte = 0 /\ m_cur_bit = 0 /\ call.i = 0
  /\ call.pc = "idle" => call.n = 0
  /\ call.pc = "first" => call.done = 0 /\ call.i = 0
  /\ call.pc = "full" => m_cur_bit = 0 /\ call.i = 0
  /\ call.pc = "align" =>
       /\ call.i = 0
       /\ \E b \in Bit : call.word = [k \in 1 .. 8 |-> b]
  /\ call.pc = "bytes" =>
       /\ call.done = 8 * call.p + call.i
       /\ call.n >= 8 => m_cur_bit = 0 /\ call.i = 0
  /\ call.pc = "head" =>
       /\ call.offset # 0
       /\ call.done = call.i /\ call.p = 0
       /\ call.n >= 8 - call.offset => m_cur_bit = call.offset /\ call.i = 0
  /\ call.pc = "shifted" =>
       /\ call.offset # 0
       /\ call.done = 8 - call.offset + 8 * call.p + call.i
       /\ call.n >= 8 => m_cur_bit = 0 /\ call.i = 0

\* The inductive invariant.
IInv == TypeOK /\ CursorInBuffer /\ CleanTail /\ CallLocals

\* The part of it that is about the buffer, once it is constructed.
BufferOK ==
  /\ m_cap \in Nat \ {0}
  /\ m_cur_byte \in Nat
  /\ m_cur_bit \in 0 .. 7
  /\ m_bytes \in [0 .. 8 * m_cap - 1 -> Bit]
  /\ CursorInBuffer
  /\ CleanTail

-------------------------------------------------------------------------------
(* Reading and writing bits.                                               *)

LEMMA BitOfIsBit ==
  ASSUME NEW word \in Seq(Bit), NEW k \in Int
  PROVE  BitOf(word, k) \in Bit
<1>1. CASE k + 1 \in 1 .. Len(word)
  BY <1>1 DEF BitOf
<1>2. CASE k + 1 \notin 1 .. Len(word)
  BY <1>2 DEF BitOf, Bit
<1>3. QED
  BY <1>1, <1>2

LEMMA OrBitsKeepsRest ==
  ASSUME BufferOK, NEW word, NEW from, NEW k \in Nat
  PROVE  /\ OrBits(k, word, from) \in [0 .. 8 * m_cap - 1 -> Bit]
         /\ \A x \in 0 .. 8 * m_cap - 1 :
              x >= get_bits_size + k => OrBits(k, word, from)[x] = 0
  BY DEF BufferOK, OrBits, CleanTail, get_bits_size, Bit

LEMMA AssignByteKeepsRest ==
  ASSUME BufferOK, NEW word \in Seq(Bit), NEW from \in Nat
  PROVE  /\ AssignByte(word, from) \in [0 .. 8 * m_cap - 1 -> Bit]
         /\ \A x \in 0 .. 8 * m_cap - 1 :
              x >= 8 * m_cur_byte + 8 => AssignByte(word, from)[x] = 0
<1>1. \A x \in 0 .. 8 * m_cap - 1 :
        BitOf(word, from + x - 8 * m_cur_byte) \in Bit
  BY BitOfIsBit DEF BufferOK
<1>2. /\ DOMAIN m_bytes = 0 .. 8 * m_cap - 1
      /\ \A x \in 0 .. 8 * m_cap - 1 : m_bytes[x] \in Bit
  BY DEF BufferOK
<1>3. AssignByte(word, from) \in [0 .. 8 * m_cap - 1 -> Bit]
  BY <1>1, <1>2 DEF AssignByte
<1>4. \A x \in 0 .. 8 * m_cap - 1 :
        x >= 8 * m_cur_byte + 8 => AssignByte(word, from)[x] = m_bytes[x]
  BY <1>2 DEF AssignByte, BufferOK
<1>5. \A x \in 0 .. 8 * m_cap - 1 : x >= 8 * m_cur_byte + 8 => m_bytes[x] = 0
  BY <1>2 DEF BufferOK, CleanTail, get_bits_size
<1>6. QED
  BY <1>3, <1>4, <1>5

\* next_byte keeps the buffer in order when what it is given is clean from
\* the next byte on.
LEMMA NextByteKeepsBuffer ==
  ASSUME BufferOK,
         NEW mem \in [0 .. 8 * m_cap - 1 -> Bit],
         \A x \in 0 .. 8 * m_cap - 1 : x >= 8 * m_cur_byte + 8 => mem[x] = 0,
         next_byte(mem)
  PROVE  BufferOK' /\ m_cur_bit' = 0
<1>1. CASE m_cur_byte + 1 = m_cap
  <2>1. m_cap' = 2 * m_cap /\ m_cur_byte' = m_cap /\ m_cur_bit' = 0
    BY <1>1 DEF next_byte, BufferOK
  <2>2. m_bytes' = [x \in 0 .. 8 * (2 * m_cap) - 1 |->
                      IF x \in 0 .. 8 * m_cap - 1 THEN mem[x] ELSE 0]
    BY <1>1 DEF next_byte, resize
  <2>3. m_bytes' \in [0 .. 8 * m_cap' - 1 -> Bit]
    BY <2>1, <2>2 DEF BufferOK, Bit
  <2>4. CleanTail'
    BY <1>1, <2>1, <2>2 DEF BufferOK, CleanTail, get_bits_size
  <2>5. QED
    BY <2>1, <2>3, <2>4 DEF BufferOK, CursorInBuffer
<1>2. CASE m_cur_byte + 1 # m_cap
  <2>1. m_cap' = m_cap /\ m_cur_byte' = m_cur_byte + 1 /\ m_cur_bit' = 0
        /\ m_bytes' = mem
    BY <1>2 DEF next_byte
  <2>2. QED
    BY <1>2, <2>1 DEF BufferOK, CleanTail, CursorInBuffer, get_bits_size
<1>3. QED
  BY <1>1, <1>2

LEMMA StayInByteKeepsBuffer ==
  ASSUME BufferOK, NEW k \in Nat, m_cur_bit + k < 8,
         NEW mem \in [0 .. 8 * m_cap - 1 -> Bit],
         \A x \in 0 .. 8 * m_cap - 1 : x >= get_bits_size + k => mem[x] = 0,
         stay_in_byte(mem, k)
  PROVE  BufferOK'
  BY DEF BufferOK, stay_in_byte, CleanTail, CursorInBuffer, get_bits_size

LEMMA PutBitKeepsBuffer ==
  ASSUME BufferOK, NEW word, NEW k, put_bit(word, k)
  PROVE  BufferOK'
<1>1. CASE m_cur_bit + 1 = 8
  <2>1. get_bits_size + 1 = 8 * m_cur_byte + 8
    BY <1>1 DEF get_bits_size, BufferOK
  <2>2. next_byte(OrBits(1, word, k))
    BY <1>1 DEF put_bit
  <2>3. QED
    BY <2>1, <2>2, OrBitsKeepsRest, NextByteKeepsBuffer
<1>2. CASE m_cur_bit + 1 # 8
  <2>1. stay_in_byte(OrBits(1, word, k), 1) /\ m_cur_bit + 1 < 8
    BY <1>2 DEF put_bit, BufferOK
  <2>2. QED
    BY <2>1, OrBitsKeepsRest, StayInByteKeepsBuffer
<1>3. QED
  BY <1>1, <1>2

-------------------------------------------------------------------------------
(* The invariant.                                                          *)

LEMMA BufferFromInvariant ==
  ASSUME IInv, call.pc # "construct"
  PROVE  BufferOK
  BY DEF IInv, TypeOK, BufferOK

\* What a step of a call has to show beside BufferOK'.
LEMMA InvariantFromBuffer ==
  ASSUME BufferOK', CallLocals', call'.pc # "construct",
         call' \in [pc : Phases, word : Seq(Bit), n : Nat, done : Nat,
                    offset : 0 .. 7, p : Nat, i : Nat]
  PROVE  IInv'
  BY DEF IInv, TypeOK, BufferOK

\* The calls a step or an initial state may start.
LEMMA CallType ==
  ASSUME NEW pc \in Phases, NEW word \in Seq(Bit), NEW n \in Nat,
         NEW offset \in 0 .. 7
  PROVE  /\ Call(pc, word, n, offset) \in
              [pc : Phases, word : Seq(Bit), n : Nat, done : Nat,
               offset : 0 .. 7, p : Nat, i : Nat]
         /\ Call(pc, word, n, offset).pc = pc
         /\ Call(pc, word, n, offset).word = word
         /\ Call(pc, word, n, offset).n = n
         /\ Call(pc, word, n, offset).done = 0
         /\ Call(pc, word, n, offset).offset = offset
         /\ Call(pc, word, n, offset).p = 0
         /\ Call(pc, word, n, offset).i = 0
  BY DEF Call

\* A call that has no payload.
LEMMA NoPayloadType ==
  ASSUME NEW pc \in Phases, NEW n \in Nat
  PROVE  /\ Call(pc, <<>>, n, 0) \in
              [pc : Phases, word : Seq(Bit), n : Nat, done : Nat,
               offset : 0 .. 7, p : Nat, i : Nat]
         /\ Call(pc, <<>>, n, 0).pc = pc
         /\ Call(pc, <<>>, n, 0).n = n
         /\ Call(pc, <<>>, n, 0).i = 0
<1> DEFINE empty == <<>>
<1>1. empty \in Seq(Bit) /\ 0 \in 0 .. 7
  OBVIOUS
<1> HIDE DEF empty
<1>2. /\ Call(pc, empty, n, 0) \in
              [pc : Phases, word : Seq(Bit), n : Nat, done : Nat,
               offset : 0 .. 7, p : Nat, i : Nat]
      /\ Call(pc, empty, n, 0).pc = pc
      /\ Call(pc, empty, n, 0).n = n
      /\ Call(pc, empty, n, 0).i = 0
  BY <1>1 DEF Call
<1>3. QED
  BY <1>2 DEF empty

LEMMA IdleType ==
  /\ Idle \in [pc : Phases, word : Seq(Bit), n : Nat, done : Nat,
               offset : 0 .. 7, p : Nat, i : Nat]
  /\ Idle.pc = "idle" /\ Idle.n = 0 /\ Idle.i = 0
<1>1. "idle" \in Phases /\ 0 \in Nat
  BY DEF Phases
<1>2. QED
  BY <1>1, NoPayloadType DEF Idle

LEMMA InitEstablishes == Init => IInv
<1> SUFFICES ASSUME Init PROVE IInv
  OBVIOUS
<1>1. PICK bytes \in Nat :
        /\ m_bytes = [x \in 0 .. 8 * bytes - 1 |-> 0]
        /\ m_cap = 1
        /\ m_cur_byte = 0
        /\ m_cur_bit = 0
        /\ call = Call("construct", <<>>, bytes, 0)
  <2>1. PICK init_size \in InitSizes :
          LET b == init_size \div 8 + (IF init_size % 8 # 0 THEN 1 ELSE 0)
          IN  /\ m_bytes = [x \in 0 .. 8 * b - 1 |-> 0]
              /\ m_cap = 1
              /\ m_cur_byte = 0
              /\ m_cur_bit = 0
              /\ call = Call("construct", <<>>, b, 0)
    BY DEF Init
  <2> DEFINE b == init_size \div 8 + (IF init_size % 8 # 0 THEN 1 ELSE 0)
  <2>2. b \in Nat
    BY BitStreamAssumption
  <2>3. /\ m_bytes = [x \in 0 .. 8 * b - 1 |-> 0]
        /\ m_cap = 1
        /\ m_cur_byte = 0
        /\ m_cur_bit = 0
        /\ call = Call("construct", <<>>, b, 0)
    BY <2>1
  <2> HIDE DEF b
  <2>4. QED
    BY <2>2, <2>3
<1>2. "construct" \in Phases
  BY DEF Phases
<1>3. /\ call \in [pc : Phases, word : Seq(Bit), n : Nat, done : Nat,
                   offset : 0 .. 7, p : Nat, i : Nat]
      /\ call.pc = "construct" /\ call.n = bytes /\ call.i = 0
  BY <1>1, <1>2, NoPayloadType
<1>4. TypeOK
  BY <1>1, <1>3 DEF TypeOK, Bit
<1>5. CallLocals
  BY <1>1, <1>3 DEF CallLocals
<1>6. CleanTail /\ CursorInBuffer
  BY <1>1 DEF CleanTail, CursorInBuffer, get_bits_size
<1>7. QED
  BY <1>4, <1>5, <1>6 DEF IInv

CallTypes == [pc : Phases, word : Seq(Bit), n : Nat, done : Nat,
              offset : 0 .. 7, p : Nat, i : Nat]

LEMMA ReturnPreserves ==
  ASSUME IInv, BufferOK', Return
  PROVE  IInv'
<1>1. call'.pc = "idle" /\ call'.n = 0 /\ call'.i = 0
  BY IdleType DEF Return
<1>2. CallLocals'
  BY <1>1 DEF CallLocals
<1>3. QED
  BY <1>1, <1>2, IdleType, InvariantFromBuffer DEF Return

LEMMA UnchangedBuffer ==
  ASSUME BufferOK, stream_unchanged
  PROVE  BufferOK'
  BY DEF BufferOK, stream_unchanged, CursorInBuffer, CleanTail, get_bits_size

LEMMA StepPreserves ==
  ASSUME IInv, Step
  PROVE  IInv'
<1>0. call \in CallTypes
  BY DEF IInv, TypeOK, CallTypes
<1>1. CASE RoundUpCap
  BY <1>0, <1>1 DEF RoundUpCap, IInv, TypeOK, CursorInBuffer, CleanTail,
                    CallLocals, get_bits_size
<1>2. CASE Constructed
  <2>1. BufferOK'
    BY <1>0, <1>2 DEF Constructed, IInv, TypeOK, CursorInBuffer, CleanTail,
                      CallLocals, get_bits_size, resize, BufferOK, Bit
  <2>2. QED
    BY <1>2, <2>1, ReturnPreserves DEF Constructed
<1>c. call.pc = "construct" => RoundUpCap \/ Constructed
  BY DEF Step, RoundUpCap, Constructed, FitInFirstByte, FillFirstByte, FullByte,
         LastBits, AlignBit, AppendByte, AppendHead, AppendShifted, AppendTail
<1> SUFFICES ASSUME call.pc # "construct" PROVE IInv'
  BY <1>1, <1>2, <1>c
<1>3. BufferOK
  BY BufferFromInvariant
<1>4. CASE FitInFirstByte
  <2>1. call.n \in Nat /\ m_cur_bit + call.n < 8
    BY <1>0, <1>3, <1>4 DEF FitInFirstByte, CallTypes, BufferOK
  <2>2. BufferOK'
    BY <1>3, <1>4, <2>1, OrBitsKeepsRest, StayInByteKeepsBuffer
       DEF FitInFirstByte
  <2>3. QED
    BY <1>4, <2>2, ReturnPreserves DEF FitInFirstByte
<1>5. CASE FillFirstByte
  <2> DEFINE room == 8 - m_cur_bit
  <2>0. call.n >= room
    BY <1>5 DEF FillFirstByte
  <2>1. /\ room \in 1 .. 8 /\ get_bits_size + room = 8 * m_cur_byte + 8
        /\ call.n - room \in Nat
    BY <1>0, <1>3, <2>0 DEF BufferOK, get_bits_size, CallTypes
  <2>2. next_byte(OrBits(room, call.word, 0))
        /\ call' = [call EXCEPT !.pc = "full", !.n = call.n - room,
                                !.done = room]
    BY <1>5 DEF FillFirstByte
  <2> HIDE DEF room
  <2>3. BufferOK' /\ m_cur_bit' = 0
    BY <1>3, <2>1, <2>2, OrBitsKeepsRest, NextByteKeepsBuffer
  <2>4. /\ call'.pc = "full"
        /\ call'.i = call.i /\ call'.n = call.n - room
    BY <1>0, <2>2 DEF CallTypes
  <2>t. call' \in CallTypes
    <3> DEFINE n == call.n - room
    <3>1. n \in Nat /\ room \in Nat /\ "full" \in Phases
      BY <2>1 DEF Phases
    <3>2. call' = [call EXCEPT !.pc = "full", !.n = n, !.done = room]
      BY <2>2
    <3> HIDE DEF n
    <3>3. QED
      BY <1>0, <3>1, <3>2 DEF CallTypes
  <2>5. call.i = 0
    BY <1>5 DEF FillFirstByte, IInv, CallLocals
  <2>6. CallLocals'
    BY <2>1, <2>3, <2>4, <2>5 DEF CallLocals
  <2>7. QED
    BY <2>3, <2>4, <2>t, <2>6, InvariantFromBuffer DEF CallTypes
<1>6. CASE FullByte
  <2>1. /\ call.n >= 8 /\ call.pc = "full" /\ call.i = 0
        /\ next_byte(AssignByte(call.word, call.done))
        /\ call' = [call EXCEPT !.n = call.n - 8, !.done = call.done + 8]
    BY <1>6 DEF FullByte, IInv, CallLocals
  <2>2. call.word \in Seq(Bit) /\ call.done \in Nat
    BY <1>0 DEF CallTypes
  <2>3. BufferOK' /\ m_cur_bit' = 0
    BY <1>3, <2>1, <2>2, AssignByteKeepsRest, NextByteKeepsBuffer
  <2>4. call'.pc = "full" /\ call'.i = 0 /\ call'.n = call.n - 8
    BY <1>0, <2>1 DEF CallTypes
  <2>t. call' \in CallTypes
    <3> DEFINE n == call.n - 8  done == call.done + 8
    <3>1. n \in Nat /\ done \in Nat
      BY <1>0, <2>1 DEF CallTypes
    <3>2. call' = [call EXCEPT !.n = n, !.done = done]
      BY <2>1
    <3> HIDE DEF n, done
    <3>3. QED
      BY <1>0, <3>1, <3>2 DEF CallTypes
  <2>5. CallLocals'
    BY <2>3, <2>4, <2>t DEF CallLocals, CallTypes
  <2>6. QED
    BY <2>3, <2>4, <2>t, <2>5, InvariantFromBuffer DEF CallTypes
<1>7. CASE LastBits
  <2>1. call.n \in Nat /\ call.n < 8 /\ m_cur_bit = 0 /\ Return
    BY <1>0, <1>7 DEF LastBits, IInv, CallLocals, CallTypes
  <2>2. CASE call.n = 0
    BY <1>3, <1>7, <2>1, <2>2, UnchangedBuffer, ReturnPreserves DEF LastBits
  <2>3. CASE call.n # 0
    <3>1. stay_in_byte(OrBits(call.n, call.word, call.done), call.n)
      BY <1>7, <2>3 DEF LastBits
    <3>2. BufferOK'
      BY <1>3, <2>1, <3>1, OrBitsKeepsRest, StayInByteKeepsBuffer
    <3>3. QED
      BY <2>1, <3>2, ReturnPreserves
  <2>4. QED
    BY <2>2, <2>3
<1>8. CASE AlignBit
  <2>1. CASE call.n = 0
    BY <1>3, <1>8, <2>1, UnchangedBuffer, ReturnPreserves DEF AlignBit
  <2>2. CASE call.n # 0
    <3>1. /\ put_bit(call.word, 0) /\ call' = [call EXCEPT !.n = call.n - 1]
          /\ call.pc = "align"
      BY <1>8, <2>2 DEF AlignBit
    <3>2. BufferOK'
      BY <1>3, <3>1, PutBitKeepsBuffer
    <3>3. call'.pc = "align" /\ call'.i = call.i /\ call'.word = call.word
      BY <1>0, <3>1 DEF CallTypes
    <3>t. call' \in CallTypes
      <4> DEFINE n == call.n - 1
      <4>1. n \in Nat
        BY <1>0, <2>2 DEF CallTypes
      <4>2. call' = [call EXCEPT !.n = n]
        BY <3>1
      <4> HIDE DEF n
      <4>3. QED
        BY <1>0, <4>1, <4>2 DEF CallTypes
    <3>4. CallLocals'
      BY <3>1, <3>3, <3>t DEF IInv, CallLocals, CallTypes
    <3>5. QED
      BY <3>2, <3>3, <3>t, <3>4, InvariantFromBuffer DEF CallTypes
  <2>3. QED
    BY <2>1, <2>2
<1>9. CASE AppendByte
  <2>1. /\ call.n >= 8 /\ call.pc = "bytes" /\ call.i = 0 /\ m_cur_bit = 0
        /\ call.done = 8 * call.p + call.i
        /\ next_byte(OrBits(8, call.word, 8 * call.p))
        /\ call' = [call EXCEPT !.n = call.n - 8, !.p = call.p + 1,
                                !.done = call.done + 8]
    BY <1>9 DEF AppendByte, IInv, CallLocals
  <2>2. get_bits_size + 8 = 8 * m_cur_byte + 8
    BY <1>3, <2>1 DEF get_bits_size, BufferOK
  <2>3. BufferOK' /\ m_cur_bit' = 0
    BY <1>3, <2>1, <2>2, OrBitsKeepsRest, NextByteKeepsBuffer
  <2>4. /\ call'.pc = "bytes" /\ call'.i = 0
        /\ call'.p = call.p + 1 /\ call'.done = call.done + 8
    BY <1>0, <2>1 DEF CallTypes
  <2>t. call' \in CallTypes
    <3> DEFINE n == call.n - 8  p == call.p + 1  done == call.done + 8
    <3>1. n \in Nat /\ p \in Nat /\ done \in Nat
      BY <1>0, <2>1 DEF CallTypes
    <3>2. call' = [call EXCEPT !.n = n, !.p = p, !.done = done]
      BY <2>1
    <3> HIDE DEF n, p, done
    <3>3. QED
      BY <1>0, <3>1, <3>2 DEF CallTypes
  <2>5. CallLocals'
    BY <1>0, <2>1, <2>3, <2>4, <2>t DEF CallLocals, CallTypes
  <2>6. QED
    BY <2>3, <2>4, <2>t, <2>5, InvariantFromBuffer DEF CallTypes
<1>10. CASE AppendHead
  <2> DEFINE room == 8 - call.offset
  <2>1. /\ call.n >= room /\ call.pc = "head" /\ call.i = 0
        /\ m_cur_bit = call.offset /\ call.offset # 0 /\ call.p = 0
        /\ next_byte(OrBits(room, call.word, 0))
        /\ call' = [call EXCEPT !.pc = "shifted", !.n = call.n - room,
                                !.done = room]
    BY <1>10 DEF AppendHead, IInv, CallLocals
  <2>2. room \in 1 .. 8 /\ get_bits_size + room = 8 * m_cur_byte + 8
    BY <1>0, <1>3, <2>1 DEF get_bits_size, BufferOK, CallTypes
  <2>3. BufferOK' /\ m_cur_bit' = 0
    <3> HIDE DEF room
    <3>1. QED
      BY <1>3, <2>1, <2>2, OrBitsKeepsRest, NextByteKeepsBuffer
  <2>4. /\ call'.pc = "shifted" /\ call'.i = 0
        /\ call'.p = 0 /\ call'.done = room /\ call'.offset = call.offset
    BY <1>0, <2>1 DEF CallTypes
  <2>t. call' \in CallTypes
    <3> DEFINE n == call.n - room
    <3>1. n \in Nat /\ room \in Nat /\ "shifted" \in Phases
      BY <1>0, <2>1, <2>2 DEF CallTypes, Phases
    <3>2. call' = [call EXCEPT !.pc = "shifted", !.n = n, !.done = room]
      BY <2>1
    <3> HIDE DEF n, room
    <3>3. QED
      BY <1>0, <3>1, <3>2 DEF CallTypes
  <2>5. CallLocals'
    BY <1>0, <2>1, <2>3, <2>4, <2>t DEF CallLocals, CallTypes
  <2>6. QED
    BY <2>3, <2>4, <2>t, <2>5, InvariantFromBuffer DEF CallTypes
<1>11. CASE AppendShifted
  <2> DEFINE from == 8 * call.p + (8 - call.offset)
  <2>1. /\ call.n >= 8 /\ call.pc = "shifted" /\ call.i = 0
        /\ call.offset # 0
        /\ call.done = 8 - call.offset + 8 * call.p + call.i
        /\ next_byte(AssignByte(call.word, from))
        /\ call' = [call EXCEPT !.n = call.n - 8, !.p = call.p + 1,
                                !.done = call.done + 8]
    BY <1>11 DEF AppendShifted, IInv, CallLocals
  <2>2. call.word \in Seq(Bit) /\ from \in Nat
    BY <1>0 DEF CallTypes
  <2>3. BufferOK' /\ m_cur_bit' = 0
    <3> HIDE DEF from
    <3>1. QED
      BY <1>3, <2>1, <2>2, AssignByteKeepsRest, NextByteKeepsBuffer
  <2>4. /\ call'.pc = "shifted" /\ call'.i = 0
        /\ call'.p = call.p + 1 /\ call'.done = call.done + 8
        /\ call'.offset = call.offset
    BY <1>0, <2>1 DEF CallTypes
  <2>t. call' \in CallTypes
    <3> DEFINE n == call.n - 8  p == call.p + 1  done == call.done + 8
    <3>1. n \in Nat /\ p \in Nat /\ done \in Nat
      BY <1>0, <2>1 DEF CallTypes
    <3>2. call' = [call EXCEPT !.n = n, !.p = p, !.done = done]
      BY <2>1
    <3> HIDE DEF n, p, done
    <3>3. QED
      BY <1>0, <3>1, <3>2 DEF CallTypes
  <2>5. CallLocals'
    <3>1. call'.done = 8 - call'.offset + 8 * call'.p + call'.i
      <4>1. call.done = 8 - call.offset + 8 * call.p /\ call.i = 0
        BY <1>0, <2>1 DEF CallTypes
      <4>2. QED
        BY <1>0, <2>4, <4>1 DEF CallTypes
    <3>2. call'.n \in Nat /\ call'.offset # 0
      BY <2>1, <2>4, <2>t DEF CallTypes
    <3>3. QED
      BY <2>3, <2>4, <3>1, <3>2 DEF CallLocals
  <2>6. QED
    BY <2>3, <2>4, <2>t, <2>5, InvariantFromBuffer DEF CallTypes
<1>12. CASE AppendTail
  <2>1. /\ \/ call.pc \in {"bytes", "shifted"} /\ call.n < 8
           \/ call.pc = "head" /\ call.n < 8 - call.offset
        /\ call.pc # "idle"
    BY <1>12 DEF AppendTail
  <2>2. CASE ~ (call.i < call.n)
    BY <1>3, <1>12, <2>2, UnchangedBuffer, ReturnPreserves DEF AppendTail
  <2>3. CASE call.i < call.n
    <3>1. /\ put_bit(call.word, TailBit)
          /\ call' = [call EXCEPT !.i = call.i + 1, !.done = call.done + 1]
      BY <1>12, <2>3 DEF AppendTail
    <3>2. BufferOK'
      BY <1>3, <3>1, PutBitKeepsBuffer
    <3>3. /\ call'.pc = call.pc /\ call'.n = call.n
          /\ call'.i = call.i + 1 /\ call'.done = call.done + 1
          /\ call'.offset = call.offset /\ call'.p = call.p
      BY <1>0, <3>1 DEF CallTypes
    <3>t. call' \in CallTypes
      <4> DEFINE i == call.i + 1  done == call.done + 1
      <4>1. i \in Nat /\ done \in Nat
        BY <1>0 DEF CallTypes
      <4>2. call' = [call EXCEPT !.i = i, !.done = done]
        BY <3>1
      <4> HIDE DEF i, done
      <4>3. QED
        BY <1>0, <4>1, <4>2 DEF CallTypes
    <3>4. CallLocals'
      <4>1. call'.i <= call'.n
        BY <1>0, <2>3, <3>3 DEF CallTypes
      <4>2. CASE call.pc = "bytes"
        <5>1. call'.done = 8 * call'.p + call'.i
          BY <1>0, <3>3, <4>2 DEF IInv, CallLocals, CallTypes
        <5>2. QED
          BY <1>0, <2>1, <3>3, <4>1, <4>2, <5>1 DEF CallLocals, CallTypes
      <4>3. CASE call.pc = "shifted"
        <5>1. call'.done = 8 - call'.offset + 8 * call'.p + call'.i
              /\ call'.offset # 0
          <6>1. call.done = 8 - call.offset + 8 * call.p + call.i
                /\ call.offset # 0
            BY <4>3 DEF IInv, CallLocals
          <6>2. /\ call.done \in Int /\ call.offset \in Int
                /\ call.p \in Int /\ call.i \in Int
            BY <1>0 DEF CallTypes
          <6>3. /\ call'.done = call.done + 1 /\ call'.offset = call.offset
                /\ call'.p = call.p /\ call'.i = call.i + 1
            BY <3>3
          <6>4. QED
            BY ONLY <6>1, <6>2, <6>3
        <5>2. QED
          BY <1>0, <2>1, <3>3, <4>1, <4>3, <5>1 DEF CallLocals, CallTypes
      <4>4. CASE call.pc = "head"
        <5>1. call'.done = call'.i /\ call'.p = 0 /\ call'.offset # 0
          BY <1>0, <3>3, <4>4 DEF IInv, CallLocals, CallTypes
        <5>2. QED
          BY <1>0, <2>1, <3>3, <4>1, <4>4, <5>1 DEF CallLocals, CallTypes
      <4>5. QED
        BY <2>1, <4>2, <4>3, <4>4
    <3>5. QED
      BY <2>1, <3>2, <3>3, <3>t, <3>4, InvariantFromBuffer DEF CallTypes
  <2>4. QED
    BY <2>2, <2>3
<1>13. QED
  BY <1>4, <1>5, <1>6, <1>7, <1>8, <1>9, <1>10, <1>11, <1>12
     DEF Step, RoundUpCap, Constructed

\* The steps by which a caller starts a call, or writes one bit.
LEMMA CallsPreserve ==
  ASSUME IInv,
         \/ \E b \in Bits : write_bit(b) \/ align_to_byte(b)
         \/ \E word \in Words, n \in Lengths :
              \/ \E little_end \in BOOLEAN : write_bits(word, n, little_end)
              \/ append(word, n)
  PROVE  IInv'
<1>0. call \in CallTypes
  BY DEF IInv, TypeOK, CallTypes
<1>1. call.pc = "idle" /\ BufferOK
  <2>1. call.pc = "idle"
    BY DEF write_bit, align_to_byte, write_bits, append
  <2>2. QED
    BY <2>1, BufferFromInvariant
<1>2. ASSUME NEW b \in Bits, write_bit(b)
      PROVE  IInv'
  <2>1. put_bit(<<b>>, 0) /\ call' = call
    BY <1>2 DEF write_bit
  <2>2. BufferOK'
    BY <1>1, <2>1, PutBitKeepsBuffer
  <2>3. CallLocals'
    BY <1>1, <2>1 DEF IInv, CallLocals
  <2>4. QED
    BY <1>0, <1>1, <2>1, <2>2, <2>3, InvariantFromBuffer DEF CallTypes
<1>3. ASSUME NEW b \in Bits, align_to_byte(b)
      PROVE  IInv'
  <2> DEFINE word == [k \in 1 .. 8 |-> b]
  <2>1. stream_unchanged /\ call' = Call("align", word, 8 - m_cur_bit, 0)
    BY <1>3 DEF align_to_byte
  <2>2. /\ word \in Seq(Bit) /\ \E c \in Bit : word = [k \in 1 .. 8 |-> c]
        /\ 8 - m_cur_bit \in Nat /\ "align" \in Phases /\ 0 \in 0 .. 7
    BY <1>1, BitStreamAssumption DEF BufferOK, Phases
  <2> HIDE DEF word
  <2>3. /\ call' \in CallTypes
        /\ call'.pc = "align" /\ call'.i = 0 /\ call'.word = word
    <3> DEFINE c == Call("align", word, 8 - m_cur_bit, 0)
    <3>1. c.pc = "align" /\ c.i = 0 /\ c.word = word
      BY DEF Call
    <3>3. c \in CallTypes
      <4>1. c = [pc |-> "align", word |-> word, n |-> 8 - m_cur_bit,
                 done |-> 0, offset |-> 0, p |-> 0, i |-> 0]
        BY DEF Call
      <4>2. /\ word \in Seq(Bit) /\ 8 - m_cur_bit \in Nat
            /\ "align" \in Phases /\ 0 \in 0 .. 7
        BY <2>2
      <4> HIDE DEF c
      <4>3. QED
        BY ONLY <4>1, <4>2 DEF CallTypes
    <3>2. call' = c
      BY <2>1
    <3> HIDE DEF c
    <3>4. QED
      BY <3>1, <3>2, <3>3
  <2>4. CallLocals'
    BY <2>2, <2>3 DEF CallLocals, CallTypes
  <2>5. QED
    BY <1>1, <2>1, <2>3, <2>4, UnchangedBuffer, InvariantFromBuffer
       DEF CallTypes
<1>4. ASSUME NEW word \in Words, NEW n \in Lengths, NEW little_end \in BOOLEAN,
             write_bits(word, n, little_end)
      PROVE  IInv'
  <2> DEFINE payload == IF little_end THEN word ELSE reverse_bits(word, n)
  <2>1. stream_unchanged /\ call' = Call("first", payload, n, 0)
    BY <1>4 DEF write_bits
  <2>2. word \in Seq(Bit) /\ n \in Nat
    BY BitStreamAssumption
  <2>3. reverse_bits(word, n) \in Seq(Bit)
    <3>1. \A k \in 1 .. n : BitOf(word, n - k) \in Bit
      BY <2>2, BitOfIsBit
    <3>2. QED
      BY <2>2, <3>1 DEF reverse_bits
  <2>4. payload \in Seq(Bit) /\ "first" \in Phases /\ 0 \in 0 .. 7
    BY <2>2, <2>3 DEF Phases
  <2> HIDE DEF payload
  <2>5. /\ call' \in CallTypes
        /\ call'.pc = "first" /\ call'.i = 0 /\ call'.done = 0
    <3> DEFINE c == Call("first", payload, n, 0)
    <3>1. c \in CallTypes /\ c.pc = "first" /\ c.i = 0 /\ c.done = 0
      BY <2>2, <2>4, CallType DEF CallTypes
    <3>2. call' = c
      BY <2>1
    <3> HIDE DEF c
    <3>3. QED
      BY <3>1, <3>2
  <2>6. CallLocals'
    BY <2>5 DEF CallLocals, CallTypes
  <2>7. QED
    BY <1>1, <2>1, <2>5, <2>6, UnchangedBuffer, InvariantFromBuffer
       DEF CallTypes
<1>5. ASSUME NEW word \in Words, NEW n \in Lengths, append(word, n)
      PROVE  IInv'
  <2> DEFINE rhs == [k \in 1 .. n |-> BitOf(word, k - 1)]
             pc  == IF m_cur_bit = 0 THEN "bytes" ELSE "head"
  <2>1. stream_unchanged /\ call' = Call(pc, rhs, n, m_cur_bit)
    BY <1>5 DEF append
  <2>2. word \in Seq(Bit) /\ n \in Nat
    BY BitStreamAssumption
  <2>3. rhs \in Seq(Bit)
    <3>1. \A k \in 1 .. n : BitOf(word, k - 1) \in Bit
      BY <2>2, BitOfIsBit
    <3>2. QED
      BY <2>2, <3>1
  <2>4. /\ pc \in Phases /\ m_cur_bit \in 0 .. 7
        /\ pc \in {"bytes", "head"}
        /\ pc = "bytes" <=> m_cur_bit = 0
    BY <1>1 DEF Phases, BufferOK
  <2> HIDE DEF rhs, pc
  <2>5. /\ call' \in CallTypes
        /\ call'.pc = pc /\ call'.i = 0 /\ call'.done = 0 /\ call'.p = 0
        /\ call'.offset = m_cur_bit /\ call'.n = n
    <3> DEFINE c == Call(pc, rhs, n, m_cur_bit)
    <3>1. /\ c.pc = pc /\ c.i = 0 /\ c.done = 0 /\ c.p = 0
          /\ c.offset = m_cur_bit /\ c.n = n
      BY DEF Call
    <3>3. c \in CallTypes
      <4>1. c = [pc |-> pc, word |-> rhs, n |-> n,
                 done |-> 0, offset |-> m_cur_bit, p |-> 0, i |-> 0]
        BY DEF Call
      <4>2. QED
        BY <2>2, <2>3, <2>4, <4>1 DEF CallTypes
    <3>2. call' = c
      BY <2>1
    <3> HIDE DEF c
    <3>4. QED
      BY <3>1, <3>2, <3>3
  <2>6. m_cur_bit' = m_cur_bit
    BY <2>1 DEF stream_unchanged
  <2>7. CallLocals'
    BY <2>2, <2>4, <2>5, <2>6 DEF CallLocals
  <2>8. QED
    BY <1>1, <2>1, <2>4, <2>5, <2>7, UnchangedBuffer, InvariantFromBuffer
       DEF CallTypes
<1>6. QED
  BY <1>2, <1>3, <1>4, <1>5

LEMMA StutterPreserves ==
  ASSUME IInv, UNCHANGED vars
  PROVE  IInv'
  BY DEF IInv, vars, TypeOK, CursorInBuffer, CleanTail, CallLocals,
         get_bits_size

LEMMA NextPreserves == IInv /\ [Next]_vars => IInv'
  BY StepPreserves, CallsPreserve, StutterPreserves DEF Next

\* The locals of a call always mean what CallLocals says, on top of the
\* three properties below.
THEOREM Invariant == Spec => []IInv
  BY InitEstablishes, NextPreserves, PTL DEF Spec

\* The stream and the call in progress have their types, whatever is written.
THEOREM TypeCorrect == Spec => []TypeOK
  BY Invariant, PTL DEF IInv

\* No call ever writes, or reads for |=, behind the vector's storage
\* (next_byte expands before the cursor can rest on m_buffer_end).
THEOREM CursorStaysInBuffer == Spec => []CursorInBuffer
  BY Invariant, PTL DEF IInv

\* The bits from the cursor on are 0, so that |= writes what it is given and
\* the last exported byte is padded with 0.
THEOREM TailStaysClean == Spec => []CleanTail
  BY Invariant, PTL DEF IInv
-------------------------------------------------------------------------------
(* The stream is a log: a step of a call takes the next bits of its        *)
(* request, and leaves the bits that are in the stream alone.              *)

\* A step wrote n bits of word, from bit `from` on, at the cursor.
Wrote(n, word, from) ==
  /\ get_bits_size' = get_bits_size + n
  /\ \A x \in 0 .. get_bits_size - 1 : m_bytes'[x] = m_bytes[x]
  /\ \A j \in 0 .. n - 1 : m_bytes'[get_bits_size + j] = BitOf(word, from + j)

\* Bit k of what the call in progress has still to write.
TodoBit(k) == IF call.pc = "align" THEN call.word[1]
                                   ELSE BitOf(call.word, call.done + k)

LEMMA SizeFits ==
  ASSUME BufferOK
  PROVE  /\ get_bits_size \in Nat /\ get_bits_size < 8 * m_cap
         /\ get_bits_size <= 8 * get_bytes_size
         /\ DOMAIN m_bytes = 0 .. 8 * m_cap - 1
  BY DEF BufferOK, CursorInBuffer, get_bits_size, get_bytes_size

\* Or-ing into clean bits writes them, and nothing else.
LEMMA OrBitsWrites ==
  ASSUME BufferOK, NEW word \in Seq(Bit), NEW from \in Nat, NEW k \in Nat,
         m_cur_bit + k <= 8
  PROVE  /\ \A x \in 0 .. get_bits_size - 1 :
              OrBits(k, word, from)[x] = m_bytes[x]
         /\ \A j \in 0 .. k - 1 :
              OrBits(k, word, from)[get_bits_size + j] = BitOf(word, from + j)
<1>1. /\ get_bits_size \in Nat /\ get_bits_size + k <= 8 * m_cap
      /\ DOMAIN m_bytes = 0 .. 8 * m_cap - 1
  BY DEF BufferOK, CursorInBuffer, get_bits_size
<1>2. \A x \in 0 .. get_bits_size - 1 : OrBits(k, word, from)[x] = m_bytes[x]
  BY <1>1 DEF OrBits, BufferOK
<1>3. ASSUME NEW j \in 0 .. k - 1
      PROVE  OrBits(k, word, from)[get_bits_size + j] = BitOf(word, from + j)
  <2> DEFINE x == get_bits_size + j
  <2>1. /\ x \in 0 .. 8 * m_cap - 1 /\ get_bits_size <= x
        /\ x < get_bits_size + k /\ from + x - get_bits_size = from + j
    BY <1>1 DEF BufferOK
  <2>2. m_bytes[x] = 0
    BY <1>1, <2>1 DEF BufferOK, CleanTail
  <2>3. BitOf(word, from + j) \in Bit
    BY BitOfIsBit
  <2>4. OrBits(k, word, from)[x] =
          IF BitOf(word, from + j) = 1 THEN 1 ELSE m_bytes[x]
    <3> HIDE DEF x
    <3>1. QED
      BY <1>1, <2>1 DEF OrBits
  <2> HIDE DEF x
  <2>5. OrBits(k, word, from)[x] = BitOf(word, from + j)
    BY <2>2, <2>3, <2>4 DEF Bit
  <2>6. QED
    BY <2>5 DEF x
<1>4. QED
  BY <1>2, <1>3

LEMMA AssignByteWrites ==
  ASSUME BufferOK, NEW word \in Seq(Bit), NEW from \in Nat, m_cur_bit = 0
  PROVE  /\ \A x \in 0 .. get_bits_size - 1 :
              AssignByte(word, from)[x] = m_bytes[x]
         /\ \A j \in 0 .. 7 :
              AssignByte(word, from)[get_bits_size + j] = BitOf(word, from + j)
<1>1. /\ get_bits_size = 8 * m_cur_byte /\ get_bits_size \in Nat
      /\ get_bits_size + 8 <= 8 * m_cap
      /\ DOMAIN m_bytes = 0 .. 8 * m_cap - 1
  BY DEF BufferOK, CursorInBuffer, get_bits_size
<1>2. \A x \in 0 .. get_bits_size - 1 : AssignByte(word, from)[x] = m_bytes[x]
  BY <1>1 DEF AssignByte, BufferOK
<1>3. ASSUME NEW j \in 0 .. 7
      PROVE  AssignByte(word, from)[get_bits_size + j] = BitOf(word, from + j)
  <2> DEFINE x == get_bits_size + j
  <2>1. /\ x \in 0 .. 8 * m_cap - 1 /\ 8 * m_cur_byte <= x
        /\ x < 8 * m_cur_byte + 8 /\ from + x - 8 * m_cur_byte = from + j
    BY <1>1 DEF BufferOK
  <2> HIDE DEF x
  <2>2. AssignByte(word, from)[x] = BitOf(word, from + j)
    BY <1>1, <2>1 DEF AssignByte
  <2>3. QED
    BY <2>2 DEF x
<1>4. QED
  BY <1>2, <1>3

\* Filling the current byte, growing the vector or not, writes its last bits.
LEMMA NextByteWrites ==
  ASSUME BufferOK, NEW k \in Nat, m_cur_bit + k = 8,
         NEW word, NEW from, NEW mem \in [0 .. 8 * m_cap - 1 -> Bit],
         next_byte(mem),
         \A x \in 0 .. get_bits_size - 1 : mem[x] = m_bytes[x],
         \A j \in 0 .. k - 1 : mem[get_bits_size + j] = BitOf(word, from + j)
  PROVE  Wrote(k, word, from)
<1>1. /\ get_bits_size \in Nat /\ get_bits_size + k = 8 * (m_cur_byte + 1)
      /\ get_bits_size + k <= 8 * m_cap
  BY DEF BufferOK, CursorInBuffer, get_bits_size
<1>2. get_bits_size' = get_bits_size + k
  BY <1>1 DEF next_byte, get_bits_size, BufferOK
<1>3. \A x \in 0 .. get_bits_size + k - 1 : m_bytes'[x] = mem[x]
  <2>1. CASE m_cur_byte + 1 = m_cap
    <3>1. m_bytes' = resize(mem, 2 * m_cap)
      BY <2>1 DEF next_byte
    <3>2. QED
      BY <1>1, <3>1 DEF resize, BufferOK
  <2>2. CASE m_cur_byte + 1 # m_cap
    BY <2>2 DEF next_byte
  <2>3. QED
    BY <2>1, <2>2
<1>4. \A x \in 0 .. get_bits_size - 1 : m_bytes'[x] = m_bytes[x]
  BY <1>1, <1>3
<1>5. ASSUME NEW j \in 0 .. k - 1
      PROVE  m_bytes'[get_bits_size + j] = BitOf(word, from + j)
  <2>1. get_bits_size + j \in 0 .. get_bits_size + k - 1
    BY <1>1
  <2>2. QED
    BY <1>3, <2>1
<1>6. QED
  BY <1>2, <1>4, <1>5 DEF Wrote

LEMMA FillByOr ==
  ASSUME BufferOK, NEW k \in Nat, m_cur_bit + k = 8,
         NEW word \in Seq(Bit), NEW from \in Nat,
         next_byte(OrBits(k, word, from))
  PROVE  Wrote(k, word, from)
<1> DEFINE mem == OrBits(k, word, from)
<1>1. mem \in [0 .. 8 * m_cap - 1 -> Bit]
  BY OrBitsKeepsRest
<1>2. m_cur_bit + k <= 8
  BY DEF BufferOK
<1>3. /\ \A x \in 0 .. get_bits_size - 1 : mem[x] = m_bytes[x]
      /\ \A j \in 0 .. k - 1 : mem[get_bits_size + j] = BitOf(word, from + j)
  BY <1>2, OrBitsWrites
<1>4. next_byte(mem)
  OBVIOUS
<1> HIDE DEF mem
<1>5. QED
  BY <1>1, <1>3, <1>4, NextByteWrites

LEMMA FillByAssignment ==
  ASSUME BufferOK, m_cur_bit = 0, NEW word \in Seq(Bit), NEW from \in Nat,
         next_byte(AssignByte(word, from))
  PROVE  Wrote(8, word, from)
<1> DEFINE mem == AssignByte(word, from)
<1>1. mem \in [0 .. 8 * m_cap - 1 -> Bit]
  BY AssignByteKeepsRest
<1>2. /\ \A x \in 0 .. get_bits_size - 1 : mem[x] = m_bytes[x]
      /\ \A j \in 0 .. 8 - 1 : mem[get_bits_size + j] = BitOf(word, from + j)
  BY AssignByteWrites
<1>3. next_byte(mem) /\ m_cur_bit + 8 = 8
  OBVIOUS
<1> HIDE DEF mem
<1>4. QED
  BY <1>1, <1>2, <1>3, NextByteWrites

LEMMA StayInByteWrites ==
  ASSUME BufferOK, NEW k \in Nat, m_cur_bit + k < 8,
         NEW word \in Seq(Bit), NEW from \in Nat,
         stay_in_byte(OrBits(k, word, from), k)
  PROVE  Wrote(k, word, from)
<1>1. m_bytes' = OrBits(k, word, from)
  BY DEF stay_in_byte
<1>2. get_bits_size' = get_bits_size + k
  BY DEF stay_in_byte, get_bits_size, BufferOK
<1>3. m_cur_bit + k <= 8
  BY DEF BufferOK
<1>4. QED
  BY <1>1, <1>2, <1>3, OrBitsWrites DEF Wrote

LEMMA PutBitWrites ==
  ASSUME BufferOK, NEW word \in Seq(Bit), NEW k \in Nat, put_bit(word, k)
  PROVE  Wrote(1, word, k)
<1>1. CASE m_cur_bit + 1 = 8
  <2>1. next_byte(OrBits(1, word, k))
    BY <1>1 DEF put_bit
  <2>2. QED
    BY <1>1, <2>1, OrBitsKeepsRest, OrBitsWrites, NextByteWrites
<1>2. CASE m_cur_bit + 1 # 8
  <2>1. stay_in_byte(OrBits(1, word, k), 1) /\ m_cur_bit + 1 < 8
    BY <1>2 DEF put_bit, BufferOK
  <2>2. QED
    BY <2>1, StayInByteWrites
<1>3. QED
  BY <1>1, <1>2

-------------------------------------------------------------------------------
(* The log the stream stands for.                                          *)

LogBits == [k \in 0 .. get_bits_size - 1 |-> export_bitstream[k]]

LogTodo == [k \in 0 .. Remaining - 1 |-> TodoBit(k)]

LEMMA LogBitsAre ==
  IInv => /\ get_bits_size \in Nat
          /\ LogBits = [k \in 0 .. get_bits_size - 1 |-> m_bytes[k]]
          /\ \A k \in 0 .. get_bits_size - 1 : m_bytes[k] \in Bit
<1> SUFFICES ASSUME IInv
             PROVE  /\ get_bits_size \in Nat
                    /\ LogBits = [k \in 0 .. get_bits_size - 1 |-> m_bytes[k]]
                    /\ \A k \in 0 .. get_bits_size - 1 : m_bytes[k] \in Bit
  OBVIOUS
<1>1. get_bits_size \in Nat /\ get_bits_size <= 8 * get_bytes_size
      /\ get_bytes_size \in Nat
  BY DEF IInv, TypeOK, get_bits_size, get_bytes_size
<1>2. LogBits = [k \in 0 .. get_bits_size - 1 |-> m_bytes[k]]
  <2>1. ASSUME NEW k \in 0 .. get_bits_size - 1
        PROVE  export_bitstream[k] = m_bytes[k]
    <3>1. k \in 0 .. 8 * get_bytes_size - 1
      BY <1>1
    <3>2. QED
      BY <3>1 DEF export_bitstream
  <2>2. QED
    BY <2>1 DEF LogBits
<1>3. CASE call.pc = "construct"
  <2>1. get_bits_size = 0
    BY <1>3 DEF IInv, CallLocals, get_bits_size
  <2>2. QED
    BY <1>1, <1>2, <2>1
<1>4. CASE call.pc # "construct"
  <2>1. BufferOK
    BY <1>4, BufferFromInvariant
  <2>2. \A k \in 0 .. get_bits_size - 1 : m_bytes[k] \in Bit
    BY <2>1, SizeFits DEF BufferOK
  <2>3. QED
    BY <1>1, <1>2, <2>2
<1>5. QED
  BY <1>3, <1>4

LEMMA RemainingType ==
  IInv => /\ Remaining \in Nat
          /\ call.pc # "construct" => Remaining = call.n - call.i
          /\ call.pc \in {"construct", "idle"} => Remaining = 0
<1> SUFFICES ASSUME IInv
             PROVE  /\ Remaining \in Nat
                    /\ call.pc # "construct" => Remaining = call.n - call.i
                    /\ call.pc \in {"construct", "idle"} => Remaining = 0
  OBVIOUS
<1>1. call.n \in Nat /\ call.i \in Nat /\ call.i <= call.n
  BY DEF IInv, TypeOK, CallLocals
<1>2. call.pc = "idle" => call.n = 0
  BY DEF IInv, CallLocals
<1>3. QED
  BY <1>1, <1>2 DEF Remaining

LEMMA TodoIsRun ==
  IInv => LogTodo \in [0 .. Remaining - 1 -> Bit]
<1> SUFFICES ASSUME IInv, NEW k \in 0 .. Remaining - 1
             PROVE  TodoBit(k) \in Bit
  BY DEF LogTodo
<1>1. call.word \in Seq(Bit) /\ call.done \in Nat
  BY DEF IInv, TypeOK
<1>2. CASE call.pc = "align"
  <2>1. PICK b \in Bit : call.word = [j \in 1 .. 8 |-> b]
    BY <1>2 DEF IInv, CallLocals
  <2>2. call.word[1] = b
    BY <2>1
  <2>3. QED
    BY <1>2, <2>2 DEF TodoBit
<1>3. CASE call.pc # "align"
  <2>1. BitOf(call.word, call.done + k) \in Bit
    BY <1>1, RemainingType, BitOfIsBit
  <2>2. QED
    BY <1>3, <2>1 DEF TodoBit
<1>4. QED
  BY <1>2, <1>3

\* A step that writes the next n bits of the request, and counts them off,
\* is a Take(n) of the log.
LEMMA TakesBits ==
  ASSUME IInv, IInv', NEW n \in 1 .. Remaining,
         NEW word, NEW from,
         Wrote(n, word, from),
         \A j \in 0 .. n - 1 : BitOf(word, from + j) = TodoBit(j),
         Remaining' = Remaining - n,
         \A k \in 0 .. Remaining - n - 1 : TodoBit(k)' = TodoBit(k + n)
  PROVE  Log!Next
<1>0. Remaining \in Nat /\ n \in Nat /\ get_bits_size \in Nat
  BY RemainingType, LogBitsAre
<1>1. get_bits_size' = get_bits_size + n
  BY DEF Wrote
<1>2. LogBits' = [k \in 0 .. get_bits_size + n - 1 |->
                    IF k < get_bits_size THEN LogBits[k]
                                         ELSE LogTodo[k - get_bits_size]]
  <2>1. LogBits' = [k \in 0 .. get_bits_size' - 1 |-> m_bytes'[k]]
    <3>1. (IInv => LogBits = [k \in 0 .. get_bits_size - 1 |-> m_bytes[k]])'
      BY LogBitsAre, PTL
    <3>2. QED
      BY <3>1
  <2>2. LogBits = [k \in 0 .. get_bits_size - 1 |-> m_bytes[k]]
    BY LogBitsAre
  <2>3. ASSUME NEW k \in 0 .. get_bits_size + n - 1
        PROVE  m_bytes'[k] = IF k < get_bits_size
                             THEN LogBits[k] ELSE LogTodo[k - get_bits_size]
    <3>1. CASE k < get_bits_size
      <4>1. k \in 0 .. get_bits_size - 1
        BY <1>0, <3>1
      <4>2. m_bytes'[k] = m_bytes[k]
        BY <4>1 DEF Wrote
      <4>3. LogBits[k] = m_bytes[k]
        BY <2>2, <4>1
      <4>4. QED
        BY <3>1, <4>2, <4>3
    <3>2. CASE ~ (k < get_bits_size)
      <4> DEFINE j == k - get_bits_size
      <4>1. j \in 0 .. n - 1 /\ k = get_bits_size + j /\ j \in 0 .. Remaining - 1
        BY <1>0, <3>2
      <4> HIDE DEF j
      <4>2. m_bytes'[k] = BitOf(word, from + j)
        BY <4>1 DEF Wrote
      <4>3. BitOf(word, from + j) = TodoBit(j)
        BY <4>1
      <4>4. LogTodo[j] = TodoBit(j)
        BY <4>1 DEF LogTodo
      <4>5. QED
        BY <3>2, <4>2, <4>3, <4>4 DEF j
    <3>3. QED
      BY <3>1, <3>2
  <2>4. LogBits' = [k \in 0 .. get_bits_size + n - 1 |-> m_bytes'[k]]
    <3>1. get_bits_size' - 1 = get_bits_size + n - 1
      BY <1>0, <1>1
    <3>2. QED
      BY ONLY <2>1, <3>1
  <2>5. QED
    BY ONLY <2>3, <2>4
<1>3. LogTodo' = [k \in 0 .. Remaining - n - 1 |-> LogTodo[k + n]]
  <2>1. LogTodo' = [k \in 0 .. Remaining' - 1 |-> TodoBit(k)']
    BY DEF LogTodo
  <2>2. ASSUME NEW k \in 0 .. Remaining - n - 1
        PROVE  TodoBit(k)' = LogTodo[k + n]
    <3>1. TodoBit(k)' = TodoBit(k + n)
      OBVIOUS
    <3>2. k + n \in 0 .. Remaining - 1
      BY <1>0
    <3>3. LogTodo[k + n] = TodoBit(k + n)
      BY <3>2 DEF LogTodo
    <3>4. QED
      BY <3>1, <3>3
  <2>3. QED
    BY <2>1, <2>2
<1>4. Log!Take(n)
  BY <1>1, <1>2, <1>3 DEF Log!Take, LogBits, LogTodo, TodoBit
<1>5. QED
  BY <1>4 DEF Log!Next

\* The two ways a step counts them off: the call goes on, done bits further,
\* or it has written its last bits and returns.
LEMMA TakesAndGoesOn ==
  ASSUME IInv, IInv', call.pc # "construct", call'.pc # "construct",
         call.pc # "align", call'.pc # "align",
         NEW n \in Nat \ {0}, n <= Remaining,
         Wrote(n, call.word, call.done),
         call'.n - call'.i = call.n - call.i - n,
         call'.done = call.done + n, call'.word = call.word
  PROVE  Log!Next
<1>1. Remaining \in Nat /\ Remaining = call.n - call.i
  BY RemainingType
<1>2. Remaining' = Remaining - n
  BY <1>1 DEF Remaining
<1>3. n \in 1 .. Remaining
  BY <1>1
<1>4. call.done \in Nat
  BY DEF IInv, TypeOK
<1>5. \A j \in 0 .. n - 1 : BitOf(call.word, call.done + j) = TodoBit(j)
  BY DEF TodoBit
<1>6. ASSUME NEW k \in 0 .. Remaining - n - 1
      PROVE  TodoBit(k)' = TodoBit(k + n)
  <2>1. call'.done + k = call.done + (k + n)
    BY <1>1, <1>4
  <2>2. QED
    BY <2>1 DEF TodoBit
<1>7. QED
  BY <1>2, <1>3, <1>5, <1>6, TakesBits

LEMMA TakesAndReturns ==
  ASSUME IInv, IInv', call.pc # "construct", call.pc # "align",
         Remaining # 0, Wrote(Remaining, call.word, call.done), Return
  PROVE  Log!Next
<1>1. Remaining \in Nat
  BY RemainingType
<1>2. Remaining' = 0
  BY IdleType DEF Return, Remaining
<1>3. Remaining \in 1 .. Remaining /\ Remaining' = Remaining - Remaining
  BY <1>1, <1>2
<1>4. \A j \in 0 .. Remaining - 1 :
        BitOf(call.word, call.done + j) = TodoBit(j)
  BY DEF TodoBit
<1>5. \A k \in 0 .. Remaining - Remaining - 1 :
        TodoBit(k)' = TodoBit(k + Remaining)
  BY <1>1
<1>6. QED
  BY <1>3, <1>4, <1>5, TakesBits

\* Nothing to write: the log stutters.
LEMMA LogStutters ==
  ASSUME IInv, Remaining = 0, Remaining' = 0, stream_unchanged
  PROVE  UNCHANGED Log!vars
<1>1. LogTodo' = LogTodo
  BY DEF LogTodo
<1>2. get_bits_size' = get_bits_size /\ LogBits' = LogBits
  BY DEF stream_unchanged, LogBits, get_bits_size, get_bytes_size,
         export_bitstream
<1>3. QED
  BY <1>1, <1>2 DEF Log!vars, LogBits, LogTodo, TodoBit

\* What the steps of a call do to the log, action by action.
LEMMA StepIsLogStep ==
  ASSUME IInv, IInv', Step
  PROVE  Log!Next \/ UNCHANGED Log!vars
<1>0. call \in CallTypes
  BY DEF IInv, TypeOK, CallTypes
<1>a. call.word \in Seq(Bit) /\ call.done \in Nat /\ call.n \in Nat
      /\ call.i \in Nat /\ call.p \in Nat /\ call.offset \in 0 .. 7
  BY <1>0 DEF CallTypes
<1>r. /\ Remaining \in Nat
      /\ call.pc # "construct" => Remaining = call.n - call.i
      /\ call.pc \in {"construct", "idle"} => Remaining = 0
  BY RemainingType
<1>i. Return => Remaining' = 0 /\ call'.pc # "construct"
  BY IdleType DEF Return, Remaining
<1>1. CASE RoundUpCap
  <2>1. Remaining = 0 /\ Remaining' = 0 /\ get_bits_size' = get_bits_size
    BY <1>1 DEF RoundUpCap, Remaining, get_bits_size
  <2>2. LogBits' = LogBits /\ LogTodo' = LogTodo
    BY <1>1, <2>1 DEF RoundUpCap, LogBits, LogTodo, get_bits_size,
                      export_bitstream, get_bytes_size
  <2>3. QED
    BY <2>1, <2>2 DEF Log!vars, LogBits, LogTodo, TodoBit
<1>2. CASE Constructed
  <2>1. Remaining = 0 /\ Remaining' = 0 /\ get_bits_size' = get_bits_size
    BY <1>2, <1>i DEF Constructed, Remaining, get_bits_size
  <2>2. get_bits_size = 0
    BY <1>2 DEF Constructed, IInv, CallLocals, get_bits_size
  <2>3. LogBits' = LogBits /\ LogTodo' = LogTodo
    BY <2>1, <2>2 DEF LogBits, LogTodo
  <2>4. QED
    BY <2>1, <2>3 DEF Log!vars, LogBits, LogTodo, TodoBit
<1>c. call.pc = "construct" => RoundUpCap \/ Constructed
  BY DEF Step, RoundUpCap, Constructed, FitInFirstByte, FillFirstByte, FullByte,
         LastBits, AlignBit, AppendByte, AppendHead, AppendShifted, AppendTail
<1> SUFFICES ASSUME call.pc # "construct"
             PROVE  Log!Next \/ UNCHANGED Log!vars
  BY <1>1, <1>2, <1>c
<1>3. BufferOK
  BY BufferFromInvariant
<1>b. m_cur_bit \in 0 .. 7
  BY <1>3 DEF BufferOK
<1>4. CASE FitInFirstByte
  <2>1. /\ call.n < 8 - m_cur_bit /\ Return /\ call.pc = "first"
        /\ stay_in_byte(OrBits(call.n, call.word, 0), call.n)
    BY <1>4 DEF FitInFirstByte
  <2>2. call.done = 0 /\ call.i = 0
    BY <2>1 DEF IInv, CallLocals
  <2>3. Remaining = call.n /\ m_cur_bit + call.n < 8
    BY <1>a, <1>b, <1>r, <2>1, <2>2
  <2>4. CASE call.n = 0
    <3>1. OrBits(0, call.word, 0) = m_bytes
      BY <1>3 DEF OrBits, BufferOK, get_bits_size
    <3>2. stream_unchanged
      BY <1>b, <2>1, <2>4, <3>1 DEF stay_in_byte, stream_unchanged
    <3>3. QED
      BY <1>i, <2>1, <2>3, <2>4, <3>2, LogStutters
  <2>5. CASE call.n # 0
    <3>1. Wrote(Remaining, call.word, call.done)
      BY <1>3, <1>a, <2>1, <2>2, <2>3, StayInByteWrites
    <3>2. QED
      BY <2>1, <2>3, <2>5, <3>1, TakesAndReturns
  <2>6. QED
    BY <2>4, <2>5
<1>5. CASE FillFirstByte
  <2> DEFINE room == 8 - m_cur_bit
  <2>1. /\ call.n >= room /\ call.pc = "first"
        /\ next_byte(OrBits(room, call.word, 0))
        /\ call' = [call EXCEPT !.pc = "full", !.n = call.n - room,
                                !.done = room]
    BY <1>5 DEF FillFirstByte
  <2>2. room \in 1 .. 8 /\ m_cur_bit + room = 8
    BY <1>b
  <2> HIDE DEF room
  <2>3. call.done = 0 /\ call.i = 0
    BY <2>1 DEF IInv, CallLocals
  <2>4. Wrote(room, call.word, call.done)
    <3>1. room \in Nat /\ next_byte(OrBits(room, call.word, call.done))
      BY <2>1, <2>2, <2>3
    <3>2. QED
      BY <1>3, <1>a, <2>2, <3>1, FillByOr
  <2>5. /\ call'.pc = "full" /\ call'.n = call.n - room /\ call'.done = room
        /\ call'.i = call.i /\ call'.word = call.word
    BY <1>0, <2>1 DEF CallTypes
  <2>6. room <= Remaining /\ room \in Nat \ {0}
    BY <1>a, <1>r, <2>1, <2>2, <2>3
  <2>7. /\ call'.n - call'.i = call.n - call.i - room
        /\ call'.done = call.done + room
    BY <1>a, <2>2, <2>3, <2>5
  <2>8. QED
    BY <2>1, <2>4, <2>5, <2>6, <2>7, TakesAndGoesOn
<1>6. CASE FullByte
  <2>1. /\ call.n >= 8 /\ call.pc = "full"
        /\ next_byte(AssignByte(call.word, call.done))
        /\ call' = [call EXCEPT !.n = call.n - 8, !.done = call.done + 8]
    BY <1>6 DEF FullByte
  <2>2. call.i = 0 /\ m_cur_bit = 0
    BY <2>1 DEF IInv, CallLocals
  <2>3. Wrote(8, call.word, call.done)
    BY <1>3, <1>a, <2>1, <2>2, FillByAssignment
  <2>4. /\ call'.pc = "full" /\ call'.n = call.n - 8
        /\ call'.done = call.done + 8
        /\ call'.i = call.i /\ call'.word = call.word
    BY <1>0, <2>1 DEF CallTypes
  <2>5. 8 <= Remaining /\ call'.n - call'.i = call.n - call.i - 8
    BY <1>a, <1>r, <2>1, <2>2, <2>4
  <2>6. QED
    BY <2>1, <2>3, <2>4, <2>5, TakesAndGoesOn
<1>7. CASE LastBits
  <2>1. call.n < 8 /\ Return /\ call.pc = "full"
    BY <1>7 DEF LastBits
  <2>2. call.i = 0 /\ m_cur_bit = 0
    BY <2>1 DEF IInv, CallLocals
  <2>3. Remaining = call.n
    BY <1>a, <1>r, <2>1, <2>2
  <2>4. CASE call.n = 0
    BY <1>7, <1>i, <2>1, <2>3, <2>4, LogStutters DEF LastBits
  <2>5. CASE call.n # 0
    <3>1. stay_in_byte(OrBits(call.n, call.word, call.done), call.n)
      BY <1>7, <2>5 DEF LastBits
    <3>2. Wrote(Remaining, call.word, call.done)
      BY <1>3, <1>a, <2>1, <2>2, <2>3, <3>1, StayInByteWrites
    <3>3. QED
      BY <2>1, <2>3, <2>5, <3>2, TakesAndReturns
  <2>6. QED
    BY <2>4, <2>5
<1>8. CASE AlignBit
  <2>1. call.pc = "align"
    BY <1>8 DEF AlignBit
  <2>2. PICK b \in Bit : call.i = 0 /\ call.word = [k \in 1 .. 8 |-> b]
    BY <2>1 DEF IInv, CallLocals
  <2>3. Remaining = call.n
    BY <1>a, <1>r, <2>1, <2>2
  <2>4. CASE call.n = 0
    BY <1>8, <1>i, <2>3, <2>4, LogStutters DEF AlignBit
  <2>5. CASE call.n # 0
    <3>1. put_bit(call.word, 0) /\ call' = [call EXCEPT !.n = call.n - 1]
      BY <1>8, <2>5 DEF AlignBit
    <3>2. Wrote(1, call.word, 0)
      BY <1>3, <1>a, <3>1, PutBitWrites
    <3>3. /\ call'.pc = "align" /\ call'.n = call.n - 1
          /\ call'.i = call.i /\ call'.word = call.word
      BY <1>0, <2>1, <3>1 DEF CallTypes
    <3>4. BitOf(call.word, 0) = call.word[1]
      BY <2>2 DEF BitOf
    <3>5. \A j \in 0 .. 1 - 1 : BitOf(call.word, 0 + j) = TodoBit(j)
      BY <2>1, <3>4 DEF TodoBit
    <3>6. \A k \in 0 .. Remaining - 1 - 1 : TodoBit(k)' = TodoBit(k + 1)
      BY <2>1, <3>3 DEF TodoBit
    <3>7. 1 \in 1 .. Remaining /\ Remaining' = Remaining - 1
      BY <1>a, <2>2, <2>3, <2>5, <3>3 DEF Remaining
    <3>8. QED
      BY <3>2, <3>5, <3>6, <3>7, TakesBits
  <2>6. QED
    BY <2>4, <2>5
<1>9. CASE AppendByte
  <2>1. /\ call.n >= 8 /\ call.pc = "bytes"
        /\ next_byte(OrBits(8, call.word, 8 * call.p))
        /\ call' = [call EXCEPT !.n = call.n - 8, !.p = call.p + 1,
                                !.done = call.done + 8]
    BY <1>9 DEF AppendByte
  <2>2. call.i = 0 /\ m_cur_bit = 0 /\ call.done = 8 * call.p
    <3>1. call.i = 0 /\ m_cur_bit = 0 /\ call.done = 8 * call.p + call.i
      BY <2>1 DEF IInv, CallLocals
    <3>2. QED
      BY <1>a, <3>1
  <2>3. Wrote(8, call.word, call.done)
    <3>1. m_cur_bit + 8 = 8 /\ next_byte(OrBits(8, call.word, call.done))
      BY <2>1, <2>2
    <3>2. QED
      BY <1>3, <1>a, <3>1, FillByOr
  <2>4. /\ call'.pc = "bytes" /\ call'.n = call.n - 8
        /\ call'.done = call.done + 8
        /\ call'.i = call.i /\ call'.word = call.word
    BY <1>0, <2>1 DEF CallTypes
  <2>5. 8 <= Remaining /\ call'.n - call'.i = call.n - call.i - 8
    BY <1>a, <1>r, <2>1, <2>2, <2>4
  <2>6. QED
    BY <2>1, <2>3, <2>4, <2>5, TakesAndGoesOn
<1>10. CASE AppendHead
  <2> DEFINE room == 8 - call.offset
  <2>1. /\ call.n >= room /\ call.pc = "head"
        /\ next_byte(OrBits(room, call.word, 0))
        /\ call' = [call EXCEPT !.pc = "shifted", !.n = call.n - room,
                                !.done = room]
    BY <1>10 DEF AppendHead
  <2>2. call.i = 0 /\ m_cur_bit = call.offset /\ call.done = call.i
    BY <2>1 DEF IInv, CallLocals
  <2>3. room \in 1 .. 8 /\ m_cur_bit + room = 8
    BY <1>b, <2>2
  <2> HIDE DEF room
  <2>4. Wrote(room, call.word, call.done)
    <3>1. room \in Nat /\ next_byte(OrBits(room, call.word, call.done))
      BY <2>1, <2>2, <2>3
    <3>2. QED
      BY <1>3, <1>a, <2>3, <3>1, FillByOr
  <2>5. /\ call'.pc = "shifted" /\ call'.n = call.n - room
        /\ call'.done = room
        /\ call'.i = call.i /\ call'.word = call.word
    BY <1>0, <2>1 DEF CallTypes
  <2>6. room <= Remaining /\ room \in Nat \ {0}
    BY <1>a, <1>r, <2>1, <2>2, <2>3
  <2>7. /\ call'.n - call'.i = call.n - call.i - room
        /\ call'.done = call.done + room
    BY <1>a, <2>2, <2>3, <2>5
  <2>8. QED
    BY <2>1, <2>4, <2>5, <2>6, <2>7, TakesAndGoesOn
<1>11. CASE AppendShifted
  <2>1. /\ call.n >= 8 /\ call.pc = "shifted"
        /\ next_byte(AssignByte(call.word, 8 * call.p + (8 - call.offset)))
        /\ call' = [call EXCEPT !.n = call.n - 8, !.p = call.p + 1,
                                !.done = call.done + 8]
    BY <1>11 DEF AppendShifted
  <2>2. /\ call.i = 0 /\ m_cur_bit = 0
        /\ call.done = 8 * call.p + (8 - call.offset)
    <3>1. /\ call.i = 0 /\ m_cur_bit = 0
          /\ call.done = 8 - call.offset + 8 * call.p + call.i
      BY <2>1 DEF IInv, CallLocals
    <3>2. QED
      BY <1>a, <3>1
  <2>3. Wrote(8, call.word, call.done)
    <3>1. next_byte(AssignByte(call.word, call.done))
      BY <2>1, <2>2
    <3>2. QED
      BY <1>3, <1>a, <2>2, <3>1, FillByAssignment
  <2>4. /\ call'.pc = "shifted" /\ call'.n = call.n - 8
        /\ call'.done = call.done + 8
        /\ call'.i = call.i /\ call'.word = call.word
    BY <1>0, <2>1 DEF CallTypes
  <2>5. 8 <= Remaining /\ call'.n - call'.i = call.n - call.i - 8
    BY <1>a, <1>r, <2>1, <2>2, <2>4
  <2>6. QED
    BY <2>1, <2>3, <2>4, <2>5, TakesAndGoesOn
<1>12. CASE AppendTail
  <2>1. /\ call.pc \in {"bytes", "shifted", "head"}
    BY <1>12 DEF AppendTail
  <2>2. CASE ~ (call.i < call.n)
    <3>1. Remaining = 0
      BY <1>a, <1>r, <2>2
    <3>2. QED
      BY <1>12, <1>i, <2>2, <3>1, LogStutters DEF AppendTail
  <2>3. CASE call.i < call.n
    <3>1. /\ put_bit(call.word, TailBit)
          /\ call' = [call EXCEPT !.i = call.i + 1, !.done = call.done + 1]
      BY <1>12, <2>3 DEF AppendTail
    <3>2. TailBit = call.done
      <4>1. CASE call.pc = "bytes"
        <5>1. call.done = 8 * call.p + call.i
          BY <4>1 DEF IInv, CallLocals
        <5>2. QED
          BY <4>1, <5>1 DEF TailBit
      <4>2. CASE call.pc = "shifted"
        <5>1. call.done = 8 - call.offset + 8 * call.p + call.i
          BY <4>2 DEF IInv, CallLocals
        <5>2. TailBit =
                IF call.i < call.offset
                THEN 8 * call.p + (8 - call.offset + call.i)
                ELSE 8 * (call.p + 1) + (call.i - call.offset)
          BY <4>2 DEF TailBit
        <5>3. /\ call.offset \in Int /\ call.p \in Int /\ call.i \in Int
          BY <1>a
        <5>4. /\ 8 * call.p + (8 - call.offset + call.i)
                 = 8 - call.offset + 8 * call.p + call.i
              /\ 8 * (call.p + 1) + (call.i - call.offset)
                 = 8 - call.offset + 8 * call.p + call.i
          BY <5>3
        <5>5. QED
          BY ONLY <5>1, <5>2, <5>4
      <4>3. CASE call.pc = "head"
        <5>1. call.done = call.i /\ call.p = 0
          BY <4>3 DEF IInv, CallLocals
        <5>2. QED
          BY <1>a, <4>3, <5>1 DEF TailBit
      <4>4. QED
        BY <2>1, <4>1, <4>2, <4>3
    <3>3. Wrote(1, call.word, call.done)
      BY <1>3, <1>a, <3>1, <3>2, PutBitWrites
    <3>4. /\ call'.pc = call.pc /\ call'.n = call.n
          /\ call'.i = call.i + 1 /\ call'.done = call.done + 1
          /\ call'.word = call.word
      BY <1>0, <3>1 DEF CallTypes
    <3>5. 1 <= Remaining /\ call'.n - call'.i = call.n - call.i - 1
      BY <1>a, <1>r, <2>3, <3>4
    <3>6. QED
      BY <2>1, <3>3, <3>4, <3>5, TakesAndGoesOn
  <2>4. QED
    BY <2>2, <2>3
<1>13. QED
  BY <1>4, <1>5, <1>6, <1>7, <1>8, <1>9, <1>10, <1>11, <1>12
     DEF Step, RoundUpCap, Constructed

\* Starting a call is a Request of the log, writing one bit a Put.
LEMMA CallIsLogStep ==
  ASSUME IInv, IInv',
         \/ \E b \in Bits : write_bit(b) \/ align_to_byte(b)
         \/ \E word \in Words, n \in Lengths :
              \/ \E little_end \in BOOLEAN : write_bits(word, n, little_end)
              \/ append(word, n)
  PROVE  Log!Next
<1>1. call.pc = "idle"
  BY DEF write_bit, align_to_byte, write_bits, append
<1>2. Remaining = 0 /\ BufferOK
  BY <1>1, RemainingType, BufferFromInvariant
<1>3. ASSUME stream_unchanged PROVE Log!Request
  <2>1. get_bits_size' = get_bits_size /\ LogBits' = LogBits
    BY <1>3 DEF stream_unchanged, LogBits, get_bits_size, get_bytes_size,
           export_bitstream
  <2>2. Remaining' \in Nat /\ LogTodo' \in [0 .. Remaining' - 1 -> Bit]
    <3>1. (IInv => /\ Remaining \in Nat
                   /\ call.pc # "construct" => Remaining = call.n - call.i
                   /\ call.pc \in {"construct", "idle"} => Remaining = 0)'
      BY RemainingType, PTL
    <3>2. (IInv => LogTodo \in [0 .. Remaining - 1 -> Bit])'
      BY TodoIsRun, PTL
    <3>3. QED
      BY <3>1, <3>2
  <2>3. QED
    BY <1>2, <2>1, <2>2
       DEF Log!Request, Log!Run, Log!Bit, Bit, LogBits, LogTodo, TodoBit
<1>4. ASSUME NEW b \in Bits, write_bit(b) PROVE Log!Put
  <2>1. put_bit(<<b>>, 0) /\ call' = call
    BY <1>4 DEF write_bit
  <2>2. b \in Bit /\ <<b>> \in Seq(Bit) /\ BitOf(<<b>>, 0) = b
    BY BitStreamAssumption DEF BitOf
  <2>3. Wrote(1, <<b>>, 0)
    BY <1>2, <2>1, <2>2, PutBitWrites
  <2>4. /\ get_bits_size' = get_bits_size + 1
        /\ \A x \in 0 .. get_bits_size - 1 : m_bytes'[x] = m_bytes[x]
        /\ m_bytes'[get_bits_size] = b
    BY <2>2, <2>3, LogBitsAre DEF Wrote
  <2>5. LogBits' = [k \in 0 .. get_bits_size |->
                      IF k < get_bits_size THEN LogBits[k] ELSE b]
    <3>1. LogBits' = [k \in 0 .. get_bits_size' - 1 |-> m_bytes'[k]]
      <4>1. (IInv => LogBits = [k \in 0 .. get_bits_size - 1 |-> m_bytes[k]])'
        BY LogBitsAre, PTL
      <4>2. QED
        BY <4>1
    <3>2. /\ LogBits = [k \in 0 .. get_bits_size - 1 |-> m_bytes[k]]
          /\ get_bits_size \in Nat
      BY LogBitsAre
    <3>3. get_bits_size' - 1 = get_bits_size
      BY <2>4, <3>2
    <3>4. LogBits' = [k \in 0 .. get_bits_size |-> m_bytes'[k]]
      BY <3>1, <3>3
    <3>5. ASSUME NEW k \in 0 .. get_bits_size
          PROVE  m_bytes'[k] = IF k < get_bits_size THEN LogBits[k] ELSE b
      BY <2>4, <3>2
    <3>6. QED
      BY ONLY <3>4, <3>5
  <2>6. Remaining' = Remaining /\ LogTodo' = LogTodo
    BY <2>1 DEF Remaining, LogTodo, TodoBit
  <2>7. QED
    BY <1>2, <2>2, <2>4, <2>5, <2>6
       DEF Log!Put, Log!Bit, Bit, LogBits, LogTodo, TodoBit
<1>5. QED
  BY <1>3, <1>4 DEF align_to_byte, write_bits, append, Log!Next

LEMMA InitIsLogInit == Init => Log!Init
<1> SUFFICES ASSUME Init PROVE Log!Init
  OBVIOUS
<1>1. get_bits_size = 0 /\ call.pc = "construct"
  BY DEF Init, get_bits_size, Call
<1>2. Remaining = 0
  BY <1>1 DEF Remaining
<1>3. LogBits \in [0 .. 0 - 1 -> Bit] /\ LogTodo \in [0 .. 0 - 1 -> Bit]
  BY <1>1, <1>2 DEF LogBits, LogTodo
<1>4. QED
  BY <1>1, <1>2, <1>3
     DEF Log!Init, Log!Run, Log!Bit, Bit, LogBits, LogTodo, TodoBit

\* A BitStream is an append-only log: whichever of the byte-wise paths a call
\* takes, at whatever alignment, and however often the vector grows, every
\* bit it is given is exported in its place and none is ever changed.
THEOREM IsALog == Spec => ImplementsLog
<1>1. IInv /\ IInv' /\ [Next]_vars => [Log!Next]_(Log!vars)
  <2>1. ASSUME IInv, IInv', Next
        PROVE  Log!Next \/ UNCHANGED Log!vars
    BY <2>1, StepIsLogStep, CallIsLogStep DEF Next
  <2>2. ASSUME UNCHANGED vars
        PROVE  UNCHANGED Log!vars
    BY <2>2 DEF vars, Log!vars, Remaining, get_bits_size, get_bytes_size,
                export_bitstream, BitOf
  <2>3. QED
    BY <2>1, <2>2
<1>2. QED
  BY <1>1, Invariant, InitIsLogInit, PTL DEF Spec, ImplementsLog, Log!Spec
===============================================================================
