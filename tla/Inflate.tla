------------------------------- MODULE Inflate --------------------------------
(***************************************************************************)
(* What a program that reads deflate blocks (RFC 1951) does: not a part of *)
(* the repository, but what its blocks are written for.  Bits are read     *)
(* from a sequence of 0 and 1; positions count from 0.                     *)
(***************************************************************************)
EXTENDS Integers, Sequences, FiniteSets

MaxLen == 15

\* Behind the end there are zeros.
bit_at(bs, pos) == IF pos < Len(bs) THEN bs[pos + 1] ELSE 0

\* The next n bits as a number, lowest bit first and highest bit first.
number(bs, pos, n) ==
  LET first[k \in 0 .. n] ==
        IF k = 0 THEN 0 ELSE first[k - 1] + bit_at(bs, pos + k - 1) * 2 ^ (k - 1)
  IN  first[n]
string(bs, pos, n) ==
  LET first[k \in 0 .. n] ==
        IF k = 0 THEN 0 ELSE 2 * first[k - 1] + bit_at(bs, pos + k - 1)
  IN  first[n]

\* The strings of MaxLen bits that begin with a code of at most l bits, in a
\* code with lengths lens.
covered(lens, l) ==
  LET upto[k \in 0 .. l] ==
        IF k = 0 THEN 0
        ELSE upto[k - 1] + Cardinality({c \in DOMAIN lens : lens[c] = k})
                             * 2 ^ (MaxLen - k)
  IN  upto[l]

complete(lens) == covered(lens, MaxLen) = 2 ^ MaxLen

\* The decoder of a code: for every symbol its length and the first of the
\* strings of MaxLen bits that mean it.
decoder(lens) ==
  [c \in {d \in DOMAIN lens : lens[d] > 0} |->
     [len |-> lens[c],
      from |-> covered(lens, lens[c] - 1)
               + Cardinality({d \in DOMAIN lens : d < c /\ lens[d] = lens[c]})
                 * 2 ^ (MaxLen - lens[c])]]

symbol(dec, bs, pos) ==
  LET s == string(bs, pos, MaxLen) IN
  CHOOSE c \in DOMAIN dec :
    s \in dec[c].from .. dec[c].from + 2 ^ (MaxLen - dec[c].len) - 1

StaticLengths ==
  [c \in 0 .. 287 |-> IF c < 144 THEN 8 ELSE IF c < 256 THEN 9
                      ELSE IF c < 280 THEN 7 ELSE 8]
StaticLEL == decoder(StaticLengths)
StaticDis == decoder([c \in 0 .. 31 |-> 5])

LengthBase == <<3, 4, 5, 6, 7, 8, 9, 10, 11, 13, 15, 17, 19, 23, 27, 31, 35, 43,
                51, 59, 67, 83, 99, 115, 131, 163, 195, 227, 258>>
LengthExtra == <<0, 0, 0, 0, 0, 0, 0, 0, 1, 1, 1, 1, 2, 2, 2, 2, 3, 3, 3, 3,
                 4, 4, 4, 4, 5, 5, 5, 5, 0>>
DistanceBase == <<1, 2, 3, 4, 5, 7, 9, 13, 17, 25, 33, 49, 65, 97, 129, 193,
                  257, 385, 513, 769, 1025, 1537, 2049, 3073, 4097, 6145,
                  8193, 12289, 16385, 24577>>
DistanceExtra(c) == IF c < 4 THEN 0 ELSE c \div 2 - 1

\* The order the lengths of the code for lengths come in.
LengthOrder == <<16, 17, 18, 0, 8, 7, 9, 6, 10, 5, 11, 4, 12, 3, 13, 2, 14, 1, 15>>

-------------------------------------------------------------------------------
(* The reader: where it is, what it has read of the block's header, and    *)
(* the items that it has decoded.                                          *)

Start == [pc |-> "header", pos |-> 0, final |-> 0, hlit |-> 0, hdist |-> 0,
          lens |-> <<>>, code |-> <<>>, lel |-> <<>>, dis |-> <<>>, out |-> <<>>]

refuse(r) == [r EXCEPT !.pc = "refused"]

\* A dynamic block's numbers of lengths, and the code they are coded with.
dynamic_header(r, bs) ==
  LET hlit == number(bs, 3, 5) + 257
      hdist == number(bs, 8, 5) + 1
      hclen == number(bs, 13, 4) + 4
      cl == [c \in 0 .. 18 |->
               LET k == CHOOSE i \in 1 .. 19 : LengthOrder[i] = c IN
               IF k <= hclen THEN number(bs, 17 + 3 * (k - 1), 3) ELSE 0]
  IN  IF hlit <= 286 /\ hdist <= 30 /\ complete(cl)
      THEN [r EXCEPT !.pc = "lengths", !.pos = 17 + 3 * hclen,
                     !.hlit = hlit, !.hdist = hdist, !.code = decoder(cl)]
      ELSE refuse(r)

read_header(r0, bs) ==
  LET r == [r0 EXCEPT !.final = bs[1]]
      type == number(bs, 1, 2)
  IN  CASE type = 1 -> [r EXCEPT !.pc = "items", !.pos = 3,
                                 !.lel = StaticLEL, !.dis = StaticDis]
        [] type = 2 -> dynamic_header(r, bs)
        [] OTHER -> refuse(r)

\* One symbol of the code for lengths, and the lengths it stands for.
read_length(r, bs) ==
  LET c == symbol(r.code, bs, r.pos)
      at == r.pos + r.code[c].len
      extra == IF c = 16 THEN 2 ELSE IF c = 17 THEN 3 ELSE IF c = 18 THEN 7 ELSE 0
      times == IF c < 16 THEN 1
               ELSE number(bs, at, extra) + (IF c = 18 THEN 11 ELSE 3)
      value == IF c < 16 THEN c ELSE IF c = 16 THEN r.lens[Len(r.lens)] ELSE 0
  IN  IF \/ c = 16 /\ r.lens = <<>>
         \/ Len(r.lens) + times > r.hlit + r.hdist
      THEN refuse(r)
      ELSE [r EXCEPT !.pos = at + extra,
                     !.lens = @ \o [i \in 1 .. times |-> value]]

\* All lengths are there: two codes, of which the first can end the block.
build_codes(r) ==
  LET lel == [c \in 0 .. r.hlit - 1 |-> r.lens[c + 1]]
      dis == [c \in 0 .. r.hdist - 1 |-> r.lens[r.hlit + c + 1]]
  IN  IF complete(lel) /\ complete(dis) /\ lel[256] > 0
      THEN [r EXCEPT !.pc = "items", !.code = <<>>,
                     !.lel = decoder(lel), !.dis = decoder(dis)]
      ELSE refuse(r)

\* A literal, a length with its distance, or the end of the block.
read_item(r, bs) ==
  LET c == symbol(r.lel, bs, r.pos)
      at == r.pos + r.lel[c].len
      extra == LengthExtra[c - 256]
      d == symbol(r.dis, bs, at + extra)
      then == at + extra + r.dis[d].len
  IN  CASE c < 256 ->
             [r EXCEPT !.pos = at, !.out = Append(@, [type |-> "literal", val |-> c])]
        [] c = 256 ->
             [r EXCEPT !.pos = at, !.pc = "done",
                       !.out = Append(@, [type |-> "eob", val |-> 256])]
        [] c \in 257 .. 285 /\ d < 30 ->
             [r EXCEPT !.pos = then + DistanceExtra(d),
                       !.out = @ \o <<[type |-> "length",
                           val |-> LengthBase[c - 256] + number(bs, at, extra)],
                         [type |-> "distance",
                          val |-> DistanceBase[d + 1]
                                    + number(bs, then, DistanceExtra(d))]>>]
        [] OTHER -> refuse(r)
===============================================================================
