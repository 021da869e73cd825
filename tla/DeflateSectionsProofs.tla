------------------------- MODULE DeflateSectionsProofs -------------------------
(***************************************************************************)
(* DeflateSections, for every source, number of threads, size of a block   *)
(* and outcome of coding one: whatever the threads do when, the result is  *)
(* the source, with one final block; and the bar is right.                 *)
(***************************************************************************)
EXTENDS DeflateSections, DataLemmas

(***************************************************************************)
(* Where the section of thread k ends, if every section is of the same     *)
(* size: the closed form of what the scheduler's loop computes.            *)
(***************************************************************************)
Cut(k) == MinOf(k * (each_cnt * DeflateBlockSize), m_src_len)

(***************************************************************************)
(* Holds, and what it takes to keep it when the source has n bytes: pieces *)
(* are in order, stay between lo and hi, and the final ones end where the  *)
(* source does.                                                            *)
(***************************************************************************)
Laid(bs, lo, hi, n) ==
  /\ Holds(bs, lo, hi)
  /\ \A k \in 1 .. Len(bs.pieces) :
       /\ lo <= bs.pieces[k].lo /\ bs.pieces[k].hi <= hi
       /\ bs.pieces[k].final <=> bs.pieces[k].hi = n
  /\ \A j, k \in 1 .. Len(bs.pieces) :
       j < k => bs.pieces[j].hi <= bs.pieces[k].lo

\* PiecesBounded, of one stream.
PieceBounded(piece) ==
  piece.hi - piece.lo <=
    IF piece.stored THEN SubBlockSize ELSE 2 * DeflateBlockSize - 1
Bounded(bs) == \A k \in DOMAIN bs.pieces : PieceBounded(bs.pieces[k])

\* NeverMuchLonger, of one stream.
StoredIn(bs) == {k \in DOMAIN bs.pieces : bs.pieces[k].stored}
NotLonger(bs, lo, hi) ==
  bs.bits <= 8 * (hi - lo) + 43 * Cardinality(StoredIn(bs))

-------------------------------------------------------------------------------
(* Streams.                                                                *)

LEMMA EmptyStreamLaid ==
  ASSUME NEW lo \in Nat, NEW n \in Nat
  PROVE  /\ EmptyStream \in Streams
         /\ Laid(EmptyStream, lo, lo, n)
         /\ Bounded(EmptyStream)
         /\ NotLonger(EmptyStream, lo, lo)
<1>1. EmptyStream \in Streams
  BY DEF EmptyStream, Streams
<1>2. Laid(EmptyStream, lo, lo, n) /\ Bounded(EmptyStream)
  BY DEF Laid, Holds, Bounded, EmptyStream
<1>3. NotLonger(EmptyStream, lo, lo)
  <2>1. StoredIn(EmptyStream) = {}
    BY DEF StoredIn, EmptyStream
  <2>2. QED
    BY <2>1, FS_EmptySet DEF NotLonger, EmptyStream
<1>4. QED
  BY <1>1, <1>2, <1>3

LEMMA PieceType ==
  ASSUME NEW piece \in Piece
  PROVE  /\ piece.lo \in Nat /\ piece.hi \in Nat
         /\ piece.at \in Nat /\ piece.data \in Nat /\ piece.size \in Nat
         /\ piece.stored \in BOOLEAN /\ piece.final \in BOOLEAN
  BY DEF Piece

LEMMA StreamType ==
  ASSUME NEW bs \in Streams
  PROVE  /\ bs.bits \in Nat
         /\ bs.pieces \in Seq(Piece)
         /\ Len(bs.pieces) \in Nat
         /\ DOMAIN bs.pieces = 1 .. Len(bs.pieces)
         /\ \A k \in 1 .. Len(bs.pieces) : bs.pieces[k] \in Piece
<1>1. bs.bits \in Nat /\ bs.pieces \in Seq(Piece)
  BY DEF Streams
<1>2. QED
  BY <1>1, LenProperties, ElementOfSeq

\* What append_piece makes of a stream.
LEMMA AppendPieceIs ==
  ASSUME NEW bs \in Streams, NEW piece \in Piece
  PROVE  LET r == append_piece(bs, piece)
             m == Len(bs.pieces)
         IN  /\ r \in Streams
             /\ r.bits = bs.bits + piece.size
             /\ Len(r.pieces) = m + 1
             /\ m \in Nat
             /\ \A k \in 1 .. m : r.pieces[k] = bs.pieces[k]
             /\ r.pieces[m + 1] = piece
<1> DEFINE ps == Append(bs.pieces, piece)
<1>1. /\ bs.bits \in Nat /\ bs.pieces \in Seq(Piece)
      /\ Len(bs.pieces) \in Nat /\ piece.size \in Nat
  BY StreamType, PieceType
<1>2. /\ ps \in Seq(Piece) /\ Len(ps) = Len(bs.pieces) + 1
      /\ \A k \in 1 .. Len(bs.pieces) : ps[k] = bs.pieces[k]
      /\ ps[Len(bs.pieces) + 1] = piece
  BY <1>1, AppendProperties
<1>3. append_piece(bs, piece) = [bits |-> bs.bits + piece.size, pieces |-> ps]
  BY DEF append_piece
<1> HIDE DEF ps
<1>4. QED
  BY <1>1, <1>2, <1>3 DEF Streams

LEMMA AppendPieceLaid ==
  ASSUME NEW bs \in Streams, NEW piece \in Piece,
         NEW lo \in Nat, NEW n \in Nat,
         Laid(bs, lo, piece.lo, n),
         lo <= piece.lo,
         piece.lo < piece.hi,
         piece.at = bs.bits,
         piece.final <=> piece.hi = n
  PROVE  Laid(append_piece(bs, piece), lo, piece.hi, n)
<1> DEFINE r == append_piece(bs, piece)
           m == Len(bs.pieces)
<1>1. /\ r.bits = bs.bits + piece.size
      /\ Len(r.pieces) = m + 1
      /\ m \in Nat
      /\ \A k \in 1 .. m : r.pieces[k] = bs.pieces[k]
      /\ r.pieces[m + 1] = piece
  BY AppendPieceIs
<1>2. /\ bs.bits \in Nat
      /\ \A k \in 1 .. m : bs.pieces[k].hi \in Nat /\ bs.pieces[k].lo \in Nat
      /\ piece.lo \in Nat /\ piece.hi \in Nat /\ piece.size \in Nat
  BY StreamType, PieceType
<1> SUFFICES Laid(r, lo, piece.hi, n)
  OBVIOUS
<1> HIDE DEF r
<1>3. /\ \A k \in 1 .. m :
           /\ lo <= bs.pieces[k].lo /\ bs.pieces[k].hi <= piece.lo
           /\ bs.pieces[k].final <=> bs.pieces[k].hi = n
      /\ \A j, k \in 1 .. m : j < k => bs.pieces[j].hi <= bs.pieces[k].lo
  BY DEF Laid
<1>4. m = 0 => bs.bits = 0 /\ lo = piece.lo
  BY DEF Laid, Holds
<1>5. m # 0 =>
        /\ bs.pieces[1].lo = lo /\ bs.pieces[1].at = 0
        /\ bs.pieces[m].hi = piece.lo
        /\ bs.pieces[m].at + bs.pieces[m].size = bs.bits
        /\ \A k \in 1 .. m : bs.pieces[k].lo < bs.pieces[k].hi
        /\ \A k \in 1 .. m - 1 :
             /\ bs.pieces[k + 1].lo = bs.pieces[k].hi
             /\ bs.pieces[k + 1].at = bs.pieces[k].at + bs.pieces[k].size
  BY DEF Laid, Holds
<1> HIDE DEF m
<1>6. Holds(r, lo, piece.hi)
  <2>1. r.pieces[1].lo = lo /\ r.pieces[1].at = 0
    BY <1>1, <1>4, <1>5
  <2>2. \A k \in 1 .. m + 1 : r.pieces[k].lo < r.pieces[k].hi
    BY <1>1, <1>5
  <2>3. ASSUME NEW k \in 1 .. m
        PROVE  /\ r.pieces[k + 1].lo = r.pieces[k].hi
               /\ r.pieces[k + 1].at = r.pieces[k].at + r.pieces[k].size
    <3>1. CASE k = m
      BY <1>1, <1>5, <3>1
    <3>2. CASE k \in 1 .. m - 1
      <4>1. k \in 1 .. m /\ k + 1 \in 1 .. m /\ m # 0
        BY <1>1, <3>2
      <4>2. r.pieces[k] = bs.pieces[k] /\ r.pieces[k + 1] = bs.pieces[k + 1]
        BY <1>1, <4>1
      <4>3. QED
        BY <1>5, <3>2, <4>1, <4>2
    <3>3. QED
      BY <1>1, <3>1, <3>2
  <2>4. /\ r.pieces[m + 1].hi = piece.hi
        /\ r.pieces[m + 1].at + r.pieces[m + 1].size = r.bits
    BY <1>1, <1>2
  <2>5. QED
    BY <1>1, <2>1, <2>2, <2>3, <2>4 DEF Holds
<1>7. ASSUME NEW k \in 1 .. m + 1
      PROVE  /\ lo <= r.pieces[k].lo /\ r.pieces[k].hi <= piece.hi
             /\ r.pieces[k].final <=> r.pieces[k].hi = n
  <2>1. CASE k = m + 1
    BY <1>1, <1>2, <2>1
  <2>2. CASE k \in 1 .. m
    <3>1. r.pieces[k] = bs.pieces[k]
      BY <1>1, <2>2
    <3>2. lo <= bs.pieces[k].lo /\ bs.pieces[k].hi <= piece.hi
      BY <1>2, <1>3, <2>2
    <3>3. bs.pieces[k].final <=> bs.pieces[k].hi = n
      BY <1>3, <2>2
    <3>4. QED
      BY <3>1, <3>2, <3>3
  <2>3. QED
    BY <1>1, <2>1, <2>2
<1>8. ASSUME NEW j \in 1 .. m + 1, NEW k \in 1 .. m + 1, j < k
      PROVE  r.pieces[j].hi <= r.pieces[k].lo
  <2>1. j \in 1 .. m
    BY <1>1, <1>8
  <2>2. CASE k = m + 1
    BY <1>1, <1>3, <2>1, <2>2
  <2>3. CASE k \in 1 .. m
    BY <1>1, <1>3, <1>8, <2>1, <2>3
  <2>4. QED
    BY <1>1, <2>2, <2>3
<1>9. QED
  BY <1>1, <1>6, <1>7, <1>8 DEF Laid

LEMMA AppendPieceBounded ==
  ASSUME NEW bs \in Streams, NEW piece \in Piece,
         Bounded(bs), PieceBounded(piece)
  PROVE  Bounded(append_piece(bs, piece))
<1> DEFINE r == append_piece(bs, piece)
           m == Len(bs.pieces)
<1>1. /\ r \in Streams /\ Len(r.pieces) = m + 1 /\ m \in Nat
      /\ \A k \in 1 .. m : r.pieces[k] = bs.pieces[k]
      /\ r.pieces[m + 1] = piece
  BY AppendPieceIs
<1> HIDE DEF r
<1>2. DOMAIN r.pieces = 1 .. m + 1 /\ DOMAIN bs.pieces = 1 .. m
  BY <1>1 DEF Streams
<1>3. ASSUME NEW k \in 1 .. m + 1
      PROVE  PieceBounded(r.pieces[k])
  <2>1. CASE k = m + 1
    BY <1>1, <2>1
  <2>2. CASE k \in 1 .. m
    BY <1>1, <1>2, <2>2 DEF Bounded
  <2>3. QED
    BY <1>1, <2>1, <2>2
<1>4. QED
  BY <1>2, <1>3 DEF Bounded, r

LEMMA StoredInFinite ==
  ASSUME NEW bs \in Streams
  PROVE  IsFiniteSet(StoredIn(bs)) /\ Cardinality(StoredIn(bs)) \in Nat
<1>1. Len(bs.pieces) \in Nat /\ DOMAIN bs.pieces = 1 .. Len(bs.pieces)
  BY DEF Streams
<1>2. IsFiniteSet(1 .. Len(bs.pieces))
  BY <1>1, FS_Interval
<1>3. StoredIn(bs) \in SUBSET (1 .. Len(bs.pieces))
  BY <1>1 DEF StoredIn
<1>4. QED
  BY <1>2, <1>3, FS_Subset, FS_CardinalityType

LEMMA AppendPieceNotLonger ==
  ASSUME NEW bs \in Streams, NEW piece \in Piece,
         NEW lo \in Nat,
         NotLonger(bs, lo, piece.lo),
         piece.size <= 8 * (piece.hi - piece.lo)
                       + (IF piece.stored THEN 43 ELSE 0)
  PROVE  NotLonger(append_piece(bs, piece), lo, piece.hi)
<1> DEFINE r == append_piece(bs, piece)
           m == Len(bs.pieces)
           c == Cardinality(StoredIn(bs))
<1>1. /\ r \in Streams /\ Len(r.pieces) = m + 1 /\ m \in Nat
      /\ r.bits = bs.bits + piece.size
      /\ \A k \in 1 .. m : r.pieces[k] = bs.pieces[k]
      /\ r.pieces[m + 1] = piece
  BY AppendPieceIs
<1> SUFFICES NotLonger(r, lo, piece.hi)
  OBVIOUS
<1> HIDE DEF r
<1>2. DOMAIN r.pieces = 1 .. m + 1 /\ DOMAIN bs.pieces = 1 .. m
  BY <1>1 DEF Streams
<1>3. IsFiniteSet(StoredIn(bs)) /\ c \in Nat
  BY StoredInFinite
<1>4. m + 1 \notin StoredIn(bs)
  BY <1>1, <1>2 DEF StoredIn
<1>5. /\ piece.lo \in Nat /\ piece.hi \in Nat /\ piece.size \in Nat
      /\ piece.stored \in BOOLEAN /\ bs.bits \in Nat
  BY PieceType, StreamType
<1>9. bs.bits <= 8 * (piece.lo - lo) + 43 * c
  BY DEF NotLonger
<1> HIDE DEF c
<1>6. CASE piece.stored
  <2>1. StoredIn(r) = StoredIn(bs) \cup {m + 1}
    BY <1>1, <1>2, <1>6 DEF StoredIn
  <2>2. Cardinality(StoredIn(r)) = c + 1
    BY <1>3, <1>4, <2>1, FS_AddElement DEF c
  <2>3. bs.bits + piece.size <= 8 * (piece.hi - lo) + 43 * (c + 1)
    BY <1>3, <1>5, <1>6, <1>9
  <2>4. QED
    BY <1>1, <2>2, <2>3 DEF NotLonger
<1>7. CASE ~ piece.stored
  <2>1. StoredIn(r) = StoredIn(bs)
    BY <1>1, <1>2, <1>7, SMTT(20) DEF StoredIn
  <2>2. bs.bits + piece.size <= 8 * (piece.hi - lo) + 43 * c
    BY <1>3, <1>5, <1>7, <1>9
  <2>3. QED
    BY <1>1, <2>1, <2>2 DEF NotLonger, c
<1>8. QED
  BY <1>5, <1>6, <1>7

LEMMA MovedPiece ==
  ASSUME NEW piece \in Piece, NEW a \in Nat, NEW d \in Nat
  PROVE  LET v == [piece EXCEPT !.at = a, !.data = d]
         IN  /\ v \in Piece
             /\ v.lo = piece.lo /\ v.hi = piece.hi
             /\ v.final = piece.final /\ v.stored = piece.stored
             /\ v.size = piece.size /\ v.at = a
  BY DEF Piece

\* What append_stream makes of two streams.
LEMMA AppendStreamIs ==
  ASSUME NEW bs \in Streams, NEW rhs \in Streams
  PROVE  LET r == append_stream(bs, rhs)
             m == Len(bs.pieces)
             l == Len(rhs.pieces)
         IN  /\ r \in Streams
             /\ r.bits = bs.bits + rhs.bits
             /\ Len(r.pieces) = m + l
             /\ \A k \in 1 .. m : r.pieces[k] = bs.pieces[k]
             /\ \A k \in 1 .. l :
                  /\ r.pieces[m + k].lo = rhs.pieces[k].lo
                  /\ r.pieces[m + k].hi = rhs.pieces[k].hi
                  /\ r.pieces[m + k].final = rhs.pieces[k].final
                  /\ r.pieces[m + k].stored = rhs.pieces[k].stored
                  /\ r.pieces[m + k].size = rhs.pieces[k].size
                  /\ r.pieces[m + k].at = rhs.pieces[k].at + bs.bits
<1> DEFINE m == Len(bs.pieces)
           l == Len(rhs.pieces)
           moved(k) == [rhs.pieces[k] EXCEPT !.at = @ + bs.bits,
                                             !.data = @ + bs.bits]
           ps == [k \in 1 .. l |-> moved(k)]
           all == bs.pieces \o ps
<1>1. /\ bs.bits \in Nat /\ bs.pieces \in Seq(Piece) /\ m \in Nat
      /\ rhs.bits \in Nat /\ l \in Nat
      /\ \A k \in 1 .. l : rhs.pieces[k] \in Piece
  BY StreamType
<1>2. ASSUME NEW k \in 1 .. l
      PROVE  /\ moved(k) \in Piece
             /\ moved(k).lo = rhs.pieces[k].lo
             /\ moved(k).hi = rhs.pieces[k].hi
             /\ moved(k).final = rhs.pieces[k].final
             /\ moved(k).stored = rhs.pieces[k].stored
             /\ moved(k).size = rhs.pieces[k].size
             /\ moved(k).at = rhs.pieces[k].at + bs.bits
  <2> DEFINE piece == rhs.pieces[k]
             a == piece.at + bs.bits
             d == piece.data + bs.bits
             v == [piece EXCEPT !.at = a, !.data = d]
  <2>1. piece \in Piece /\ a \in Nat /\ d \in Nat
    BY <1>1, PieceType
  <2>2. moved(k) = v
    OBVIOUS
  <2>3. /\ v \in Piece
        /\ v.lo = piece.lo /\ v.hi = piece.hi
        /\ v.final = piece.final /\ v.stored = piece.stored
        /\ v.size = piece.size /\ v.at = a
    <3> HIDE DEF piece, a, d
    <3>1. QED
      BY <2>1, MovedPiece
  <2> HIDE DEF v, moved
  <2>4. QED
    BY <2>2, <2>3
<1> HIDE DEF moved, m, l
<1>3. ps \in Seq(Piece) /\ Len(ps) = l /\ \A k \in 1 .. l : ps[k] = moved(k)
  BY <1>1, <1>2
<1> HIDE DEF ps
<1>4. /\ all \in Seq(Piece) /\ Len(all) = m + l
      /\ \A k \in 1 .. m + l :
           all[k] = IF k <= m THEN bs.pieces[k] ELSE ps[k - m]
  BY <1>1, <1>3, ConcatProperties DEF m
<1>5. \A k \in 1 .. m : all[k] = bs.pieces[k]
  BY <1>1, <1>4
<1>6. ASSUME NEW k \in 1 .. l
      PROVE  all[m + k] = moved(k)
  <2>1. m + k \in 1 .. m + l /\ ~ (m + k <= m) /\ (m + k) - m = k
    BY <1>1
  <2>2. QED
    BY <1>3, <1>4, <2>1
<1>7. append_stream(bs, rhs) = [bits |-> bs.bits + rhs.bits, pieces |-> all]
  BY DEF append_stream, ps, moved, l
<1> HIDE DEF all
<1> DEFINE r == append_stream(bs, rhs)
<1>8. r.bits = bs.bits + rhs.bits /\ r.pieces = all /\ r \in Streams
  BY <1>1, <1>4, <1>7 DEF Streams
<1> HIDE DEF r
<1>9. \A k \in 1 .. l :
        /\ r.pieces[m + k].lo = rhs.pieces[k].lo
        /\ r.pieces[m + k].hi = rhs.pieces[k].hi
        /\ r.pieces[m + k].final = rhs.pieces[k].final
        /\ r.pieces[m + k].stored = rhs.pieces[k].stored
        /\ r.pieces[m + k].size = rhs.pieces[k].size
        /\ r.pieces[m + k].at = rhs.pieces[k].at + bs.bits
  BY <1>2, <1>6, <1>8
<1>10. Len(r.pieces) = m + l /\ \A k \in 1 .. m : r.pieces[k] = bs.pieces[k]
  BY <1>4, <1>5, <1>8
<1>11. QED
  BY <1>8, <1>9, <1>10 DEF r, m, l

LEMMA AppendStreamLaid ==
  ASSUME NEW bs \in Streams, NEW rhs \in Streams,
         NEW lo \in Nat, NEW mid \in Nat, NEW hi \in Nat, NEW n \in Nat,
         lo <= mid, mid <= hi,
         Laid(bs, lo, mid, n), Laid(rhs, mid, hi, n)
  PROVE  Laid(append_stream(bs, rhs), lo, hi, n)
<1> DEFINE r == append_stream(bs, rhs)
           m == Len(bs.pieces)
           l == Len(rhs.pieces)
<1>1. /\ r.bits = bs.bits + rhs.bits
      /\ Len(r.pieces) = m + l
      /\ \A k \in 1 .. m : r.pieces[k] = bs.pieces[k]
      /\ \A k \in 1 .. l :
           /\ r.pieces[m + k].lo = rhs.pieces[k].lo
           /\ r.pieces[m + k].hi = rhs.pieces[k].hi
           /\ r.pieces[m + k].final = rhs.pieces[k].final
           /\ r.pieces[m + k].size = rhs.pieces[k].size
           /\ r.pieces[m + k].at = rhs.pieces[k].at + bs.bits
  BY AppendStreamIs, ZenonT(30)
<1>2. /\ bs.bits \in Nat /\ rhs.bits \in Nat /\ m \in Nat /\ l \in Nat
      /\ \A k \in 1 .. m : bs.pieces[k].lo \in Nat /\ bs.pieces[k].hi \in Nat
      /\ \A k \in 1 .. l :
           /\ rhs.pieces[k].lo \in Nat /\ rhs.pieces[k].hi \in Nat
           /\ rhs.pieces[k].at \in Nat /\ rhs.pieces[k].size \in Nat
  BY StreamType, PieceType
<1> SUFFICES Laid(r, lo, hi, n)
  OBVIOUS
<1> HIDE DEF r
<1>3. /\ \A k \in 1 .. m :
           /\ lo <= bs.pieces[k].lo /\ bs.pieces[k].hi <= mid
           /\ bs.pieces[k].final <=> bs.pieces[k].hi = n
      /\ \A j, k \in 1 .. m : j < k => bs.pieces[j].hi <= bs.pieces[k].lo
  BY DEF Laid
<1>4. /\ \A k \in 1 .. l :
           /\ mid <= rhs.pieces[k].lo /\ rhs.pieces[k].hi <= hi
           /\ rhs.pieces[k].final <=> rhs.pieces[k].hi = n
      /\ \A j, k \in 1 .. l : j < k => rhs.pieces[j].hi <= rhs.pieces[k].lo
  BY DEF Laid
<1>5. /\ m = 0 => bs.bits = 0 /\ lo = mid
      /\ m # 0 =>
           /\ bs.pieces[1].lo = lo /\ bs.pieces[1].at = 0
           /\ bs.pieces[m].hi = mid
           /\ bs.pieces[m].at + bs.pieces[m].size = bs.bits
           /\ \A k \in 1 .. m : bs.pieces[k].lo < bs.pieces[k].hi
           /\ \A k \in 1 .. m - 1 :
                /\ bs.pieces[k + 1].lo = bs.pieces[k].hi
                /\ bs.pieces[k + 1].at = bs.pieces[k].at + bs.pieces[k].size
  BY DEF Laid, Holds
<1>6. /\ l = 0 => rhs.bits = 0 /\ mid = hi
      /\ l # 0 =>
           /\ rhs.pieces[1].lo = mid /\ rhs.pieces[1].at = 0
           /\ rhs.pieces[l].hi = hi
           /\ rhs.pieces[l].at + rhs.pieces[l].size = rhs.bits
           /\ \A k \in 1 .. l : rhs.pieces[k].lo < rhs.pieces[k].hi
           /\ \A k \in 1 .. l - 1 :
                /\ rhs.pieces[k + 1].lo = rhs.pieces[k].hi
                /\ rhs.pieces[k + 1].at = rhs.pieces[k].at + rhs.pieces[k].size
  BY DEF Laid, Holds
<1> HIDE DEF m, l
<1>7. ASSUME NEW k \in 1 .. m + l, k > m
      PROVE  k - m \in 1 .. l /\ k = m + (k - m)
  BY <1>2, <1>7
<1>8. Holds(r, lo, hi)
  <2>1. CASE m = 0 /\ l = 0
    BY <1>1, <1>5, <1>6, <2>1 DEF Holds
  <2>2. CASE m # 0 \/ l # 0
    <3>1. r.pieces[1].lo = lo /\ r.pieces[1].at = 0
      <4>1. CASE m = 0
        <5>1. 1 \in 1 .. l /\ m + 1 = 1
          BY <1>2, <2>2, <4>1
        <5>2. /\ r.pieces[m + 1].lo = rhs.pieces[1].lo
              /\ r.pieces[m + 1].at = rhs.pieces[1].at + bs.bits
          BY <1>1, <5>1
        <5>3. QED
          BY <1>2, <1>5, <1>6, <4>1, <5>1, <5>2
      <4>2. CASE m # 0
        BY <1>1, <1>2, <1>5, <4>2
      <4>3. QED
        BY <4>1, <4>2
    <3>2. /\ r.pieces[m + l].hi = hi
          /\ r.pieces[m + l].at + r.pieces[m + l].size = r.bits
      <4>1. CASE l = 0
        BY <1>1, <1>2, <1>5, <1>6, <2>2, <4>1
      <4>2. CASE l # 0
        <5>1. l \in 1 .. l
          BY <1>2, <4>2
        <5>2. /\ r.pieces[m + l].hi = rhs.pieces[l].hi
              /\ r.pieces[m + l].size = rhs.pieces[l].size
              /\ r.pieces[m + l].at = rhs.pieces[l].at + bs.bits
              /\ rhs.pieces[l].at \in Nat /\ rhs.pieces[l].size \in Nat
          BY <1>1, <1>2, <5>1
        <5>3. /\ rhs.pieces[l].hi = hi
              /\ rhs.pieces[l].at + rhs.pieces[l].size = rhs.bits
          BY <1>6, <4>2
        <5>4. /\ r.bits = bs.bits + rhs.bits
              /\ bs.bits \in Nat /\ rhs.bits \in Nat
          BY <1>1, <1>2
        <5> HIDE DEF r, m, l
        <5>5. QED
          BY ONLY <5>2, <5>3, <5>4
      <4>3. QED
        BY <4>1, <4>2
    <3>3. ASSUME NEW k \in 1 .. m + l
          PROVE  r.pieces[k].lo < r.pieces[k].hi
      <4>1. CASE k \in 1 .. m
        BY <1>1, <1>5, <4>1
      <4>2. CASE k > m
        BY <1>1, <1>6, <1>7, <4>2
      <4>3. QED
        BY <1>2, <4>1, <4>2
    <3>4. ASSUME NEW k \in 1 .. m + l - 1
          PROVE  /\ r.pieces[k + 1].lo = r.pieces[k].hi
                 /\ r.pieces[k + 1].at = r.pieces[k].at + r.pieces[k].size
      <4>1. CASE k \in 1 .. m - 1
        <5>1. k \in 1 .. m /\ k + 1 \in 1 .. m /\ m # 0
          BY <1>2, <4>1
        <5>2. QED
          BY <1>1, <1>5, <4>1, <5>1
      <4>2. CASE k = m
        <5>1. k \in 1 .. m /\ 1 \in 1 .. l /\ m # 0 /\ l # 0
          BY <1>2, <4>2
        <5>2. r.pieces[m + 1].lo = mid /\ r.pieces[m + 1].at = bs.bits
          <6>1. /\ r.pieces[m + 1].lo = rhs.pieces[1].lo
                /\ r.pieces[m + 1].at = rhs.pieces[1].at + bs.bits
            BY <1>1, <5>1
          <6>2. QED
            BY <1>2, <1>6, <5>1, <6>1
        <5>3. r.pieces[m] = bs.pieces[m]
          BY <1>1, <4>2, <5>1
        <5>4. QED
          BY <1>5, <4>2, <5>1, <5>2, <5>3
      <4>3. CASE k > m
        <5> DEFINE j == k - m
        <5>1. j \in 1 .. l - 1 /\ j \in 1 .. l /\ j + 1 \in 1 .. l /\ l # 0
              /\ k = m + j /\ k + 1 = m + (j + 1)
          BY <1>2, <4>3
        <5> HIDE DEF j
        <5>2. /\ rhs.pieces[j + 1].lo = rhs.pieces[j].hi
              /\ rhs.pieces[j + 1].at = rhs.pieces[j].at + rhs.pieces[j].size
          BY <1>6, <5>1
        <5>3. /\ r.pieces[m + (j + 1)].lo = rhs.pieces[j + 1].lo
              /\ r.pieces[m + (j + 1)].at = rhs.pieces[j + 1].at + bs.bits
              /\ r.pieces[m + j].hi = rhs.pieces[j].hi
              /\ r.pieces[m + j].size = rhs.pieces[j].size
              /\ r.pieces[m + j].at = rhs.pieces[j].at + bs.bits
          BY <1>1, <5>1
        <5>4. /\ rhs.pieces[j].at \in Nat /\ rhs.pieces[j].size \in Nat
          BY <1>2, <5>1
        <5>5. QED
          BY <1>2, <5>1, <5>2, <5>3, <5>4
      <4>4. QED
        BY <1>2, <4>1, <4>2, <4>3
    <3>5. QED
      BY <1>1, <1>2, <2>2, <3>1, <3>2, <3>3, <3>4 DEF Holds
  <2>3. QED
    BY <2>1, <2>2
<1>9. ASSUME NEW k \in 1 .. m + l
      PROVE  /\ lo <= r.pieces[k].lo /\ r.pieces[k].hi <= hi
             /\ r.pieces[k].final <=> r.pieces[k].hi = n
  <2>1. CASE k \in 1 .. m
    <3>1. r.pieces[k] = bs.pieces[k]
      BY <1>1, <2>1
    <3>2. lo <= bs.pieces[k].lo /\ bs.pieces[k].hi <= hi
      BY <1>2, <1>3, <2>1
    <3>3. bs.pieces[k].final <=> bs.pieces[k].hi = n
      BY <1>3, <2>1
    <3>4. QED
      BY <3>1, <3>2, <3>3
  <2>2. CASE k > m
    <3> DEFINE j == k - m
    <3>1. j \in 1 .. l /\ k = m + j
      BY <1>7, <2>2
    <3> HIDE DEF j
    <3>2. /\ r.pieces[k].lo = rhs.pieces[j].lo
          /\ r.pieces[k].hi = rhs.pieces[j].hi
          /\ r.pieces[k].final = rhs.pieces[j].final
      BY <1>1, <3>1
    <3>3. lo <= rhs.pieces[j].lo /\ rhs.pieces[j].hi <= hi
      BY <1>2, <1>4, <3>1
    <3>4. rhs.pieces[j].final <=> rhs.pieces[j].hi = n
      BY <1>4, <3>1
    <3>5. QED
      BY <3>2, <3>3, <3>4
  <2>3. QED
    BY <1>2, <2>1, <2>2
<1>10. ASSUME NEW j \in 1 .. m + l, NEW k \in 1 .. m + l, j < k
       PROVE  r.pieces[j].hi <= r.pieces[k].lo
  <2>1. CASE k \in 1 .. m
    <3>1. j \in 1 .. m
      BY <1>2, <1>10, <2>1
    <3>2. QED
      BY <1>1, <1>3, <1>10, <2>1, <3>1
  <2>2. CASE j \in 1 .. m /\ k > m
    <3>1. r.pieces[j] = bs.pieces[j] /\ bs.pieces[j].hi <= mid
      BY <1>1, <1>3, <2>2
    <3>2. r.pieces[k].lo = rhs.pieces[k - m].lo /\ mid <= rhs.pieces[k - m].lo
          /\ rhs.pieces[k - m].lo \in Nat
      <4>1. k - m \in 1 .. l /\ r.pieces[m + (k - m)] = r.pieces[k]
        BY <1>2, <1>7, <2>2
      <4>2. r.pieces[k].lo = rhs.pieces[k - m].lo
        BY <1>1, <4>1
      <4>3. QED
        BY <1>2, <1>4, <4>1, <4>2
    <3>3. bs.pieces[j].hi \in Nat
      BY <1>2, <2>2
    <3>4. QED
      BY <3>1, <3>2, <3>3
  <2>3. CASE j > m /\ k > m
    <3>1. /\ r.pieces[j].hi = rhs.pieces[j - m].hi
          /\ r.pieces[k].lo = rhs.pieces[k - m].lo
      BY <1>1, <1>7, <2>3
    <3>2. j - m \in 1 .. l /\ k - m \in 1 .. l /\ j - m < k - m
      BY <1>2, <1>7, <1>10, <2>3
    <3>3. QED
      BY <1>4, <3>1, <3>2
  <2>4. QED
    BY <1>2, <1>10, <2>1, <2>2, <2>3
<1>11. QED
  BY <1>1, <1>8, <1>9, <1>10 DEF Laid

LEMMA AppendStreamNotLonger ==
  ASSUME NEW bs \in Streams, NEW rhs \in Streams,
         NEW lo \in Nat, NEW mid \in Nat, NEW hi \in Nat,
         NotLonger(bs, lo, mid), NotLonger(rhs, mid, hi)
  PROVE  NotLonger(append_stream(bs, rhs), lo, hi)
<1> DEFINE r == append_stream(bs, rhs)
           m == Len(bs.pieces)
           l == Len(rhs.pieces)
           A == StoredIn(bs)
           B == StoredIn(rhs)
           C == {m + k : k \in B}
<1>1. /\ r \in Streams /\ r.bits = bs.bits + rhs.bits
      /\ Len(r.pieces) = m + l
      /\ \A k \in 1 .. m : r.pieces[k] = bs.pieces[k]
      /\ \A k \in 1 .. l : r.pieces[m + k].stored = rhs.pieces[k].stored
  BY AppendStreamIs
<1> SUFFICES NotLonger(r, lo, hi)
  OBVIOUS
<1> HIDE DEF r
<1>2. /\ bs.bits \in Nat /\ rhs.bits \in Nat /\ m \in Nat /\ l \in Nat
      /\ DOMAIN bs.pieces = 1 .. m /\ DOMAIN rhs.pieces = 1 .. l
      /\ DOMAIN r.pieces = 1 .. m + l
  BY <1>1, StreamType
<1>3. /\ IsFiniteSet(A) /\ Cardinality(A) \in Nat
      /\ IsFiniteSet(B) /\ Cardinality(B) \in Nat
  BY StoredInFinite
<1> HIDE DEF m, l
<1>4. A \subseteq 1 .. m /\ B \subseteq 1 .. l
  BY <1>2 DEF StoredIn
<1>5. StoredIn(r) = A \cup C
  <2>1. ASSUME NEW k \in 1 .. m + l
        PROVE  k \in StoredIn(r) <=> k \in A \cup C
    <3>1. CASE k \in 1 .. m
      <4>1. k \notin C
        BY <1>2, <1>4, <3>1
      <4>2. QED
        BY <1>1, <1>2, <3>1, <4>1 DEF StoredIn
    <3>2. CASE k > m
      <4> DEFINE j == k - m
      <4>1. j \in 1 .. l /\ k = m + j
        BY <1>2, <3>2
      <4> HIDE DEF j
      <4>2. k \notin A
        BY <1>2, <1>4, <3>2
      <4>3. r.pieces[k].stored = rhs.pieces[j].stored
        BY <1>1, <4>1
      <4>4. k \in C <=> j \in B
        BY <1>2, <1>4, <4>1
      <4>5. QED
        BY <1>2, <4>1, <4>2, <4>3, <4>4 DEF StoredIn
    <3>3. QED
      BY <1>2, <3>1, <3>2
  <2>2. StoredIn(r) \subseteq 1 .. m + l /\ A \cup C \subseteq 1 .. m + l
    BY <1>2, <1>4 DEF StoredIn
  <2>3. QED
    BY <2>1, <2>2
<1> HIDE DEF A, B
<1>6. IsFiniteSet(C) /\ Cardinality(C) = Cardinality(B)
  <2>1. ExistsBijection(B, C)
    <3> DEFINE f == [k \in B |-> m + k]
    <3>1. f \in [B -> C] /\ \A c \in C : \E k \in B : f[k] = c
      OBVIOUS
    <3>2. \A j, k \in B : f[j] = f[k] => j = k
      BY <1>2, <1>4
    <3>3. f \in Bijection(B, C)
      BY <3>1, <3>2 DEF Bijection, Injection, Surjection, IsInjective
    <3>4. QED
      BY <3>3 DEF ExistsBijection
  <2>2. QED
    BY <1>3, <2>1, FS_Bijection
<1>7. A \cap C = {}
  BY <1>2, <1>4
<1> HIDE DEF C
<1>8. Cardinality(StoredIn(r)) = Cardinality(A) + Cardinality(B)
  <2>1. Cardinality(A \cap C) = 0
    BY <1>7, FS_EmptySet
  <2>2. Cardinality(A \cup C)
        = Cardinality(A) + Cardinality(C) - Cardinality(A \cap C)
    BY <1>3, <1>6, FS_Union
  <2>3. QED
    BY <1>3, <1>5, <1>6, <2>1, <2>2
<1>9. /\ bs.bits <= 8 * (mid - lo) + 43 * Cardinality(A)
      /\ rhs.bits <= 8 * (hi - mid) + 43 * Cardinality(B)
  BY DEF NotLonger, A, B
<1>10. r.bits <= 8 * (hi - lo) + 43 * (Cardinality(A) + Cardinality(B))
  <2> DEFINE a == Cardinality(A)
             b == Cardinality(B)
  <2> HIDE DEF a, b
  <2>1. a \in Nat /\ b \in Nat
    BY <1>3 DEF a, b
  <2>2. bs.bits <= 8 * (mid - lo) + 43 * a /\ rhs.bits <= 8 * (hi - mid) + 43 * b
    BY <1>9 DEF a, b
  <2>3. bs.bits + rhs.bits <= 8 * (hi - lo) + 43 * (a + b)
    BY <1>2, <2>1, <2>2, SMTT(20)
  <2>4. QED
    BY <1>1, <2>3 DEF a, b
<1>11. QED
  BY <1>8, <1>10 DEF NotLonger

-------------------------------------------------------------------------------
(* Where the sections end.                                                 *)

LEMMA AsIntIs ==
  ASSUME NEW n \in Nat
  PROVE  /\ AsInt(n) \in Int
         /\ AsInt(0) = 0
         /\ n < IntMod /\ AsInt(n) > 0 => AsInt(n) = n
<1> DEFINE m == n % IntMod
<1>1. IntMod \in Nat \ {0}
  BY SectionsAssumption
<1>2. m \in 0 .. IntMod - 1 /\ (n < IntMod => m = n)
  <2>1. n < IntMod => n % IntMod = n
    BY <1>1
  <2>2. QED
    BY <1>1, <2>1, DivIs
<1>3. AsInt(n) = IF 2 * m < IntMod THEN m ELSE m - IntMod
  BY DEF AsInt
<1>4. AsInt(0) = 0
  BY <1>1 DEF AsInt
<1> HIDE DEF m
<1>5. QED
  BY <1>1, <1>2, <1>3, <1>4

LEMMA CountsAre ==
  ASSUME m_src_len \in Nat, m_thread_cnt \in Nat
  PROVE  /\ block_cnt \in Int /\ thread_cnt \in Int
         /\ thread_cnt <= block_cnt
<1>1. CeilDiv(m_src_len, DeflateBlockSize) \in Nat
  BY SectionsAssumption, RoundedUp DEF CeilDiv
<1>2. block_cnt \in Int /\ AsInt(m_thread_cnt) \in Int
  BY <1>1, AsIntIs DEF block_cnt
<1>3. QED
  BY <1>2 DEF thread_cnt, MinOf

\* The scheduler's loop comes to Cut(1), Cut(2), ...
LEMMA CutIs ==
  ASSUME m_src_len \in Nat, m_thread_cnt \in Nat, thread_cnt > 0
  PROVE  /\ m_src_len > 0
         /\ thread_cnt \in Nat
         /\ Cut(0) = 0
         /\ \A k \in Nat : /\ Cut(k) \in 0 .. m_src_len
                           /\ Cut(k) <= Cut(k + 1)
                           /\ section_end(Cut(k)) = Cut(k + 1)
<1> DEFINE blocks == CeilDiv(m_src_len, DeflateBlockSize)
           size == each_cnt * DeflateBlockSize
<1>1. DeflateBlockSize \in Nat \ {0}
  BY SectionsAssumption
<1>2. block_cnt \in Nat \ {0} /\ thread_cnt \in Nat \ {0}
  BY CountsAre
<1>3. m_src_len > 0
  <2>1. SUFFICES ASSUME m_src_len = 0 PROVE FALSE
    OBVIOUS
  <2>2. blocks = 0
    BY <1>1, <2>1, RoundedUp DEF CeilDiv
  <2>3. block_cnt = 0
    BY <2>2, AsIntIs DEF block_cnt
  <2>4. QED
    BY <1>2, <2>3
<1>4. each_cnt \in Nat \ {0}
  BY <1>2, RoundedUp DEF each_cnt, CeilDiv
<1>5. size \in Nat \ {0}
  <2>1. size \in Nat
    BY <1>1, <1>4
  <2>2. 1 * DeflateBlockSize <= each_cnt * DeflateBlockSize
    BY <1>1, <1>4, ProductMonotonic
  <2>3. QED
    BY <1>1, <2>1, <2>2
<1>6. /\ \A k : Cut(k) = MinOf(k * size, m_src_len)
      /\ \A p : section_end(p) = MinOf(p + size, m_src_len)
  BY DEF Cut, section_end
<1> HIDE DEF size
<1>7. Cut(0) = 0
  BY <1>3, <1>5, <1>6 DEF MinOf
<1>8. ASSUME NEW k \in Nat
      PROVE  /\ Cut(k) \in 0 .. m_src_len
             /\ Cut(k) <= Cut(k + 1)
             /\ section_end(Cut(k)) = Cut(k + 1)
  <2> DEFINE x == k * size
  <2>1. x \in Nat /\ (k + 1) * size = x + size
    BY <1>5
  <2> HIDE DEF x
  <2>2. /\ Cut(k) = MinOf(x, m_src_len)
        /\ Cut(k + 1) = MinOf(x + size, m_src_len)
        /\ section_end(Cut(k)) = MinOf(Cut(k) + size, m_src_len)
    BY <1>6, <2>1 DEF x
  <2>3. QED
    BY <1>5, <2>1, <2>2 DEF MinOf
<1>9. QED
  BY <1>2, <1>3, <1>7, <1>8

(***************************************************************************)
(* A source has fewer blocks than an int has values: 2^32 blocks of a      *)
(* megabyte.  With more, the number of blocks wraps to a smaller one, and  *)
(* the sections end before the source does.                                *)
(***************************************************************************)
BlocksFit == \A len \in SrcLens : CeilDiv(len, DeflateBlockSize) < IntMod

\* The last section ends where the source does.
LEMMA CutCovers ==
  ASSUME BlocksFit, m_src_len \in SrcLens, m_thread_cnt \in Nat,
         thread_cnt > 0
  PROVE  Cut(thread_cnt) = m_src_len
<1> DEFINE blocks == CeilDiv(m_src_len, DeflateBlockSize)
<1>1. DeflateBlockSize \in Nat \ {0} /\ m_src_len \in Nat
  BY SectionsAssumption
<1>2. thread_cnt \in Nat \ {0} /\ block_cnt \in Nat \ {0}
  BY <1>1, CountsAre
<1>3. blocks \in Nat /\ m_src_len <= blocks * DeflateBlockSize
  BY <1>1, RoundedUp DEF CeilDiv
<1>4. block_cnt = blocks
  BY <1>2, <1>3, AsIntIs DEF block_cnt, BlocksFit
<1>5. each_cnt \in Nat /\ block_cnt <= each_cnt * thread_cnt
  BY <1>2, RoundedUp DEF each_cnt, CeilDiv
<1> HIDE DEF blocks
<1>6. m_src_len <= thread_cnt * (each_cnt * DeflateBlockSize)
  <2>1. each_cnt * thread_cnt \in Nat
    BY <1>2, <1>5
  <2>2. block_cnt * DeflateBlockSize
        <= (each_cnt * thread_cnt) * DeflateBlockSize
    BY <1>1, <1>2, <1>5, <2>1, ProductMonotonic
  <2>3. (each_cnt * thread_cnt) * DeflateBlockSize
        = thread_cnt * (each_cnt * DeflateBlockSize)
    BY <1>1, <1>2, <1>5
  <2>4. /\ blocks * DeflateBlockSize \in Nat
        /\ thread_cnt * (each_cnt * DeflateBlockSize) \in Nat
    BY <1>1, <1>2, <1>3, <1>5
  <2>5. QED
    BY <1>1, <1>3, <1>4, <2>2, <2>3, <2>4
<1>7. thread_cnt * (each_cnt * DeflateBlockSize) \in Nat
  BY <1>1, <1>2, <1>5
<1>8. QED
  BY <1>1, <1>6, <1>7 DEF Cut, MinOf

\* Sections do not move while their source stays.
LEMMA CutUnchanged ==
  ASSUME UNCHANGED <<m_src_len, m_thread_cnt>>
  PROVE  /\ thread_cnt' = thread_cnt
         /\ \A k : Cut(k)' = Cut(k)
         /\ Cut(main.i)' = Cut(main'.i)
         /\ Cut(thread_cnt)' = Cut(thread_cnt)
<1>1. thread_cnt' = thread_cnt /\ each_cnt' = each_cnt
  BY DEF each_cnt, thread_cnt, block_cnt, CeilDiv, AsInt, MinOf
<1>2. QED
  BY <1>1 DEF Cut, MinOf

-------------------------------------------------------------------------------
(* Work threads.                                                           *)

(***************************************************************************)
(* What the locals of a thread mean, n bytes being the source: its stream  *)
(* holds its section up to p, and a block that is scanned is no longer     *)
(* than block_end lets it be.                                              *)
(***************************************************************************)
SectionOK(w, n) ==
  /\ w.st <= w.p /\ w.p <= w.ed /\ w.ed <= n
  /\ w.last_section <=> w.ed = n
  /\ Laid(w.bs, w.st, w.p, n)
  /\ Bounded(w.bs)
  /\ NotLonger(w.bs, w.st, w.p)
  /\ w.pc = "scan" =>
       /\ w.p < w.q /\ w.q <= w.ed
       /\ w.q - w.p <= 2 * DeflateBlockSize - 1
       /\ w.reported <= w.q - w.p
  /\ w.pc = "store" => w.p <= w.q /\ w.q <= w.ed
  /\ w.pc = "done" => w.p = w.ed

LEMMA WorkerType ==
  ASSUME NEW w \in Worker
  PROVE  /\ w.pc \in {"block", "scan", "store", "done"}
         /\ w.st \in Nat /\ w.ed \in Nat /\ w.p \in Nat /\ w.q \in Nat
         /\ w.reported \in Nat /\ w.last_section \in BOOLEAN
         /\ w.bs \in Streams
  BY DEF Worker

\* Fields of a thread that its steps assign together.
LEMMA ThreadEXCEPT ==
  ASSUME NEW th, NEW t, NEW pc, NEW p, NEW q, NEW reported, NEW bs,
         t \in DOMAIN th
  PROVE  /\ [th EXCEPT ![t].pc = pc, ![t].q = q, ![t].reported = reported]
            = [th EXCEPT ![t] = [th[t] EXCEPT !.pc = pc, !.q = q,
                                              !.reported = reported]]
         /\ [th EXCEPT ![t].reported = reported]
            = [th EXCEPT ![t] = [th[t] EXCEPT !.reported = reported]]
         /\ [th EXCEPT ![t].pc = pc]
            = [th EXCEPT ![t] = [th[t] EXCEPT !.pc = pc]]
         /\ [th EXCEPT ![t].pc = pc, ![t].p = p, ![t].bs = bs]
            = [th EXCEPT ![t] = [th[t] EXCEPT !.pc = pc, !.p = p, !.bs = bs]]
         /\ [th EXCEPT ![t].p = p, ![t].bs = bs]
            = [th EXCEPT ![t] = [th[t] EXCEPT !.p = p, !.bs = bs]]
  OBVIOUS

\* A block ends inside its section, and is shorter than two blocks.
LEMMA BlockEnd ==
  ASSUME NEW p \in Nat, NEW ed \in Nat, p < ed
  PROVE  LET q == block_end(p, ed)
         IN  q \in Nat /\ p < q /\ q <= ed /\ q - p <= 2 * DeflateBlockSize - 1
  BY SectionsAssumption DEF block_end, MinOf

\* A coded block, kept because it is shorter, is no longer than its bytes.
LEMMA CodedSection ==
  ASSUME NEW w \in Worker, NEW n \in Nat, SectionOK(w, n),
         w.pc = "scan", NEW b \in CodedSizes,
         ~ (CeilDiv(b, 8) >= w.q - w.p)
  PROVE  LET last_block == w.q = w.ed /\ w.last_section
             bs == append_coded(w.bs, b, w.p, w.q, last_block)
         IN  /\ bs \in Streams
             /\ Laid(bs, w.st, w.q, n)
             /\ Bounded(bs)
             /\ NotLonger(bs, w.st, w.q)
<1> DEFINE last_block == w.q = w.ed /\ w.last_section
           piece == [stored |-> FALSE, lo |-> w.p, hi |-> w.q,
                     final |-> last_block, at |-> w.bs.bits,
                     data |-> w.bs.bits + 3, size |-> b]
<1>1. /\ w.st \in Nat /\ w.ed \in Nat /\ w.p \in Nat /\ w.q \in Nat
      /\ w.last_section \in BOOLEAN /\ w.bs \in Streams
      /\ w.bs.bits \in Nat /\ b \in Nat
  BY WorkerType, StreamType, SectionsAssumption
<1>2. /\ w.st <= w.p /\ w.p < w.q /\ w.q <= w.ed /\ w.ed <= n
      /\ w.last_section <=> w.ed = n
      /\ w.q - w.p <= 2 * DeflateBlockSize - 1
      /\ Laid(w.bs, w.st, w.p, n) /\ Bounded(w.bs)
      /\ NotLonger(w.bs, w.st, w.p)
  BY DEF SectionOK
<1>3. last_block \in BOOLEAN /\ (last_block <=> w.q = n)
  BY <1>1, <1>2
<1> HIDE DEF last_block
<1>4. piece \in Piece
  BY <1>1, <1>3 DEF Piece
<1>5. /\ piece.lo = w.p /\ piece.hi = w.q /\ piece.at = w.bs.bits
      /\ piece.final = last_block /\ piece.stored = FALSE /\ piece.size = b
  OBVIOUS
<1>6. append_coded(w.bs, b, w.p, w.q, last_block) = append_piece(w.bs, piece)
  BY DEF append_coded
<1> HIDE DEF piece
<1>7. b <= 8 * (w.q - w.p)
  <2>1. /\ CeilDiv(b, 8) \in Nat
        /\ b <= CeilDiv(b, 8) * 8
    BY <1>1, RoundedUp DEF CeilDiv
  <2>2. QED
    BY <1>1, <2>1
<1>8. append_piece(w.bs, piece) \in Streams
  BY <1>1, <1>4, AppendPieceIs
<1>9. Laid(append_piece(w.bs, piece), w.st, w.q, n)
  BY <1>1, <1>2, <1>3, <1>4, <1>5, AppendPieceLaid
<1>10. Bounded(append_piece(w.bs, piece))
  <2>1. PieceBounded(piece)
    BY <1>2, <1>5 DEF PieceBounded
  <2>2. QED
    BY <1>1, <1>2, <1>4, <2>1, AppendPieceBounded
<1>11. NotLonger(append_piece(w.bs, piece), w.st, w.q)
  <2>1. piece.size <= 8 * (piece.hi - piece.lo)
                      + (IF piece.stored THEN 43 ELSE 0)
    BY <1>1, <1>5, <1>7
  <2>2. QED
    BY <1>1, <1>2, <1>4, <1>5, <2>1, AppendPieceNotLonger
<1>12. QED
  BY <1>6, <1>8, <1>9, <1>10, <1>11 DEF last_block

\* A sub-block takes its bytes, 32 bits of length, 3 of header and at most
\* 8 of padding.
LEMMA StoredSection ==
  ASSUME NEW w \in Worker, NEW n \in Nat, SectionOK(w, n),
         w.pc = "store", w.p < w.q
  PROVE  LET last_block == w.q = w.ed /\ w.last_section
             sub_block == MinOf(SubBlockSize, w.q - w.p)
             bs == store_sub_block(w.bs, w.p, w.p + sub_block,
                                   w.q - w.p, last_block)
         IN  /\ w.p + sub_block \in Nat
             /\ w.p + sub_block <= w.q
             /\ w.p < w.p + sub_block
             /\ bs \in Streams
             /\ Laid(bs, w.st, w.p + sub_block, n)
             /\ Bounded(bs)
             /\ NotLonger(bs, w.st, w.p + sub_block)
<1> DEFINE last_block == w.q = w.ed /\ w.last_section
           hi == w.p + MinOf(SubBlockSize, w.q - w.p)
           data == w.bs.bits + 3 + AlignBits(w.bs.bits + 3)
           final == last_block /\ hi - w.p = w.q - w.p
           size == data + 32 + 8 * (hi - w.p) - w.bs.bits
           piece == [stored |-> TRUE, lo |-> w.p, hi |-> hi,
                     final |-> final, at |-> w.bs.bits,
                     data |-> data, size |-> size]
<1>1. /\ w.st \in Nat /\ w.ed \in Nat /\ w.p \in Nat /\ w.q \in Nat
      /\ w.last_section \in BOOLEAN /\ w.bs \in Streams
      /\ w.bs.bits \in Nat
  BY WorkerType, StreamType
<1>2. /\ w.st <= w.p /\ w.q <= w.ed /\ w.ed <= n
      /\ w.last_section <=> w.ed = n
      /\ Laid(w.bs, w.st, w.p, n) /\ Bounded(w.bs)
      /\ NotLonger(w.bs, w.st, w.p)
  BY DEF SectionOK
<1>3. hi \in Nat /\ hi <= w.q /\ w.p < hi /\ hi - w.p <= SubBlockSize
  BY <1>1, SectionsAssumption DEF MinOf
<1>4. last_block \in BOOLEAN /\ (last_block <=> w.q = n)
  BY <1>1, <1>2
<1>5. data \in Nat /\ data - w.bs.bits \in 4 .. 11
  <2> DEFINE a == AlignBits(w.bs.bits + 3)
  <2>1. (w.bs.bits + 3) % 8 \in 0 .. 7
    BY <1>1
  <2>2. a \in 1 .. 8
    BY <2>1 DEF AlignBits
  <2>3. data = w.bs.bits + 3 + a
    BY DEF a
  <2> HIDE DEF a, data
  <2>4. QED
    BY <1>1, <2>2, <2>3
<1> HIDE DEF last_block, hi, data
<1>6. final \in BOOLEAN /\ (final <=> hi = n)
  BY <1>1, <1>2, <1>3, <1>4
<1>7. size \in Nat /\ size <= 8 * (hi - w.p) + 43
  BY <1>1, <1>3, <1>5
<1> HIDE DEF final, size
<1>8. piece \in Piece
  BY <1>1, <1>3, <1>5, <1>6, <1>7 DEF Piece
<1>9. /\ piece.lo = w.p /\ piece.hi = hi /\ piece.at = w.bs.bits
      /\ piece.final = final /\ piece.stored = TRUE /\ piece.size = size
  OBVIOUS
<1>10. store_sub_block(w.bs, w.p, hi, w.q - w.p, last_block)
       = append_piece(w.bs, piece)
  BY DEF store_sub_block, piece, final, size, data
<1> HIDE DEF piece
<1>11. append_piece(w.bs, piece) \in Streams
  BY <1>1, <1>8, AppendPieceIs
<1>12. Laid(append_piece(w.bs, piece), w.st, hi, n)
  BY <1>1, <1>2, <1>3, <1>6, <1>8, <1>9, AppendPieceLaid
<1>13. Bounded(append_piece(w.bs, piece))
  <2>1. PieceBounded(piece)
    BY <1>3, <1>9 DEF PieceBounded
  <2>2. QED
    BY <1>1, <1>2, <1>8, <2>1, AppendPieceBounded
<1>14. NotLonger(append_piece(w.bs, piece), w.st, hi)
  <2>1. piece.size <= 8 * (piece.hi - piece.lo)
                      + (IF piece.stored THEN 43 ELSE 0)
    BY <1>1, <1>3, <1>7, <1>9
  <2>2. QED
    BY <1>1, <1>2, <1>8, <1>9, <2>1, AppendPieceNotLonger
<1>15. QED
  BY <1>3, <1>10, <1>11, <1>12, <1>13, <1>14 DEF last_block, hi
-------------------------------------------------------------------------------
(* The inductive invariant.                                                *)

Running == main.pc \in {"spawn", "join", "hide", "concat"}

\* Thread t has the section from Cut(t - 1) to Cut(t), whenever it runs.
ThreadsOK ==
  \A t \in DOMAIN thread :
    /\ thread[t].st = Cut(t - 1) /\ thread[t].ed = Cut(t)
    /\ SectionOK(thread[t], m_src_len)

\* The calling thread: which threads there are, and which are done.
MainOK ==
  /\ m_src_len \in SrcLens
  /\ thread # <<>> => thread_cnt > 0
  /\ main.pc = "idle" => thread = <<>>
  /\ Running => thread_cnt > 0 /\ main.i <= thread_cnt
  /\ main.pc = "spawn" => Len(thread) = main.i /\ main.p = Cut(main.i)
  /\ main.pc \in {"join", "hide", "concat"} => Len(thread) = thread_cnt
  /\ main.pc = "join" => \A t \in 1 .. main.i : thread[t].pc = "done"
  /\ main.pc \in {"hide", "concat"} =>
       \A t \in 1 .. thread_cnt : thread[t].pc = "done"

\* The result: the streams of the first main.i threads; of all, in the end.
ResultOK ==
  /\ main.pc \in {"spawn", "join", "hide"} => m_res = EmptyStream
  /\ main.pc = "concat" =>
       /\ Laid(m_res, 0, Cut(main.i), m_src_len)
       /\ NotLonger(m_res, 0, Cut(main.i))
  /\ m_finish =>
       /\ main.pc = "idle" /\ thread_cnt > 0
       /\ Laid(m_res, 0, Cut(thread_cnt), m_src_len)
       /\ NotLonger(m_res, 0, Cut(thread_cnt))

\* The bar: 100 % is the source, and it is full once it has been filled.
BarOK ==
  /\ m_accumulate <= m_workload
  /\ Running \/ thread # <<>> => m_workload = m_src_len /\ m_src_len > 0
  /\ main.pc \in {"spawn", "join", "hide"} => m_display_flag
  /\ main.pc \in {"hide", "concat"} \/ m_finish =>
       line = [fill |-> Width, full |-> TRUE]

IInv == TypeOK /\ MainOK /\ ThreadsOK /\ ResultOK /\ BarOK

LEMMA InitEstablishes == Init => IInv
<1> SUFFICES ASSUME Init PROVE IInv
  OBVIOUS
<1>1. m_src_len \in SrcLens /\ m_src_len \in Nat
      /\ m_thread_cnt \in Nat
  BY SectionsAssumption DEF Init
<1>2. /\ m_finish = FALSE /\ main.pc = "idle" /\ thread = <<>>
      /\ m_res \in Streams
  BY EmptyStreamLaid DEF Init
<1>3. BarTypeOK /\ m_accumulate <= m_workload
  <2>1. 0 \in 0 .. Width
    BY WidthAssumption
  <2>2. line \in [fill : 0 .. Width, full : BOOLEAN]
    BY <2>1 DEF Init, BarInit, Blank
  <2>3. m_display_flag \in BOOLEAN
    BY DEF Init, BarInit
  <2>4. m_workload = 0 /\ m_accumulate = 0 /\ m_fill_cnt = 0
    BY DEF Init, BarInit
  <2>5. QED
    BY <2>1, <2>2, <2>3, <2>4 DEF BarTypeOK
<1>4. TypeOK
  <2>1. thread \in Seq(Worker) /\ Len(thread) = 0
    BY <1>2
  <2>2. main \in [pc : {"idle", "spawn", "join", "hide", "concat",
                        "crashed", "terminated"}, i : Nat, p : Nat]
    BY DEF Init
  <2>3. m_finish \in BOOLEAN
    BY DEF Init
  <2>4. QED
    BY <1>1, <1>2, <1>3, <2>1, <2>2, <2>3 DEF TypeOK
<1>5. MainOK /\ ThreadsOK /\ ResultOK /\ BarOK
  BY <1>1, <1>2, <1>3 DEF MainOK, ThreadsOK, ResultOK, BarOK, Running
<1>6. QED
  BY <1>4, <1>5 DEF IInv

\* A step of thread t that makes it v.
LEMMA WorkerStep ==
  ASSUME IInv, NEW t \in 1 .. Len(thread), NEW v \in Worker,
         thread[t].pc # "done",
         v.st = thread[t].st, v.ed = thread[t].ed,
         SectionOK(v, m_src_len),
         thread' = [thread EXCEPT ![t] = v],
         UNCHANGED <<comp_vars, main>>, BarTypeOK'
  PROVE  TypeOK' /\ MainOK' /\ ThreadsOK' /\ ResultOK'
<1>1. /\ m_src_len' = m_src_len /\ m_thread_cnt' = m_thread_cnt
      /\ m_finish' = m_finish /\ m_res' = m_res /\ main' = main
  BY DEF comp_vars
<1>2. thread_cnt' = thread_cnt /\ \A k : Cut(k)' = Cut(k)
  BY <1>1, CutUnchanged
<1>3. /\ thread' \in Seq(Worker) /\ Len(thread') = Len(thread)
      /\ DOMAIN thread' = DOMAIN thread
      /\ thread'[t] = v
      /\ \A u \in DOMAIN thread : u # t => thread'[u] = thread[u]
  BY DEF IInv, TypeOK
<1>4. TypeOK'
  <2>1. TypeOK
    BY DEF IInv
  <2>2. QED
    BY <1>1, <1>2, <1>3, <2>1 DEF TypeOK
<1>5. ThreadsOK'
  <2>1. SUFFICES ASSUME NEW u \in DOMAIN thread'
                 PROVE  /\ thread'[u].st = Cut(u - 1)
                        /\ thread'[u].ed = Cut(u)
                        /\ SectionOK(thread'[u], m_src_len)
    BY <1>1, <1>2 DEF ThreadsOK
  <2>2. /\ thread[u].st = Cut(u - 1) /\ thread[u].ed = Cut(u)
        /\ SectionOK(thread[u], m_src_len)
    BY <1>3 DEF IInv, ThreadsOK
  <2>3. QED
    BY <1>3, <2>2
<1>6. MainOK'
  <2>1. MainOK /\ Len(thread) \in Nat /\ thread \in Seq(Worker)
    BY DEF IInv, TypeOK
  <2>2. \A u \in 1 .. Len(thread) :
          thread[u].pc = "done" => thread'[u].pc = "done"
    BY <1>3
  <2>3. thread # <<>> /\ thread' # <<>>
    BY <1>3, <2>1
  <2>4. main.pc = "join" => \A u \in 1 .. main.i : thread'[u].pc = "done"
    <3>1. SUFFICES ASSUME main.pc = "join", NEW u \in 1 .. main.i
                   PROVE  thread'[u].pc = "done"
      OBVIOUS
    <3>2. u \in 1 .. Len(thread) /\ thread[u].pc = "done"
      BY <2>1, <3>1 DEF MainOK, Running, IInv, TypeOK
    <3>3. QED
      BY <2>2, <3>2
  <2>5. main.pc \in {"hide", "concat"} =>
          \A u \in 1 .. thread_cnt : thread'[u].pc = "done"
    BY <2>1, <2>2 DEF MainOK, Running
  <2>6. main.pc # "idle"
    BY <2>1, <2>3 DEF MainOK
  <2>7. Running' <=> Running
    BY <1>1 DEF Running
  <2>8. QED
    BY <1>1, <1>2, <1>3, <2>1, <2>3, <2>4, <2>5, <2>6, <2>7 DEF MainOK
<1>7. ResultOK'
  <2>1. ResultOK
    BY DEF IInv
  <2>2. QED
    BY <1>1, <1>2, <2>1 DEF ResultOK
<1>8. QED
  BY <1>4, <1>5, <1>6, <1>7
-------------------------------------------------------------------------------
(* The steps of a work thread.                                             *)

\* Thread t has gone on, or stayed where it was.
WentOn(t) ==
  \E v \in Worker : /\ thread' = [thread EXCEPT ![t] = v]
                    /\ ScannedBy(thread[t]) <= ScannedBy(v)

LEMMA ScannedByIs ==
  ASSUME NEW w \in Worker
  PROVE  /\ ScannedBy(w) \in Int
         /\ w.pc = "scan" => ScannedBy(w) = w.p + w.reported - w.st
         /\ w.pc = "store" => ScannedBy(w) = w.q - w.st
         /\ w.pc \in {"block", "done"} => ScannedBy(w) = w.p - w.st
<1>1. /\ w.pc \in {"block", "scan", "store", "done"}
      /\ w.st \in Nat /\ w.p \in Nat /\ w.q \in Nat /\ w.reported \in Nat
  BY WorkerType
<1>2. CASE w.pc = "scan"
  BY <1>1, <1>2 DEF ScannedBy
<1>3. CASE w.pc = "store"
  BY <1>1, <1>3 DEF ScannedBy
<1>4. CASE w.pc \in {"block", "done"}
  BY <1>1, <1>4 DEF ScannedBy
<1>5. QED
  BY <1>1, <1>2, <1>3, <1>4

LEMMA BarUnchanged ==
  ASSUME IInv, UNCHANGED bar_vars
  PROVE  BarTypeOK'
  BY DEF IInv, TypeOK, BarTypeOK, bar_vars

\* A step of a thread that does not report.
LEMMA SilentStep ==
  ASSUME IInv, NEW t \in 1 .. Len(thread), NEW v \in Worker,
         thread[t].pc # "done",
         v.st = thread[t].st, v.ed = thread[t].ed,
         SectionOK(v, m_src_len), ScannedBy(thread[t]) <= ScannedBy(v),
         thread' = [thread EXCEPT ![t] = v],
         WorkerUnchanged, UNCHANGED bar_vars
  PROVE  IInv' /\ WentOn(t)
<1>1. UNCHANGED <<comp_vars, main>> /\ BarTypeOK'
  BY BarUnchanged DEF WorkerUnchanged
<1>2. TypeOK' /\ MainOK' /\ ThreadsOK' /\ ResultOK'
  BY <1>1, WorkerStep
<1>3. thread # <<>>
  BY DEF IInv, TypeOK
<1>4. BarOK'
  BY <1>1, <1>3 DEF IInv, BarOK, Running, comp_vars, bar_vars
<1>5. WentOn(t)
  BY DEF WentOn
<1>6. QED
  BY <1>2, <1>4, <1>5 DEF IInv

LEMMA ThreadIs ==
  ASSUME IInv, NEW t \in 1 .. Len(thread)
  PROVE  /\ thread[t] \in Worker
         /\ SectionOK(thread[t], m_src_len)
         /\ m_src_len \in Nat
         /\ t \in DOMAIN thread
  BY DEF IInv, TypeOK, ThreadsOK

LEMMA StartBlockPreserves ==
  ASSUME IInv, NEW t \in 1 .. Len(thread), StartBlock(t)
  PROVE  IInv' /\ WentOn(t)
<1> DEFINE w == thread[t]
           q == block_end(w.p, w.ed)
           v == [w EXCEPT !.pc = "scan", !.q = q, !.reported = 0]
<1>1. /\ w \in Worker /\ SectionOK(w, m_src_len)
      /\ m_src_len \in Nat /\ t \in DOMAIN thread
  BY ThreadIs
<1>2. /\ w.pc = "block" /\ w.p < w.ed
      /\ thread' = [thread EXCEPT ![t].pc = "scan", ![t].q = q,
                                  ![t].reported = 0]
      /\ WorkerUnchanged /\ UNCHANGED bar_vars
  BY DEF StartBlock
<1>3. w.p \in Nat /\ w.ed \in Nat
  BY <1>1, WorkerType
<1>4. q \in Nat /\ w.p < q /\ q <= w.ed
      /\ q - w.p <= 2 * DeflateBlockSize - 1
  BY <1>2, <1>3, BlockEnd
<1> HIDE DEF q
<1>5. thread' = [thread EXCEPT ![t] = v]
  BY <1>1, <1>2, ThreadEXCEPT
<1>6. /\ v \in Worker /\ v.pc = "scan" /\ v.q = q /\ v.reported = 0
      /\ v.st = w.st /\ v.ed = w.ed /\ v.last_section = w.last_section
      /\ v.p = w.p /\ v.bs = w.bs
  <2> HIDE DEF w
  <2>1. QED
    BY <1>1, <1>4 DEF Worker
<1> HIDE DEF v
<1>7. SectionOK(v, m_src_len)
  <2> HIDE DEF w
  <2>1. QED
    BY <1>1, <1>3, <1>4, <1>6 DEF SectionOK
<1>8. ScannedBy(w) <= ScannedBy(v)
  <2> HIDE DEF w
  <2>1. QED
    BY <1>1, <1>2, <1>3, <1>4, <1>6, WorkerType, ScannedByIs DEF SectionOK
<1>9. QED
  BY <1>1, <1>2, <1>5, <1>6, <1>7, <1>8, SilentStep

LEMMA EncodePreserves ==
  ASSUME IInv, NEW t \in 1 .. Len(thread), Encode(t)
  PROVE  IInv' /\ WentOn(t)
<1> DEFINE w == thread[t]
           last_block == w.q = w.ed /\ w.last_section
<1>1. /\ w \in Worker /\ SectionOK(w, m_src_len)
      /\ m_src_len \in Nat /\ t \in DOMAIN thread
  BY ThreadIs
<1>2. w.pc = "scan" /\ WorkerUnchanged /\ UNCHANGED bar_vars
  BY DEF Encode
<1>3. PICK b \in CodedSizes :
        thread' =
          IF CeilDiv(b, 8) >= w.q - w.p
          THEN [thread EXCEPT ![t].pc = "store"]
          ELSE [thread EXCEPT ![t].pc = "block", ![t].p = w.q,
                  ![t].bs = append_coded(w.bs, b, w.p, w.q, last_block)]
  BY DEF Encode
<1>4. /\ w.p \in Nat /\ w.q \in Nat /\ w.ed \in Nat /\ w.reported \in Nat
      /\ w.st \in Nat /\ w.bs \in Streams
  BY <1>1, WorkerType
<1>5. CASE CeilDiv(b, 8) >= w.q - w.p
  <2> DEFINE v == [w EXCEPT !.pc = "store"]
  <2>1. thread' = [thread EXCEPT ![t] = v]
    BY <1>1, <1>3, <1>5, ThreadEXCEPT
  <2>2. /\ v \in Worker /\ v.pc = "store" /\ v.q = w.q
        /\ v.st = w.st /\ v.ed = w.ed /\ v.last_section = w.last_section
        /\ v.p = w.p /\ v.bs = w.bs
    <3> HIDE DEF w
    <3>1. QED
      BY <1>1, <1>4 DEF Worker
  <2> HIDE DEF v
  <2>3. SectionOK(v, m_src_len)
    <3> HIDE DEF w
    <3>1. QED
      BY <1>1, <1>2, <1>4, <2>2 DEF SectionOK
  <2>4. ScannedBy(w) <= ScannedBy(v)
    <3> HIDE DEF w
    <3>1. ScannedBy(w) = w.p + w.reported - w.st
      BY <1>1, <1>2, ScannedByIs
    <3>2. ScannedBy(v) = w.q - w.st
      BY <2>2, ScannedByIs
    <3>3. w.reported <= w.q - w.p
      BY <1>1, <1>2 DEF SectionOK
    <3>4. QED
      BY <1>4, <3>1, <3>2, <3>3
  <2>5. QED
    BY <1>1, <1>2, <2>1, <2>2, <2>3, <2>4, SilentStep
<1>6. CASE ~ (CeilDiv(b, 8) >= w.q - w.p)
  <2> DEFINE bs == append_coded(w.bs, b, w.p, w.q, last_block)
             v == [w EXCEPT !.pc = "block", !.p = w.q, !.bs = bs]
  <2>1. /\ bs \in Streams /\ Laid(bs, w.st, w.q, m_src_len)
        /\ Bounded(bs) /\ NotLonger(bs, w.st, w.q)
    BY <1>1, <1>2, <1>6, CodedSection
  <2> HIDE DEF bs
  <2>2. thread' = [thread EXCEPT ![t].pc = "block", ![t].p = w.q,
                                 ![t].bs = bs]
    BY <1>3, <1>6 DEF bs
  <2>3. thread' = [thread EXCEPT ![t] = v]
    BY <1>1, <2>2, ThreadEXCEPT
  <2>4. /\ v \in Worker /\ v.pc = "block" /\ v.q = w.q
        /\ v.st = w.st /\ v.ed = w.ed /\ v.last_section = w.last_section
        /\ v.p = w.q /\ v.bs = bs
    <3> HIDE DEF w
    <3>1. QED
      BY <1>1, <1>4, <2>1 DEF Worker
  <2> HIDE DEF v
  <2>5. SectionOK(v, m_src_len)
    <3> HIDE DEF w, last_block
    <3>1. QED
      BY <1>1, <1>2, <1>4, <2>1, <2>4 DEF SectionOK
  <2>6. ScannedBy(w) <= ScannedBy(v)
    <3> HIDE DEF w
    <3>1. ScannedBy(w) = w.p + w.reported - w.st
      BY <1>1, <1>2, ScannedByIs
    <3>2. ScannedBy(v) = w.q - w.st
      BY <2>4, ScannedByIs
    <3>3. w.reported <= w.q - w.p
      BY <1>1, <1>2 DEF SectionOK
    <3>4. QED
      BY <1>4, <3>1, <3>2, <3>3
  <2>7. QED
    BY <1>1, <1>2, <2>3, <2>4, <2>5, <2>6, SilentStep
<1>7. QED
  BY <1>5, <1>6

LEMMA StorePreserves ==
  ASSUME IInv, NEW t \in 1 .. Len(thread), Store(t)
  PROVE  IInv' /\ WentOn(t)
<1> DEFINE w == thread[t]
           last_block == w.q = w.ed /\ w.last_section
           hi == w.p + MinOf(SubBlockSize, w.q - w.p)
           bs == store_sub_block(w.bs, w.p, hi, w.q - w.p, last_block)
           v == [w EXCEPT !.p = hi, !.bs = bs]
<1>1. /\ w \in Worker /\ SectionOK(w, m_src_len)
      /\ m_src_len \in Nat /\ t \in DOMAIN thread
  BY ThreadIs
<1>2. /\ w.pc = "store" /\ w.p < w.q
      /\ WorkerUnchanged /\ UNCHANGED bar_vars
      /\ thread' = [thread EXCEPT ![t].p = hi, ![t].bs = bs]
  BY DEF Store
<1>3. /\ hi \in Nat /\ hi <= w.q /\ w.p < hi
      /\ bs \in Streams /\ Laid(bs, w.st, hi, m_src_len)
      /\ Bounded(bs) /\ NotLonger(bs, w.st, hi)
  BY <1>1, <1>2, StoredSection
<1>4. /\ w.p \in Nat /\ w.q \in Nat /\ w.ed \in Nat /\ w.reported \in Nat
      /\ w.st \in Nat
  BY <1>1, WorkerType
<1> HIDE DEF bs, hi, last_block
<1>5. thread' = [thread EXCEPT ![t] = v]
  BY <1>1, <1>2, ThreadEXCEPT
<1>6. /\ v \in Worker /\ v.pc = "store" /\ v.q = w.q
      /\ v.st = w.st /\ v.ed = w.ed /\ v.last_section = w.last_section
      /\ v.p = hi /\ v.bs = bs
  <2> HIDE DEF w
  <2>1. QED
    BY <1>1, <1>2, <1>3, <1>4 DEF Worker
<1> HIDE DEF v
<1>7. SectionOK(v, m_src_len)
  <2> HIDE DEF w
  <2>1. QED
    BY <1>1, <1>2, <1>3, <1>4, <1>6 DEF SectionOK
<1>8. ScannedBy(w) <= ScannedBy(v)
  <2> HIDE DEF w
  <2>1. QED
    BY <1>1, <1>2, <1>4, <1>6, WorkerType, ScannedByIs DEF SectionOK
<1>9. QED
  BY <1>1, <1>2, <1>5, <1>6, <1>7, <1>8, SilentStep

LEMMA StoredPreserves ==
  ASSUME IInv, NEW t \in 1 .. Len(thread), Stored(t)
  PROVE  IInv' /\ WentOn(t)
<1> DEFINE w == thread[t]
           v == [w EXCEPT !.pc = "block"]
<1>1. /\ w \in Worker /\ SectionOK(w, m_src_len)
      /\ m_src_len \in Nat /\ t \in DOMAIN thread
  BY ThreadIs
<1>2. /\ w.pc = "store" /\ WorkerUnchanged /\ UNCHANGED bar_vars
      /\ w.p = w.q
      /\ thread' = [thread EXCEPT ![t].pc = "block"]
  BY DEF Stored
<1>3. thread' = [thread EXCEPT ![t] = v]
  BY <1>1, <1>2, ThreadEXCEPT
<1>4. /\ w.p \in Nat /\ w.q \in Nat /\ w.reported \in Nat
      /\ w.bs \in Streams /\ w.st \in Nat
  BY <1>1, WorkerType
<1>5. /\ v \in Worker /\ v.pc = "block" /\ v.q = w.q
      /\ v.st = w.st /\ v.ed = w.ed /\ v.last_section = w.last_section
      /\ v.p = w.p /\ v.bs = w.bs
  <2> HIDE DEF w
  <2>1. QED
    BY <1>1, <1>4 DEF Worker
<1> HIDE DEF v
<1>6. SectionOK(v, m_src_len)
  <2> HIDE DEF w
  <2>1. QED
    BY <1>1, <1>2, <1>5 DEF SectionOK
<1>7. ScannedBy(w) <= ScannedBy(v)
  <2> HIDE DEF w
  <2>1. QED
    BY <1>1, <1>2, <1>4, <1>5, WorkerType, ScannedByIs DEF SectionOK
<1>8. QED
  BY <1>1, <1>2, <1>3, <1>5, <1>6, <1>7, SilentStep

LEMMA FinishPreserves ==
  ASSUME IInv, NEW t \in 1 .. Len(thread), Finish(t)
  PROVE  IInv' /\ WentOn(t)
<1> DEFINE w == thread[t]
           v == [w EXCEPT !.pc = "done"]
<1>1. /\ w \in Worker /\ SectionOK(w, m_src_len)
      /\ m_src_len \in Nat /\ t \in DOMAIN thread
  BY ThreadIs
<1>2. /\ w.pc = "block" /\ WorkerUnchanged /\ UNCHANGED bar_vars
      /\ w.p >= w.ed
      /\ thread' = [thread EXCEPT ![t].pc = "done"]
  BY DEF Finish
<1>3. thread' = [thread EXCEPT ![t] = v]
  BY <1>1, <1>2, ThreadEXCEPT
<1>4. /\ w.p \in Nat /\ w.q \in Nat /\ w.ed \in Nat /\ w.reported \in Nat
      /\ w.bs \in Streams
  BY <1>1, WorkerType
<1>5. /\ v \in Worker /\ v.pc = "done" /\ v.q = w.q
      /\ v.st = w.st /\ v.ed = w.ed /\ v.last_section = w.last_section
      /\ v.p = w.p /\ v.bs = w.bs
  <2> HIDE DEF w
  <2>1. QED
    BY <1>1, <1>4 DEF Worker
<1> HIDE DEF v
<1>6. SectionOK(v, m_src_len)
  <2> HIDE DEF w
  <2>1. QED
    BY <1>1, <1>2, <1>4, <1>5 DEF SectionOK
<1>7. ScannedBy(w) <= ScannedBy(v)
  <2> HIDE DEF w
  <2>1. QED
    BY <1>1, <1>2, <1>4, <1>5, WorkerType, ScannedByIs DEF SectionOK
<1>8. QED
  BY <1>1, <1>2, <1>3, <1>5, <1>6, <1>7, SilentStep

LEMMA WorkPreserves ==
  ASSUME IInv, NEW t \in 1 .. Len(thread), Work(t)
  PROVE  IInv' /\ WentOn(t)
  BY StartBlockPreserves, EncodePreserves, StorePreserves, StoredPreserves,
     FinishPreserves DEF Work
-------------------------------------------------------------------------------
(* The bar.                                                                *)

\* Drawing the bar: no more cells than there are, all of them at 100 %.
LEMMA RefreshIs ==
  ASSUME BarTypeOK, m_workload > 0, NEW acc \in 0 .. m_workload, refresh(acc)
  PROVE  /\ m_fill_cnt' \in 0 .. Width
         /\ line' \in [fill : 0 .. Width, full : BOOLEAN]
         /\ m_display_flag /\ acc = m_workload =>
              line' = [fill |-> Width, full |-> TRUE]
<1> DEFINE fill == (acc * Width) \div m_workload
<1>1. m_workload \in Nat \ {0} /\ Width \in Nat /\ acc \in Nat
  BY WidthAssumption DEF BarTypeOK
<1>2. fill \in 0 .. Width
  BY <1>1, ShareAtMost
<1>3. acc = m_workload => fill = Width
  BY <1>1, WholeShare
<1>4. /\ m_fill_cnt' = fill
      /\ line' = IF m_display_flag
                    /\ (fill # m_fill_cnt \/ acc >= m_workload)
                 THEN [fill |-> fill, full |-> acc = m_workload]
                 ELSE line
  BY DEF refresh
<1> HIDE DEF fill
<1>5. line' \in [fill : 0 .. Width, full : BOOLEAN]
  <2> DEFINE full == acc = m_workload
  <2>1. full \in BOOLEAN
    OBVIOUS
  <2>2. line' \in {[fill |-> fill, full |-> full], line}
    BY <1>4
  <2> HIDE DEF full
  <2>3. [fill |-> fill, full |-> full] \in [fill : 0 .. Width, full : BOOLEAN]
    BY <1>2, <2>1
  <2>4. line \in [fill : 0 .. Width, full : BOOLEAN]
    BY DEF BarTypeOK
  <2>5. QED
    BY <2>2, <2>3, <2>4
<1>6. ASSUME m_display_flag, acc = m_workload
      PROVE  line' = [fill |-> Width, full |-> TRUE]
  <2>1. acc >= m_workload /\ fill = Width /\ (acc = m_workload) = TRUE
    BY <1>1, <1>3, <1>6
  <2>2. line' = [fill |-> fill, full |-> acc = m_workload]
    BY <1>4, <1>6, <2>1
  <2>3. QED
    BY <2>1, <2>2
<1>7. QED
  BY <1>2, <1>4, <1>5, <1>6

\* A report: the bar is moved by no more than what is reported.
LEMMA IncreaseIs ==
  ASSUME BarTypeOK, m_workload > 0, m_accumulate <= m_workload,
         NEW delta \in Nat, increase_progress(delta)
  PROVE  /\ BarTypeOK'
         /\ m_workload' = m_workload /\ m_display_flag' = m_display_flag
         /\ m_accumulate' <= m_workload
         /\ m_accumulate <= m_accumulate'
         /\ m_accumulate' <= m_accumulate + delta
<1> DEFINE sum == m_accumulate + delta
           acc == IF sum > m_workload THEN m_workload ELSE sum
<1>1. m_accumulate \in Nat /\ m_workload \in Nat
  BY DEF BarTypeOK
<1>2. /\ m_accumulate' = acc /\ refresh(acc)
      /\ m_workload' = m_workload /\ m_display_flag' = m_display_flag
  BY DEF increase_progress
<1>3. /\ acc \in 0 .. m_workload
      /\ m_accumulate <= acc /\ acc <= m_accumulate + delta
  BY <1>1
<1> HIDE DEF acc
<1>4. /\ m_fill_cnt' \in 0 .. Width
      /\ line' \in [fill : 0 .. Width, full : BOOLEAN]
  BY <1>2, <1>3, RefreshIs
<1>5. m_display_flag' \in BOOLEAN
  BY <1>2 DEF BarTypeOK
<1>6. QED
  BY <1>1, <1>2, <1>3, <1>4, <1>5 DEF BarTypeOK

LEMMA ReportPreserves ==
  ASSUME IInv, NEW t \in 1 .. Len(thread), Report(t)
  PROVE  IInv'
<1> DEFINE w == thread[t]
<1>1. /\ w \in Worker /\ SectionOK(w, m_src_len)
      /\ m_src_len \in Nat /\ t \in DOMAIN thread
  BY ThreadIs
<1>2. /\ w.p \in Nat /\ w.q \in Nat /\ w.reported \in Nat
      /\ ReportOver \in Nat
  BY <1>1, WorkerType, SectionsAssumption
<1>3. w.pc = "scan" /\ WorkerUnchanged
  BY DEF Report
<1>4. PICK delta \in ReportOver + 1 .. w.q - w.p - w.reported :
        /\ increase_progress(delta)
        /\ thread' = [thread EXCEPT ![t].reported = @ + delta]
  BY DEF Report
<1>5. delta \in Nat /\ w.reported + delta \in Nat
      /\ w.reported + delta <= w.q - w.p
  BY <1>2
<1> DEFINE reported == w.reported + delta
           v == [w EXCEPT !.reported = reported]
<1>6. thread' = [thread EXCEPT ![t] = v]
  BY <1>1, <1>4
<1> HIDE DEF reported
<1>7. /\ v \in Worker /\ v.pc = "scan" /\ v.q = w.q
      /\ v.reported = reported
      /\ v.st = w.st /\ v.ed = w.ed /\ v.last_section = w.last_section
      /\ v.p = w.p /\ v.bs = w.bs
  <2> HIDE DEF w
  <2>1. reported \in Nat
    BY <1>5 DEF reported
  <2>2. QED
    BY <1>1, <1>3, <2>1 DEF Worker
<1>8. reported <= w.q - w.p
  BY <1>5 DEF reported
<1> HIDE DEF v
<1>9. SectionOK(v, m_src_len)
  <2> HIDE DEF w
  <2>1. QED
    BY <1>1, <1>3, <1>7, <1>8 DEF SectionOK
<1>10. thread # <<>>
  BY DEF IInv, TypeOK
<1>11. /\ BarTypeOK /\ m_accumulate <= m_workload
       /\ m_workload = m_src_len /\ m_src_len > 0
  BY <1>10 DEF IInv, BarOK, TypeOK
<1>12. /\ BarTypeOK' /\ m_workload' = m_workload
       /\ m_display_flag' = m_display_flag
       /\ m_accumulate' <= m_workload
  BY <1>4, <1>5, <1>11, IncreaseIs
<1>13. TypeOK' /\ MainOK' /\ ThreadsOK' /\ ResultOK'
  BY <1>3, <1>6, <1>7, <1>9, <1>12, WorkerStep DEF WorkerUnchanged
<1>14. ~ (main.pc \in {"hide", "concat"} \/ m_finish)
  <2>1. MainOK /\ ResultOK /\ Len(thread) \in Nat
    BY DEF IInv, TypeOK
  <2>2. main.pc \notin {"hide", "concat"}
    BY <1>3, <2>1 DEF MainOK
  <2>3. main.pc # "idle"
    BY <1>10, <2>1 DEF MainOK
  <2>4. QED
    BY <2>1, <2>2, <2>3 DEF ResultOK
<1>15. BarOK'
  <2>1. main' = main /\ m_finish' = m_finish /\ m_src_len' = m_src_len
    BY <1>3 DEF WorkerUnchanged, comp_vars
  <2>2. main.pc \in {"spawn", "join", "hide"} => m_display_flag
    BY DEF IInv, BarOK
  <2>3. QED
    BY <1>11, <1>12, <1>14, <2>1, <2>2 DEF BarOK
<1>16. QED
  BY <1>13, <1>15 DEF IInv
-------------------------------------------------------------------------------
(* The steps of the calling thread.                                        *)

MainStates == [pc : {"idle", "spawn", "join", "hide", "concat",
                     "crashed", "terminated"}, i : Nat, p : Nat]

LEMMA StateIs ==
  ASSUME IInv
  PROVE  /\ m_src_len \in Nat /\ m_thread_cnt \in Nat
         /\ m_finish \in BOOLEAN /\ m_res \in Streams
         /\ main \in MainStates /\ main.i \in Nat /\ main.p \in Nat
         /\ thread \in Seq(Worker) /\ Len(thread) \in Nat
         /\ thread_cnt \in Int
  <1>1. TypeOK
    BY DEF IInv
  <1>2. main \in MainStates
    BY <1>1 DEF TypeOK, MainStates
  <1>3. main.i \in Nat /\ main.p \in Nat
    BY <1>2 DEF MainStates
  <1>4. thread_cnt \in Int
    BY <1>1, CountsAre DEF TypeOK
  <1>5. QED
    BY <1>1, <1>2, <1>3, <1>4 DEF TypeOK

\* What a step that leaves the content, the result and the bar alone keeps.
LEMMA TypeKept ==
  ASSUME IInv, UNCHANGED <<m_src_len, m_thread_cnt>>,
         m_finish' \in BOOLEAN, m_res' \in Streams, main' \in MainStates,
         thread' = thread \/ thread' = <<>>, BarTypeOK'
  PROVE  TypeOK'
<1>1. TypeOK /\ thread_cnt' = thread_cnt
  BY CutUnchanged DEF IInv
<1>2. thread' \in Seq(Worker)
      /\ (Len(thread') > 0 => Len(thread') <= thread_cnt)
  <2>1. CASE thread' = thread
    BY <1>1, <2>1 DEF TypeOK
  <2>2. CASE thread' = <<>>
    <3>1. thread' \in Seq(Worker) /\ Len(thread') = 0
      BY <2>2
    <3>2. QED
      BY <3>1
  <2>3. QED
    BY <2>1, <2>2
<1>3. QED
  BY <1>1, <1>2 DEF TypeOK, MainStates

LEMMA TerminatedPreserves ==
  ASSUME IInv, main.pc # "idle",
         main' = [main EXCEPT !.pc = "terminated"],
         UNCHANGED <<comp_vars, thread, bar_vars>>
  PROVE  IInv'
<1>1. main' \in MainStates /\ main'.pc = "terminated"
  BY StateIs DEF MainStates
<1>2. /\ m_src_len' = m_src_len /\ m_thread_cnt' = m_thread_cnt
      /\ m_finish' = m_finish /\ m_res' = m_res /\ thread' = thread
  BY DEF comp_vars
<1>3. BarTypeOK'
  BY BarUnchanged
<1>4. TypeOK'
  BY <1>1, <1>2, <1>3, StateIs, TypeKept
<1>5. thread_cnt' = thread_cnt /\ \A k : Cut(k)' = Cut(k)
  BY <1>2, CutUnchanged
<1>6. ThreadsOK'
  BY <1>2, <1>5 DEF IInv, ThreadsOK
<1>7. ~ m_finish
  BY DEF IInv, ResultOK
<1>8. ~ Running'
  BY <1>1 DEF Running
<1>9. MainOK' /\ ResultOK'
  BY <1>1, <1>2, <1>5, <1>7, <1>8 DEF IInv, MainOK, ResultOK
<1>10. BarOK'
  BY <1>1, <1>2, <1>7, <1>8 DEF IInv, BarOK, bar_vars
<1>11. QED
  BY <1>4, <1>6, <1>9, <1>10 DEF IInv

LEMMA FailuresPreserve ==
  ASSUME IInv,
         SpawnFails \/ \E t \in 1 .. Len(thread) : WorkerFails(t)
  PROVE  IInv'
<1>1. CASE SpawnFails
  BY <1>1, TerminatedPreserves DEF SpawnFails
<1>2. ASSUME NEW t \in 1 .. Len(thread), WorkerFails(t)
      PROVE  IInv'
  <2>1. thread # <<>>
    BY DEF IInv, TypeOK
  <2>2. main.pc # "idle"
    BY <2>1 DEF IInv, MainOK
  <2>3. QED
    BY <1>2, <2>2, TerminatedPreserves DEF WorkerFails
<1>3. QED
  BY <1>1, <1>2

LEMMA feedPreserves ==
  ASSUME IInv, feed
  PROVE  IInv'
<1>1. /\ main.pc = "idle" /\ m_src_len' \in SrcLens /\ m_finish' = FALSE
      /\ m_thread_cnt' = m_thread_cnt /\ m_res' = m_res /\ main' = main
      /\ thread' = thread /\ UNCHANGED bar_vars
  BY DEF feed
<1>2. thread = <<>> /\ m_src_len' \in Nat
  BY <1>1, SectionsAssumption DEF IInv, MainOK
<1>3. thread' \in Seq(Worker) /\ Len(thread') = 0
  BY <1>1, <1>2
<1>4. BarTypeOK' /\ m_finish' \in BOOLEAN
  BY <1>1, BarUnchanged
<1>5. TypeOK'
  BY <1>1, <1>2, <1>3, <1>4, StateIs DEF TypeOK, MainStates
<1>6. MainOK' /\ ThreadsOK' /\ ResultOK'
  BY <1>1, <1>2 DEF MainOK, ThreadsOK, ResultOK, Running
<1>7. BarOK'
  BY <1>1, <1>2 DEF IInv, BarOK, Running, bar_vars
<1>8. QED
  BY <1>5, <1>6, <1>7 DEF IInv

LEMMA compressPreserves ==
  ASSUME IInv, compress
  PROVE  IInv'
<1>1. /\ main.pc = "idle" /\ m_finish = FALSE /\ m_res' = EmptyStream
      /\ thread' = <<>> /\ m_src_len' = m_src_len
      /\ m_thread_cnt' = m_thread_cnt /\ m_finish' = m_finish
  BY StateIs DEF compress
<1>2. /\ m_workload' = m_src_len /\ m_accumulate' = 0 /\ m_fill_cnt' = 0
      /\ m_display_flag' = TRUE /\ line' = Blank
  BY DEF compress, new_bar
<1>3. thread_cnt' = thread_cnt /\ Cut(main.i)' = Cut(main'.i)
  BY <1>1, CutUnchanged
<1> DEFINE pc == IF thread_cnt = 0 THEN "crashed"
                 ELSE IF thread_cnt < 0 THEN "terminated" ELSE "spawn"
<1>4. /\ pc \in {"crashed", "terminated", "spawn"}
      /\ pc = "spawn" => thread_cnt > 0
  BY StateIs
<1>5. main' = [pc |-> pc, i |-> 0, p |-> 0]
  BY DEF compress
<1> HIDE DEF pc
<1>6. main' \in MainStates /\ main'.pc = pc /\ main'.i = 0 /\ main'.p = 0
  BY <1>4, <1>5 DEF MainStates
<1>7. BarTypeOK'
  <2>1. 0 \in 0 .. Width
    BY WidthAssumption
  <2>2. line' \in [fill : 0 .. Width, full : BOOLEAN]
    BY <1>2, <2>1 DEF Blank
  <2>3. m_display_flag' \in BOOLEAN
    BY <1>2
  <2>4. QED
    BY <1>2, <2>1, <2>2, <2>3, StateIs DEF BarTypeOK
<1>8. TypeOK'
  BY <1>1, <1>6, <1>7, StateIs, EmptyStreamLaid, TypeKept
<1>9. thread_cnt > 0 => Cut(0) = 0 /\ m_src_len > 0
  BY StateIs, CutIs
<1>10. Running' => pc = "spawn"
  BY <1>4, <1>6 DEF Running
<1>11. Len(thread') = 0 /\ thread' = <<>>
  BY <1>1
<1>12. MainOK'
  <2>1. m_src_len' \in SrcLens
    BY <1>1 DEF IInv, MainOK
  <2>2. pc = "spawn" => main'.p = Cut(main.i)'
    BY <1>3, <1>4, <1>6, <1>9
  <2>3. Running' => thread_cnt' > 0 /\ main'.i <= thread_cnt'
    BY <1>3, <1>4, <1>6, <1>10, StateIs
  <2>4. QED
    BY <1>4, <1>6, <1>11, <2>1, <2>2, <2>3 DEF MainOK
<1>13. ThreadsOK'
  BY <1>1 DEF ThreadsOK
<1>14. ResultOK'
  BY <1>1, <1>4, <1>6 DEF ResultOK
<1>15. BarOK'
  BY <1>1, <1>2, <1>4, <1>6, <1>9, <1>10, StateIs DEF BarOK
<1>16. QED
  BY <1>8, <1>12, <1>13, <1>14, <1>15 DEF IInv
\* The section a thread is started with.
LEMMA NewWorker ==
  ASSUME NEW st \in Nat, NEW ed \in Nat, NEW n \in Nat, st <= ed, ed <= n
  PROVE  LET w == [pc |-> "block", st |-> st, ed |-> ed,
                   last_section |-> ed = n,
                   p |-> st, q |-> st, reported |-> 0, bs |-> EmptyStream]
         IN  w \in Worker /\ SectionOK(w, n) /\ w.st = st /\ w.ed = ed
<1> DEFINE last == ed = n
           w == [pc |-> "block", st |-> st, ed |-> ed,
                 last_section |-> last,
                 p |-> st, q |-> st, reported |-> 0, bs |-> EmptyStream]
<1>1. last \in BOOLEAN /\ (last <=> ed = n)
  OBVIOUS
<1>2. /\ EmptyStream \in Streams /\ Laid(EmptyStream, st, st, n)
      /\ Bounded(EmptyStream) /\ NotLonger(EmptyStream, st, st)
  BY EmptyStreamLaid
<1> HIDE DEF last
<1>3. w \in Worker
  BY <1>1, <1>2 DEF Worker
<1>4. /\ w.pc = "block" /\ w.st = st /\ w.ed = ed /\ w.last_section = last
      /\ w.p = st /\ w.bs = EmptyStream
  OBVIOUS
<1>5. SectionOK(w, n)
  <2> HIDE DEF w
  <2>1. QED
    BY <1>1, <1>2, <1>4 DEF SectionOK
<1>6. QED
  BY <1>3, <1>4, <1>5 DEF last

LEMMA SpawnPreserves ==
  ASSUME IInv, Spawn
  PROVE  IInv'
<1> DEFINE q == section_end(main.p)
           w == [pc |-> "block", st |-> main.p, ed |-> q,
                 last_section |-> q = m_src_len,
                 p |-> main.p, q |-> main.p, reported |-> 0,
                 bs |-> EmptyStream]
<1>1. /\ main.pc = "spawn" /\ main.i < thread_cnt
      /\ thread' = Append(thread, w)
      /\ main' = [main EXCEPT !.i = @ + 1, !.p = q]
      /\ UNCHANGED <<comp_vars, bar_vars>>
  BY DEF Spawn
<1>2. /\ thread_cnt > 0 /\ thread_cnt \in Nat
      /\ Len(thread) = main.i /\ main.p = Cut(main.i)
      /\ m_src_len \in SrcLens
  BY <1>1, StateIs DEF IInv, MainOK, Running
<1>3. /\ Cut(main.i) \in 0 .. m_src_len
      /\ Cut(main.i + 1) \in 0 .. m_src_len
      /\ Cut(main.i) <= Cut(main.i + 1)
      /\ q = Cut(main.i + 1)
  <2>1. \A k \in Nat : /\ Cut(k) \in 0 .. m_src_len
                       /\ Cut(k) <= Cut(k + 1)
                       /\ section_end(Cut(k)) = Cut(k + 1)
    BY <1>2, StateIs, CutIs
  <2>2. main.i \in Nat /\ main.i + 1 \in Nat
    BY StateIs
  <2>3. QED
    BY <1>2, <2>1, <2>2
<1> HIDE DEF q
<1>4. /\ w \in Worker /\ SectionOK(w, m_src_len)
      /\ w.st = Cut(main.i) /\ w.ed = Cut(main.i + 1)
  BY <1>2, <1>3, StateIs, NewWorker
<1> HIDE DEF w
<1>5. /\ m_src_len' = m_src_len /\ m_thread_cnt' = m_thread_cnt
      /\ m_finish' = m_finish /\ m_res' = m_res
  BY <1>1 DEF comp_vars
<1>6. /\ thread_cnt' = thread_cnt /\ \A k : Cut(k)' = Cut(k)
      /\ Cut(main.i)' = Cut(main'.i)
  BY <1>5, CutUnchanged
<1>7. /\ main' \in MainStates /\ main'.pc = "spawn"
      /\ main'.i = main.i + 1 /\ main'.p = q
  <2>1. main \in MainStates /\ main.i + 1 \in Nat /\ q \in Nat
    BY <1>3, StateIs
  <2>2. QED
    BY <1>1, <2>1 DEF MainStates
<1>8. /\ thread' \in Seq(Worker) /\ Len(thread') = main.i + 1
      /\ \A t \in 1 .. main.i : thread'[t] = thread[t]
      /\ thread'[main.i + 1] = w
  BY <1>1, <1>2, <1>4, StateIs
<1>9. BarTypeOK'
  BY <1>1, BarUnchanged
<1>10. TypeOK'
  BY <1>1, <1>2, <1>5, <1>6, <1>7, <1>8, <1>9, StateIs DEF TypeOK, MainStates
<1>11. ThreadsOK'
  <2>1. SUFFICES ASSUME NEW t \in 1 .. main.i + 1
                 PROVE  /\ thread'[t].st = Cut(t - 1)
                        /\ thread'[t].ed = Cut(t)
                        /\ SectionOK(thread'[t], m_src_len)
    BY <1>5, <1>6, <1>8 DEF ThreadsOK
  <2>2. CASE t \in 1 .. main.i
    BY <1>2, <1>8, <2>2, StateIs DEF IInv, ThreadsOK
  <2>3. CASE t = main.i + 1
    <3>1. t - 1 = main.i
      BY <2>3, StateIs
    <3>2. QED
      BY <1>4, <1>8, <2>3, <3>1
  <2>4. QED
    BY <2>2, <2>3, StateIs
<1>12. MainOK'
  <2>1. main'.i <= thread_cnt /\ main'.p = Cut(main.i)'
    BY <1>1, <1>2, <1>3, <1>6, <1>7, StateIs
  <2>2. QED
    BY <1>2, <1>5, <1>6, <1>7, <1>8, <2>1 DEF MainOK
<1>13. ~ m_finish /\ m_res = EmptyStream
  BY <1>1 DEF IInv, ResultOK
<1>14. ResultOK'
  BY <1>5, <1>7, <1>13 DEF ResultOK
<1>15. BarOK'
  BY <1>1, <1>5, <1>7, <1>13 DEF IInv, BarOK, Running, bar_vars
<1>16. QED
  BY <1>10, <1>11, <1>12, <1>14, <1>15 DEF IInv

LEMMA SpawnedPreserves ==
  ASSUME IInv, Spawned
  PROVE  IInv'
<1>1. /\ main.pc = "spawn" /\ main.i = thread_cnt
      /\ main' = [main EXCEPT !.pc = "join", !.i = 0]
      /\ UNCHANGED <<comp_vars, thread, bar_vars>>
  BY DEF Spawned
<1>2. /\ m_src_len' = m_src_len /\ m_thread_cnt' = m_thread_cnt
      /\ m_finish' = m_finish /\ m_res' = m_res /\ thread' = thread
  BY <1>1 DEF comp_vars
<1>3. thread_cnt' = thread_cnt /\ \A k : Cut(k)' = Cut(k)
  BY <1>2, CutUnchanged
<1>4. main' \in MainStates /\ main'.pc = "join" /\ main'.i = 0
  BY <1>1, StateIs DEF MainStates
<1>5. TypeOK'
  BY <1>1, <1>2, <1>4, BarUnchanged, StateIs, TypeKept
<1>6. ThreadsOK'
  BY <1>2, <1>3 DEF IInv, ThreadsOK
<1>7. MainOK'
  BY <1>1, <1>2, <1>3, <1>4 DEF IInv, MainOK, Running
<1>8. ~ m_finish /\ m_res = EmptyStream
  BY <1>1 DEF IInv, ResultOK
<1>9. ResultOK'
  BY <1>2, <1>4, <1>8 DEF ResultOK
<1>10. BarOK'
  BY <1>1, <1>2, <1>4, <1>8 DEF IInv, BarOK, Running, bar_vars
<1>11. QED
  BY <1>5, <1>6, <1>7, <1>9, <1>10 DEF IInv

LEMMA JoinPreserves ==
  ASSUME IInv, Join
  PROVE  IInv'
<1>1. /\ main.pc = "join" /\ main.i < thread_cnt
      /\ thread[main.i + 1].pc = "done"
      /\ main' = [main EXCEPT !.i = @ + 1]
      /\ UNCHANGED <<comp_vars, thread, bar_vars>>
  BY DEF Join
<1>2. /\ m_src_len' = m_src_len /\ m_thread_cnt' = m_thread_cnt
      /\ m_finish' = m_finish /\ m_res' = m_res /\ thread' = thread
  BY <1>1 DEF comp_vars
<1>3. thread_cnt' = thread_cnt /\ \A k : Cut(k)' = Cut(k)
  BY <1>2, CutUnchanged
<1>4. main' \in MainStates /\ main'.pc = "join" /\ main'.i = main.i + 1
  BY <1>1, StateIs DEF MainStates
<1>5. TypeOK'
  BY <1>1, <1>2, <1>4, BarUnchanged, StateIs, TypeKept
<1>6. ThreadsOK'
  BY <1>2, <1>3 DEF IInv, ThreadsOK
<1>7. MainOK'
  <2>1. \A t \in 1 .. main.i + 1 : thread[t].pc = "done"
    <3>1. \A t \in 1 .. main.i : thread[t].pc = "done"
      BY <1>1 DEF IInv, MainOK
    <3>2. QED
      BY <1>1, <3>1, StateIs
  <2>2. main.i + 1 <= thread_cnt
    BY <1>1, StateIs
  <2>3. QED
    BY <1>1, <1>2, <1>3, <1>4, <2>1, <2>2 DEF IInv, MainOK, Running
<1>8. ~ m_finish /\ m_res = EmptyStream
  BY <1>1 DEF IInv, ResultOK
<1>9. ResultOK'
  BY <1>2, <1>4, <1>8 DEF ResultOK
<1>10. BarOK'
  BY <1>1, <1>2, <1>4, <1>8 DEF IInv, BarOK, Running, bar_vars
<1>11. QED
  BY <1>5, <1>6, <1>7, <1>9, <1>10 DEF IInv
LEMMA FillBarPreserves ==
  ASSUME IInv, FillBar
  PROVE  IInv'
<1>1. /\ main.pc = "join" /\ main.i = thread_cnt
      /\ main' = [main EXCEPT !.pc = "hide"]
      /\ UNCHANGED <<comp_vars, thread>>
      /\ m_accumulate' = m_workload /\ refresh(m_workload)
      /\ m_workload' = m_workload /\ m_display_flag' = m_display_flag
  BY DEF FillBar, set_full
<1>2. /\ m_src_len' = m_src_len /\ m_thread_cnt' = m_thread_cnt
      /\ m_finish' = m_finish /\ m_res' = m_res /\ thread' = thread
  BY <1>1 DEF comp_vars
<1>3. thread_cnt' = thread_cnt /\ \A k : Cut(k)' = Cut(k)
  BY <1>2, CutUnchanged
<1>4. main' \in MainStates /\ main'.pc = "hide" /\ main'.i = main.i
  BY <1>1, StateIs DEF MainStates
<1>5. /\ BarTypeOK /\ m_workload = m_src_len /\ m_src_len > 0
      /\ m_display_flag
  BY <1>1 DEF IInv, TypeOK, BarOK, Running
<1>6. m_workload \in 0 .. m_workload /\ m_workload > 0
  BY <1>5, StateIs
<1>7. /\ m_fill_cnt' \in 0 .. Width
      /\ line' \in [fill : 0 .. Width, full : BOOLEAN]
      /\ line' = [fill |-> Width, full |-> TRUE]
  BY <1>1, <1>5, <1>6, RefreshIs
<1>8. BarTypeOK'
  <2>1. m_display_flag' \in BOOLEAN
    BY <1>1, <1>5 DEF BarTypeOK
  <2>2. QED
    BY <1>1, <1>5, <1>7, <2>1 DEF BarTypeOK
<1>9. TypeOK'
  BY <1>2, <1>4, <1>8, StateIs, TypeKept
<1>10. ThreadsOK'
  BY <1>2, <1>3 DEF IInv, ThreadsOK
<1>11. MainOK'
  BY <1>1, <1>2, <1>3, <1>4 DEF IInv, MainOK, Running
<1>12. ~ m_finish /\ m_res = EmptyStream
  BY <1>1 DEF IInv, ResultOK
<1>13. ResultOK'
  BY <1>2, <1>4, <1>12 DEF ResultOK
<1>14. BarOK'
  BY <1>1, <1>2, <1>4, <1>5, <1>6, <1>7 DEF BarOK
<1>15. QED
  BY <1>9, <1>10, <1>11, <1>13, <1>14 DEF IInv

LEMMA HideBarPreserves ==
  ASSUME IInv, HideBar
  PROVE  IInv'
<1>1. /\ main.pc = "hide"
      /\ main' = [main EXCEPT !.pc = "concat", !.i = 0]
      /\ UNCHANGED <<comp_vars, thread>>
      /\ m_display_flag' = FALSE /\ m_workload' = m_workload
      /\ m_accumulate' = m_accumulate /\ m_fill_cnt' = m_fill_cnt
      /\ line' = line
  BY DEF HideBar, hide
<1>2. /\ m_src_len' = m_src_len /\ m_thread_cnt' = m_thread_cnt
      /\ m_finish' = m_finish /\ m_res' = m_res /\ thread' = thread
  BY <1>1 DEF comp_vars
<1>3. /\ thread_cnt' = thread_cnt /\ \A k : Cut(k)' = Cut(k)
      /\ Cut(main.i)' = Cut(main'.i)
  BY <1>2, CutUnchanged
<1>4. main' \in MainStates /\ main'.pc = "concat" /\ main'.i = 0
  BY <1>1, StateIs DEF MainStates
<1>5. thread_cnt > 0 /\ Cut(0) = 0
  BY <1>1, StateIs, CutIs DEF IInv, MainOK, Running
<1>6. BarTypeOK'
  <2>1. BarTypeOK /\ m_display_flag' \in BOOLEAN
    BY <1>1 DEF IInv, TypeOK
  <2>2. QED
    BY <1>1, <2>1 DEF BarTypeOK
<1>7. TypeOK'
  BY <1>2, <1>4, <1>6, StateIs, TypeKept
<1>8. ThreadsOK'
  BY <1>2, <1>3 DEF IInv, ThreadsOK
<1>9. MainOK'
  BY <1>1, <1>2, <1>3, <1>4, <1>5 DEF IInv, MainOK, Running
<1>10. ~ m_finish /\ m_res = EmptyStream
  BY <1>1 DEF IInv, ResultOK
<1>11. ResultOK'
  <2>1. /\ Laid(EmptyStream, 0, 0, m_src_len)
        /\ NotLonger(EmptyStream, 0, 0)
    BY StateIs, EmptyStreamLaid
  <2>2. Cut(main.i)' = 0
    BY <1>3, <1>4, <1>5
  <2>3. QED
    BY <1>2, <1>4, <1>10, <2>1, <2>2 DEF ResultOK
<1>12. BarOK'
  BY <1>1, <1>2, <1>4, <1>10 DEF IInv, BarOK, Running
<1>13. QED
  BY <1>7, <1>8, <1>9, <1>11, <1>12 DEF IInv

LEMMA ConcatPreserves ==
  ASSUME IInv, Concat
  PROVE  IInv'
<1> DEFINE t == main.i + 1
           w == thread[t]
<1>1. /\ main.pc = "concat" /\ main.i < thread_cnt
      /\ m_res' = append_stream(m_res, w.bs)
      /\ main' = [main EXCEPT !.i = @ + 1]
      /\ m_src_len' = m_src_len /\ m_thread_cnt' = m_thread_cnt
      /\ m_finish' = m_finish /\ thread' = thread /\ UNCHANGED bar_vars
  BY DEF Concat
<1>2. /\ thread_cnt > 0 /\ Len(thread) = thread_cnt
      /\ \A u \in 1 .. thread_cnt : thread[u].pc = "done"
  BY <1>1 DEF IInv, MainOK, Running
<1>3. t \in 1 .. Len(thread) /\ t - 1 = main.i /\ w.pc = "done"
      /\ t \in DOMAIN thread
  BY <1>1, <1>2, StateIs
<1>4. w \in Worker /\ SectionOK(w, m_src_len)
      /\ w.st = Cut(main.i) /\ w.ed = Cut(main.i + 1)
  BY <1>3, ThreadIs DEF IInv, ThreadsOK
<1>5. /\ w.bs \in Streams /\ w.st \in Nat /\ w.ed \in Nat
      /\ Laid(w.bs, w.st, w.ed, m_src_len) /\ NotLonger(w.bs, w.st, w.ed)
      /\ w.st <= w.ed
  <2> HIDE DEF w
  <2>1. w.bs \in Streams /\ w.st \in Nat /\ w.ed \in Nat /\ w.p \in Nat
    BY <1>4, WorkerType
  <2>2. w.p = w.ed
    BY <1>3, <1>4 DEF SectionOK
  <2>3. QED
    BY <1>4, <2>1, <2>2 DEF SectionOK
<1>6. /\ Laid(m_res, 0, Cut(main.i), m_src_len)
      /\ NotLonger(m_res, 0, Cut(main.i))
  BY <1>1 DEF IInv, ResultOK
<1> HIDE DEF w
<1>7. /\ Laid(m_res', 0, Cut(main.i + 1), m_src_len)
      /\ NotLonger(m_res', 0, Cut(main.i + 1))
      /\ m_res' \in Streams
  <2>1. Laid(m_res', 0, w.ed, m_src_len)
    <3>1. /\ m_res \in Streams /\ m_src_len \in Nat
          /\ 0 \in Nat /\ 0 <= w.st /\ Laid(m_res, 0, w.st, m_src_len)
      BY <1>4, <1>5, <1>6, StateIs
    <3>2. Laid(append_stream(m_res, w.bs), 0, w.ed, m_src_len)
      BY <1>5, <3>1, AppendStreamLaid
    <3>3. QED
      BY <1>1, <3>2
  <2>2. NotLonger(m_res', 0, w.ed)
    BY <1>1, <1>4, <1>5, <1>6, StateIs, AppendStreamNotLonger
  <2>3. m_res' \in Streams
    BY <1>1, <1>5, StateIs, AppendStreamIs
  <2>4. QED
    BY <1>4, <2>1, <2>2, <2>3
<1>8. /\ thread_cnt' = thread_cnt /\ \A k : Cut(k)' = Cut(k)
      /\ Cut(main.i)' = Cut(main'.i)
  BY <1>1, CutUnchanged
<1>9. main' \in MainStates /\ main'.pc = "concat" /\ main'.i = main.i + 1
  BY <1>1, StateIs DEF MainStates
<1>10. TypeOK'
  BY <1>1, <1>7, <1>9, BarUnchanged, StateIs, TypeKept
<1>11. ThreadsOK'
  BY <1>1, <1>8 DEF IInv, ThreadsOK
<1>12. MainOK'
  <2>1. main.i + 1 <= thread_cnt
    BY <1>1, StateIs
  <2>2. m_src_len \in SrcLens
    BY DEF IInv, MainOK
  <2>3. QED
    BY <1>1, <1>2, <1>8, <1>9, <2>1, <2>2 DEF MainOK
<1>13. ~ m_finish
  BY <1>1 DEF IInv, ResultOK
<1>14. ResultOK'
  <2>1. Cut(main.i)' = Cut(main.i + 1)
    BY <1>8, <1>9
  <2>2. QED
    BY <1>1, <1>7, <1>9, <1>13, <2>1 DEF ResultOK
<1>15. BarOK'
  BY <1>1, <1>9 DEF IInv, BarOK, Running, bar_vars
<1>16. QED
  BY <1>10, <1>11, <1>12, <1>14, <1>15 DEF IInv

LEMMA ExportPreserves ==
  ASSUME IInv, Export
  PROVE  IInv'
<1>1. /\ main.pc = "concat" /\ main.i = thread_cnt
      /\ m_finish' = TRUE
      /\ main' = [pc |-> "idle", i |-> 0, p |-> 0]
      /\ thread' = <<>>
      /\ m_src_len' = m_src_len /\ m_thread_cnt' = m_thread_cnt
      /\ m_res' = m_res /\ UNCHANGED bar_vars
  BY DEF Export
<1>2. /\ thread_cnt' = thread_cnt
      /\ Cut(thread_cnt)' = Cut(thread_cnt)
  BY <1>1, CutUnchanged
<1>3. main' \in MainStates /\ main'.pc = "idle"
  BY <1>1 DEF MainStates
<1>4. TypeOK'
  <2>1. m_finish' \in BOOLEAN
    BY <1>1
  <2>2. QED
    BY <1>1, <1>3, <2>1, BarUnchanged, StateIs, TypeKept
<1>5. ThreadsOK'
  BY <1>1 DEF ThreadsOK
<1>6. MainOK'
  BY <1>1, <1>3 DEF IInv, MainOK, Running
<1>7. ResultOK'
  <2>1. /\ thread_cnt > 0
        /\ Laid(m_res, 0, Cut(thread_cnt), m_src_len)
        /\ NotLonger(m_res, 0, Cut(thread_cnt))
    BY <1>1 DEF IInv, MainOK, ResultOK, Running
  <2>2. QED
    BY <1>1, <1>2, <1>3, <2>1 DEF ResultOK
<1>8. BarOK'
  BY <1>1, <1>3 DEF IInv, BarOK, Running, bar_vars
<1>9. QED
  BY <1>4, <1>5, <1>6, <1>7, <1>8 DEF IInv

LEMMA NextPreserves == IInv /\ [Next]_vars => IInv'
<1> SUFFICES ASSUME IInv, [Next]_vars PROVE IInv'
  OBVIOUS
<1>1. CASE feed
  BY <1>1, feedPreserves
<1>2. CASE compress
  BY <1>2, compressPreserves
<1>3. CASE Main
  BY <1>3, SpawnPreserves, SpawnedPreserves, JoinPreserves,
     FillBarPreserves, HideBarPreserves, ConcatPreserves, ExportPreserves
     DEF Main
<1>4. CASE SpawnFails
  BY <1>4, FailuresPreserve
<1>5. ASSUME NEW t \in 1 .. Len(thread),
             Work(t) \/ Report(t) \/ WorkerFails(t)
      PROVE  IInv'
  BY <1>5, WorkPreserves, ReportPreserves, FailuresPreserve
<1>6. CASE UNCHANGED vars
  <2>1. /\ m_src_len' = m_src_len /\ m_thread_cnt' = m_thread_cnt
        /\ m_finish' = m_finish /\ m_res' = m_res /\ thread' = thread
        /\ main' = main /\ UNCHANGED bar_vars
    BY <1>6 DEF vars, comp_vars
  <2>2. /\ thread_cnt' = thread_cnt /\ \A k : Cut(k)' = Cut(k)
        /\ Cut(main.i)' = Cut(main.i)
        /\ Cut(thread_cnt)' = Cut(thread_cnt)
    BY <2>1, CutUnchanged
  <2>3. TypeOK'
    BY <2>1, BarUnchanged, StateIs, TypeKept
  <2>4. ThreadsOK'
    BY <2>1, <2>2 DEF IInv, ThreadsOK
  <2>5. MainOK'
    BY <2>1, <2>2 DEF IInv, MainOK, Running
  <2>6. ResultOK'
    BY <2>1, <2>2 DEF IInv, ResultOK
  <2>7. BarOK'
    BY <2>1 DEF IInv, BarOK, Running, bar_vars
  <2>8. QED
    BY <2>3, <2>4, <2>5, <2>6, <2>7 DEF IInv
<1>7. QED
  BY <1>1, <1>2, <1>3, <1>4, <1>5, <1>6 DEF Next
-------------------------------------------------------------------------------
(* How far the threads have come.                                          *)

ScannedByEach == [k \in 1 .. Len(thread) |-> ScannedBy(thread[k])]

LEMMA ScannedIs ==
  thread \in Seq(Worker) => IsSum(Scanned, ScannedByEach, Len(thread))
<1> SUFFICES ASSUME thread \in Seq(Worker)
             PROVE  IsSum(Scanned, ScannedByEach, Len(thread))
  OBVIOUS
<1> DEFINE n == Len(thread)
           Unfolds(f) == f = [k \in 0 .. n |->
                                IF k = 0 THEN 0
                                ELSE f[k - 1] + ScannedBy(thread[k])]
<1>1. /\ n \in Nat
      /\ \A k \in 1 .. n : ScannedByEach[k] = ScannedBy(thread[k])
  BY DEF ScannedByEach
<1>2. ASSUME NEW f PROVE Unfolds(f) <=> IsSum(f, ScannedByEach, n)
  <2>1. [k \in 0 .. n |-> IF k = 0 THEN 0
                          ELSE f[k - 1] + ScannedBy(thread[k])]
        = [k \in 0 .. n |-> IF k = 0 THEN 0
                            ELSE f[k - 1] + ScannedByEach[k]]
    <3> HIDE DEF n
    <3>1. QED
      BY <1>1
  <2>2. QED
    BY ONLY <2>1 DEF IsSum
<1>3. PICK f : IsSum(f, ScannedByEach, n)
  BY <1>1, SumExists
<1>4. Unfolds(f)
  BY <1>2, <1>3
<1>5. Unfolds(Scanned)
  BY <1>4, Zenon DEF Scanned
<1>6. QED
  BY <1>2, <1>5

LEMMA ScannedIsNext ==
  (thread \in Seq(Worker) => IsSum(Scanned, ScannedByEach, Len(thread)))'
  BY ScannedIs, PTL

\* What a step of thread t adds, and no other thread changes.
LEMMA ScannedGrows ==
  ASSUME thread \in Seq(Worker), NEW t \in 1 .. Len(thread),
         NEW v \in Worker, thread' = [thread EXCEPT ![t] = v],
         NEW d \in Nat, ScannedBy(thread[t]) + d <= ScannedBy(v)
  PROVE  /\ Scanned[Len(thread)] \in Int
         /\ Scanned[Len(thread)] + d <= Scanned'[Len(thread')]
         /\ Scanned'[Len(thread')] \in Int
<1> DEFINE n == Len(thread)
           h == ScannedByEach
           e == ScannedByEach'
<1>1. /\ n \in Nat /\ thread' \in Seq(Worker) /\ Len(thread') = n
      /\ thread'[t] = v
      /\ \A k \in 1 .. n : k # t => thread'[k] = thread[k]
  OBVIOUS
<1>2. \A w \in Worker : ScannedBy(w) \in Int
  BY ScannedByIs
<1>3. \A k \in 1 .. n : h[k] = ScannedBy(thread[k]) /\ h[k] \in Int
  BY <1>2 DEF ScannedByEach
<1>4. \A k \in 1 .. n : e[k] = ScannedBy(thread'[k]) /\ e[k] \in Int
  BY <1>1, <1>2 DEF ScannedByEach
<1>5. \A k \in 1 .. n : h[k] <= e[k]
  BY <1>1, <1>2, <1>3, <1>4
<1>6. h[t] + d <= e[t]
  BY <1>1, <1>3, <1>4
<1>7. IsSum(Scanned, h, n) /\ IsSum(Scanned', e, n)
  BY <1>1, ScannedIs, ScannedIsNext
<1> HIDE DEF n, h, e
<1>8. /\ Scanned[n] \in Int /\ Scanned'[n] \in Int
      /\ Scanned[n] + d <= Scanned'[n]
  BY <1>1, <1>3, <1>4, <1>5, <1>6, <1>7, SumGrows DEF n
<1>9. QED
  BY <1>1, <1>8 DEF n
\* The sum is the same when the threads are.
LEMMA ScannedSame ==
  ASSUME thread \in Seq(Worker), UNCHANGED thread
  PROVE  Scanned'[Len(thread')] = Scanned[Len(thread)]
<1>1. Scanned' = Scanned
  BY DEF Scanned, ScannedBy
<1>2. QED
  BY <1>1

\* A thread that is started has done nothing.
LEMMA ScannedSpawned ==
  ASSUME thread \in Seq(Worker), NEW w \in Worker, ScannedBy(w) = 0,
         thread' = Append(thread, w)
  PROVE  Scanned'[Len(thread')] = Scanned[Len(thread)]
<1> DEFINE n == Len(thread)
           h == ScannedByEach
           e == ScannedByEach'
<1>1. /\ n \in Nat /\ thread' \in Seq(Worker) /\ Len(thread') = n + 1
      /\ thread'[n + 1] = w
      /\ \A k \in 1 .. n : thread'[k] = thread[k]
  OBVIOUS
<1>2. \A k \in 1 .. n : h[k] = ScannedBy(thread[k])
  BY DEF ScannedByEach
<1>3. \A k \in 1 .. n + 1 : e[k] = ScannedBy(thread'[k])
  BY <1>1 DEF ScannedByEach
<1>4. \A k \in 1 .. n : h[k] = e[k]
  BY <1>1, <1>2, <1>3
<1>5. e[n + 1] = 0
  BY <1>1, <1>3
<1>6. IsSum(Scanned, h, n) /\ IsSum(Scanned', e, n + 1)
  BY <1>1, ScannedIs, ScannedIsNext
<1>7. \A k \in 1 .. n : h[k] \in Int
  BY <1>2, ScannedByIs
<1> HIDE DEF h, e
<1>8. Scanned'[n + 1] = Scanned[n] + e[n + 1]
  <2> DEFINE f == Scanned
             g == Scanned'
  <2>1. n \in Nat /\ IsSum(f, h, n) /\ IsSum(g, e, n + 1)
    BY <1>1, <1>6
  <2> HIDE DEF n, f, g
  <2>2. g[n + 1] = f[n] + e[n + 1]
    BY <1>4, <2>1, SumExtends
  <2>3. QED
    BY <2>2 DEF f, g
<1>9. Scanned[n] \in Int
  <2> HIDE DEF n
  <2>1. QED
    BY <1>1, <1>6, <1>7, SumInt
<1>10. QED
  BY <1>1, <1>5, <1>8, <1>9

LEMMA HonestPreserved == IInv /\ BarHonest /\ [Next]_vars => BarHonest'
<1> SUFFICES ASSUME IInv, BarHonest, [Next]_vars,
                    main'.pc \in {"spawn", "join"}
             PROVE  m_accumulate' <= Scanned'[Len(thread')]
  BY DEF BarHonest
<1>1. m_accumulate \in Nat
  BY DEF IInv, TypeOK, BarTypeOK
<1>2. main.pc \in {"spawn", "join"} => m_accumulate <= Scanned[Len(thread)]
  BY DEF BarHonest
<1>3. ASSUME UNCHANGED <<thread, m_accumulate>>,
             main.pc \in {"spawn", "join"}
      PROVE  m_accumulate' <= Scanned'[Len(thread')]
  BY <1>2, <1>3, ScannedSame, StateIs
<1>4. CASE feed
  BY <1>4 DEF feed
<1>5. CASE compress
  <2>1. m_accumulate' = 0 /\ thread' = <<>>
    BY <1>5 DEF compress, new_bar
  <2>2. thread' \in Seq(Worker) /\ Len(thread') = 0
    BY <2>1
  <2>3. Scanned'[Len(thread')] = 0
    BY <2>2, ScannedIsNext DEF IsSum
  <2>4. QED
    BY <2>1, <2>3
<1>6. CASE Spawn
  <2> DEFINE q == section_end(main.p)
             w == [pc |-> "block", st |-> main.p, ed |-> q,
                   last_section |-> q = m_src_len,
                   p |-> main.p, q |-> main.p, reported |-> 0,
                   bs |-> EmptyStream]
  <2>1. /\ thread' = Append(thread, w) /\ m_accumulate' = m_accumulate
        /\ main.pc = "spawn"
    BY <1>6 DEF Spawn, bar_vars
  <2>2. thread' \in Seq(Worker) /\ Len(thread') = Len(thread) + 1
        /\ thread'[Len(thread) + 1] = w
    <3>1. IInv'
      BY NextPreserves
    <3>2. thread' \in Seq(Worker)
      BY <3>1 DEF IInv, TypeOK
    <3>3. QED
      BY <2>1, <3>2, StateIs
  <2>3. w \in Worker
    <3> HIDE DEF w
    <3>1. QED
      BY <2>2, StateIs
  <2>4. ScannedBy(w) = 0
    <3>1. w.pc = "block" /\ w.p = main.p /\ w.st = main.p
      OBVIOUS
    <3> HIDE DEF w
    <3>2. ScannedBy(w) = w.p - w.st
      BY <2>3, <3>1, ScannedByIs
    <3>3. QED
      BY <3>1, <3>2, StateIs
  <2> HIDE DEF w
  <2>5. QED
    BY <1>2, <2>1, <2>3, <2>4, ScannedSpawned, StateIs
<1>7. CASE Spawned \/ Join
  BY <1>3, <1>7 DEF Spawned, Join, bar_vars
<1>8. ASSUME FillBar \/ HideBar \/ Concat \/ Export \/ SpawnFails
      PROVE  FALSE
  <2>1. main \in MainStates
    BY StateIs
  <2>2. ~ FillBar /\ ~ SpawnFails
    BY <2>1 DEF FillBar, SpawnFails, MainStates
  <2>3. ~ HideBar
    BY <2>1 DEF HideBar, MainStates
  <2>4. ~ Concat
    BY <2>1 DEF Concat, MainStates
  <2>5. ~ Export
    BY DEF Export
  <2>6. QED
    BY <1>8, <2>2, <2>3, <2>4, <2>5
<1>9. ASSUME NEW t \in 1 .. Len(thread), Work(t)
      PROVE  m_accumulate' <= Scanned'[Len(thread')]
  <2>1. PICK v \in Worker :
          /\ thread' = [thread EXCEPT ![t] = v]
          /\ ScannedBy(thread[t]) <= ScannedBy(v)
    BY <1>9, WorkPreserves DEF WentOn
  <2>2. main' = main /\ m_accumulate' = m_accumulate
    BY <1>9 DEF Work, StartBlock, Encode, Store, Stored, Finish,
                WorkerUnchanged, bar_vars
  <2>3. thread[t] \in Worker /\ ScannedBy(thread[t]) \in Int
    BY ThreadIs, ScannedByIs
  <2>4. ScannedBy(thread[t]) + 0 <= ScannedBy(v)
    BY <2>1, <2>3
  <2>5. /\ Scanned[Len(thread)] \in Int /\ Scanned'[Len(thread')] \in Int
        /\ Scanned[Len(thread)] + 0 <= Scanned'[Len(thread')]
    BY <2>1, <2>4, StateIs, ScannedGrows
  <2>6. QED
    BY <1>1, <1>2, <2>2, <2>5
<1>10. ASSUME NEW t \in 1 .. Len(thread), Report(t)
       PROVE  m_accumulate' <= Scanned'[Len(thread')]
  <2>1. PICK delta \in ReportOver + 1 .. thread[t].q - thread[t].p
                                         - thread[t].reported :
          /\ increase_progress(delta)
          /\ thread' = [thread EXCEPT ![t].reported = @ + delta]
    BY <1>10 DEF Report
  <2> DEFINE w == thread[t]
             reported == w.reported + delta
             v == [w EXCEPT !.reported = reported]
  <2>2. /\ w \in Worker /\ t \in DOMAIN thread /\ w.pc = "scan"
        /\ main' = main /\ ReportOver \in Nat
    BY <1>10, ThreadIs, SectionsAssumption DEF Report, WorkerUnchanged
  <2>3. w.p \in Nat /\ w.q \in Nat /\ w.reported \in Nat /\ w.st \in Nat
    BY <2>2, WorkerType
  <2>4. delta \in Nat /\ reported \in Nat
    BY <2>2, <2>3
  <2>5. thread' = [thread EXCEPT ![t] = v]
    BY <2>1, <2>2
  <2>6. reported = w.reported + delta
    OBVIOUS
  <2> HIDE DEF reported
  <2>7. /\ v \in Worker /\ v.pc = "scan" /\ v.reported = reported
        /\ v.st = w.st /\ v.p = w.p
    <3> HIDE DEF w
    <3>1. QED
      BY <2>2, <2>4 DEF Worker
  <2> HIDE DEF v
  <2>8. ScannedBy(w) + delta <= ScannedBy(v)
    <3> HIDE DEF w
    <3>1. ScannedBy(w) = w.p + w.reported - w.st
      BY <2>2, ScannedByIs
    <3>2. ScannedBy(v) = v.p + v.reported - v.st
      BY <2>7, ScannedByIs
    <3>3. QED
      BY <2>3, <2>4, <2>6, <2>7, <3>1, <3>2
  <2>9. /\ Scanned[Len(thread)] \in Int /\ Scanned'[Len(thread')] \in Int
        /\ Scanned[Len(thread)] + delta <= Scanned'[Len(thread')]
    BY <2>4, <2>5, <2>7, <2>8, StateIs, ScannedGrows
  <2>10. /\ BarTypeOK /\ m_workload > 0 /\ m_accumulate <= m_workload
    <3>1. thread # <<>>
      BY DEF IInv, TypeOK
    <3>2. QED
      BY <3>1, StateIs DEF IInv, TypeOK, BarOK
  <2>11. m_accumulate' \in Nat /\ m_accumulate' <= m_accumulate + delta
    <3>1. BarTypeOK' /\ m_accumulate' <= m_accumulate + delta
      BY <2>1, <2>4, <2>10, IncreaseIs
    <3>2. QED
      BY <3>1 DEF BarTypeOK
  <2>12. QED
    BY <1>1, <1>2, <2>2, <2>4, <2>9, <2>11
<1>11. ASSUME NEW t \in 1 .. Len(thread), WorkerFails(t)
       PROVE  FALSE
  BY <1>11, StateIs DEF WorkerFails, MainStates
<1>12. CASE UNCHANGED vars
  BY <1>3, <1>12 DEF vars, bar_vars
<1>13. QED
  BY <1>4, <1>5, <1>6, <1>7, <1>8, <1>9, <1>10, <1>11, <1>12 DEF Next, Main
-------------------------------------------------------------------------------
(* What is proved of every behaviour, for all values of the constants.     *)

\* The threads, the calling thread, the result and the bar always fit one
\* another: thread t works on the section from Cut(t - 1) to Cut(t) and its
\* stream holds it as far as t has come; the result holds the sections that
\* have been appended; the bar is full once it has been filled.
THEOREM Invariant == Spec => []IInv
  BY InitEstablishes, NextPreserves, PTL DEF Spec

\* Every variable has its type, and there are no more threads than the
\* vectors of compress() have room for.
THEOREM TypeCorrect == Spec => []TypeOK
  BY Invariant, PTL DEF IInv

\* deflate_encode_store_block never gives a stored piece more bytes than LEN
\* can say, and the scheduler of a thread no block two blocks' bytes.
THEOREM PiecesAreBounded == Spec => []PiecesBounded
<1>1. IInv => PiecesBounded
  <2> SUFFICES ASSUME IInv, NEW t \in DOMAIN thread
               PROVE  Bounded(thread[t].bs)
    BY DEF PiecesBounded, Bounded, PieceBounded
  <2>1. QED
    BY DEF IInv, ThreadsOK, SectionOK
<1>2. QED
  BY Invariant, <1>1, PTL

\* Blocks are stored when coding makes them no shorter: the result of
\* compress() is longer than the source by its stored headers at most.
THEOREM ResultIsNotLonger == Spec => []NeverMuchLonger
<1>1. IInv => NeverMuchLonger
  <2> SUFFICES ASSUME IInv, m_finish
               PROVE  m_res.bits <= 8 * m_src_len
                                    + 43 * Cardinality(StoredIn(m_res))
    BY DEF NeverMuchLonger, StoredIn
  <2>1. /\ thread_cnt > 0 /\ NotLonger(m_res, 0, Cut(thread_cnt))
    BY DEF IInv, ResultOK
  <2>2. Cut(thread_cnt) \in 0 .. m_src_len
    <3>1. \A k \in Nat : Cut(k) \in 0 .. m_src_len
      BY <2>1, StateIs, CutIs
    <3>2. thread_cnt \in Nat
      BY <2>1, StateIs
    <3>3. QED
      BY <3>1, <3>2
  <2>3. Cardinality(StoredIn(m_res)) \in Nat /\ m_res.bits \in Nat
    BY StateIs, StreamType, StoredInFinite, FS_CardinalityType
  <2>4. QED
    BY <2>1, <2>2, <2>3, StateIs DEF NotLonger
<1>2. QED
  BY Invariant, <1>1, PTL

\* The bar that compress() leaves on the terminal is full: FillBar draws it
\* at 100 %, and no thread that could report is left by then.
THEOREM BarIsFull == Spec => []BarEndsFull
<1>1. IInv => BarEndsFull
  BY DEF IInv, BarOK, BarEndsFull
<1>2. QED
  BY Invariant, <1>1, PTL

\* What the threads report together is never more than the bytes their
\* match finders have gone through, in whatever order the reports come.
THEOREM BarIsHonest == Spec => []BarHonest
<1>1. Init => BarHonest
  BY DEF Init, BarHonest
<1>2. QED
  BY Invariant, HonestPreserved, <1>1, PTL DEF Spec
\* While a compression runs, and behind it, no step of any thread takes back
\* what the bar has been given: compress() makes a new bar, nothing else.
THEOREM BarGoesForward == Spec => BarNeverBack
<1>1. ASSUME IInv, [Next]_vars, main.pc # "idle"
      PROVE  m_accumulate' >= m_accumulate
  <2>1. m_accumulate \in Nat /\ m_accumulate <= m_workload
        /\ m_workload \in Nat /\ BarTypeOK
    BY <1>1 DEF IInv, TypeOK, BarTypeOK, BarOK
  <2>2. CASE UNCHANGED m_accumulate
    BY <2>1, <2>2
  <2>3. CASE FillBar
    BY <2>1, <2>3 DEF FillBar, set_full
  <2>4. ASSUME NEW t \in 1 .. Len(thread), Report(t)
        PROVE  m_accumulate' >= m_accumulate
    <3>1. PICK delta \in ReportOver + 1 .. thread[t].q - thread[t].p
                                           - thread[t].reported :
            increase_progress(delta)
      BY <2>4 DEF Report
    <3>2. delta \in Nat
      <4>1. thread[t].p \in Nat /\ thread[t].q \in Nat
            /\ thread[t].reported \in Nat /\ ReportOver \in Nat
        BY <1>1, ThreadIs, WorkerType, SectionsAssumption
      <4>2. QED
        BY <4>1
    <3>3. m_workload > 0
      <4>1. thread # <<>>
        BY <1>1 DEF IInv, TypeOK
      <4>2. QED
        BY <1>1, <4>1 DEF IInv, BarOK
    <3>4. BarTypeOK' /\ m_accumulate <= m_accumulate'
      BY <2>1, <3>1, <3>2, <3>3, IncreaseIs
    <3>5. QED
      BY <2>1, <3>4 DEF BarTypeOK
  <2>5. ASSUME NEW t \in 1 .. Len(thread), Work(t) \/ WorkerFails(t)
        PROVE  UNCHANGED m_accumulate
    BY <2>5 DEF Work, StartBlock, Encode, Store, Stored, Finish,
                WorkerFails, bar_vars
  <2>6. Spawn \/ Spawned \/ Join \/ HideBar \/ Concat \/ Export \/ SpawnFails
        \/ UNCHANGED vars => UNCHANGED m_accumulate
    BY DEF Spawn, Spawned, Join, HideBar, hide, Concat, Export, SpawnFails,
           bar_vars, vars
  <2>7. ~ feed /\ ~ compress
    BY <1>1 DEF feed, compress
  <2>8. QED
    BY <1>1, <2>2, <2>3, <2>4, <2>5, <2>6, <2>7 DEF Next, Main
<1>2. IInv /\ [Next]_vars
      => [main.pc # "idle" => m_accumulate' >= m_accumulate]_vars
  BY <1>1
<1>3. QED
  BY Invariant, <1>2, PTL DEF Spec, BarNeverBack
-------------------------------------------------------------------------------
(* What is proved when the blocks of a source fit an int: the sections     *)
(* cover the source.                                                       *)

LEMMA FinishedResult ==
  ASSUME BlocksFit, IInv, m_finish
  PROVE  Laid(m_res, 0, m_src_len, m_src_len)
<1>1. thread_cnt > 0 /\ Laid(m_res, 0, Cut(thread_cnt), m_src_len)
  BY DEF IInv, ResultOK
<1>2. Cut(thread_cnt) = m_src_len
  BY <1>1, StateIs, CutCovers DEF IInv, MainOK
<1>3. QED
  BY <1>1, <1>2

\* Whatever the threads do when, and however long their blocks become, the
\* stream that compress() hands out holds every byte of the source once, in
\* order, its pieces back to back.
THEOREM ResultHoldsTheSource ==
  ASSUME BlocksFit
  PROVE  Spec => []ResultIsTheSource
<1>1. IInv => ResultIsTheSource
  BY FinishedResult DEF ResultIsTheSource, Laid
<1>2. QED
  BY Invariant, <1>1, PTL

\* And its last piece is final, so that a decoder reads all of it, and no
\* other piece is, although every empty section calls itself the last.
THEOREM FinalBlockIsLast ==
  ASSUME BlocksFit
  PROVE  Spec => []OneFinalBlock
<1>1. IInv => OneFinalBlock
  <2> SUFFICES ASSUME IInv, m_finish, NEW k \in 1 .. Len(m_res.pieces)
               PROVE  m_res.pieces[k].final <=> k = Len(m_res.pieces)
    BY DEF OneFinalBlock
  <2> DEFINE n == Len(m_res.pieces)
  <2>1. /\ n \in Nat /\ n # 0 /\ n \in 1 .. n
        /\ m_res.pieces[k] \in Piece /\ m_res.pieces[n] \in Piece
    BY StateIs, StreamType
  <2>2. /\ m_res.pieces[n].hi = m_src_len
        /\ m_res.pieces[n].lo < m_res.pieces[n].hi
        /\ m_res.pieces[k].final <=> m_res.pieces[k].hi = m_src_len
        /\ k < n => m_res.pieces[k].hi <= m_res.pieces[n].lo
    BY <2>1, FinishedResult DEF Laid, Holds
  <2>3. /\ m_res.pieces[k].hi \in Nat /\ m_res.pieces[n].lo \in Nat
        /\ m_src_len \in Nat
    BY <2>1, StateIs, PieceType
  <2>4. QED
    BY <2>1, <2>2, <2>3
<1>2. QED
  BY Invariant, <1>1, PTL
\* An inflater reads a stream that ends with its only final piece, and has
\* its stored pieces where the format has them, to its end, and gets the bytes
\* 0 .. n - 1.
LEMMA InflatedIs ==
  ASSUME NEW bs \in Streams, NEW n \in Nat \ {0}, Laid(bs, 0, n, n),
         AllInFormat(bs)
  PROVE  Inflated(bs) = Content(n)
<1> DEFINE l == Len(bs.pieces)
           read == {k \in 1 .. l :
                      /\ \A i \in 1 .. k - 1 : ~ bs.pieces[i].final
                      /\ \A i \in 1 .. k : /\ bs.pieces[i].at = NextBit(bs, i)
                                          /\ InFormat(bs.pieces[i])}
           lo == [k \in 1 .. l |-> bs.pieces[k].lo]
           hi == [k \in 1 .. l |-> bs.pieces[k].hi]
<1>1. /\ l \in Nat
      /\ \A k \in 1 .. l :
           bs.pieces[k].lo \in Nat /\ bs.pieces[k].hi \in Nat
  BY StreamType, PieceType
<1>2. l # 0 /\ bs.pieces[1].lo = 0 /\ bs.pieces[l].hi = n
  BY <1>1 DEF Laid, Holds
<1>3. /\ \A k \in 1 .. l : bs.pieces[k].lo < bs.pieces[k].hi
      /\ \A k \in 1 .. l - 1 : bs.pieces[k + 1].lo = bs.pieces[k].hi
      /\ \A k \in 1 .. l : bs.pieces[k].final <=> bs.pieces[k].hi = n
      /\ \A j, k \in 1 .. l : j < k => bs.pieces[j].hi <= bs.pieces[k].lo
  BY <1>2 DEF Laid, Holds
<1>4. \A k \in 1 .. l - 1 : ~ bs.pieces[k].final
  <2> SUFFICES ASSUME NEW k \in 1 .. l - 1 PROVE ~ bs.pieces[k].final
    OBVIOUS
  <2>1. k \in 1 .. l /\ l \in 1 .. l /\ k < l
    BY <1>1, <1>2
  <2>2. bs.pieces[k].hi <= bs.pieces[l].lo /\ bs.pieces[l].lo < n
    BY <1>2, <1>3, <2>1
  <2>3. QED
    BY <1>1, <1>3, <2>1, <2>2
<1>5. read = 1 .. l
  <2>1. ASSUME NEW k \in 1 .. l, NEW i \in 1 .. k - 1
        PROVE  ~ bs.pieces[i].final
    <3>1. i \in 1 .. l - 1
      BY <1>1
    <3>2. QED
      BY <1>4, <3>1
  <2>2. ASSUME NEW k \in 1 .. l, NEW i \in 1 .. k
        PROVE  bs.pieces[i].at = NextBit(bs, i) /\ InFormat(bs.pieces[i])
    <3>1. i \in 1 .. l
      BY <1>1
    <3>2. DOMAIN bs.pieces = 1 .. l
      BY StreamType
    <3>3. InFormat(bs.pieces[i])
      BY <3>1, <3>2 DEF AllInFormat
    <3>4. CASE i = 1
      BY <1>2, <3>3, <3>4 DEF Laid, Holds, NextBit
    <3>5. CASE i # 1
      <4>1. i - 1 \in 1 .. l - 1 /\ i - 1 + 1 = i
        BY <1>1, <3>1, <3>5
      <4>2. bs.pieces[i - 1 + 1].at
            = bs.pieces[i - 1].at + bs.pieces[i - 1].size
        BY <1>2, <4>1 DEF Laid, Holds
      <4>3. QED
        BY <3>3, <3>5, <4>1, <4>2 DEF NextBit
    <3>6. QED
      BY <3>3, <3>4, <3>5
  <2>3. QED
    BY <2>1, <2>2
<1>6. Cardinality(read) = l
  <2> HIDE DEF read
  <2>1. Cardinality(1 .. l) = l
    BY <1>1, <1>2, FS_Interval
  <2>2. QED
    BY <1>5, <2>1
<1>7. FlattenSeq(Runs(l, lo, hi)) = [i \in 1 .. hi[l] |-> i]
  <2>1. \A k \in 1 .. l : lo[k] \in Nat /\ hi[k] \in Nat /\ lo[k] <= hi[k]
    BY <1>1, <1>3
  <2>2. lo[1] = 0 /\ l \in Nat \ {0}
    BY <1>1, <1>2
  <2>3. \A k \in 1 .. l - 1 : lo[k + 1] = hi[k]
    <3> SUFFICES ASSUME NEW k \in 1 .. l - 1 PROVE lo[k + 1] = hi[k]
      OBVIOUS
    <3>1. k \in 1 .. l /\ k + 1 \in 1 .. l
      BY <1>1
    <3>2. QED
      BY <1>3, <3>1
  <2> HIDE DEF l, lo, hi
  <2>4. QED
    BY <2>1, <2>2, <2>3, FlattenRuns
<1>8. Runs(l, lo, hi)
      = [k \in 1 .. l |->
           [i \in 1 .. bs.pieces[k].hi - bs.pieces[k].lo |->
              bs.pieces[k].lo + i]]
  BY DEF Runs
<1>9. hi[l] = n
  BY <1>1, <1>2
<1>10. Inflated(bs)
       = FlattenSeq([k \in 1 .. Cardinality(read) |->
                       [i \in 1 .. bs.pieces[k].hi - bs.pieces[k].lo |->
                          bs.pieces[k].lo + i]])
  BY DEF Inflated
<1> HIDE DEF l, read, lo, hi
<1>11. QED
  BY <1>6, <1>7, <1>8, <1>9, <1>10 DEF Content

LEMMA FinishedInflates ==
  ASSUME BlocksFit, IInv, m_finish, StoredBlocksInDeflateFormat
  PROVE  Inflated(m_res) = Content(m_src_len)
<1>1. m_src_len \in Nat \ {0}
  <2>1. thread_cnt > 0
    BY DEF IInv, ResultOK
  <2>2. QED
    BY <2>1, StateIs, CutIs
<1>2. QED
  BY <1>1, StateIs, FinishedResult, InflatedIs
     DEF StoredBlocksInDeflateFormat

\* Every step of every thread is a feed, the one step at which compress() has
\* the content's result to hand out, or a step that its user does not see.
LEMMA StepIsPromised ==
  ASSUME BlocksFit, IInv, IInv', [Next]_vars
  PROVE  [Promise!Next \/ Misplaced]_(Promise!vars)
<1>1. m_finish => main.pc = "idle"
  BY DEF IInv, ResultOK
<1>2. ASSUME UNCHANGED <<m_src_len, m_finish>>,
             m_finish => UNCHANGED m_res
      PROVE  UNCHANGED Promise!vars
  BY <1>2 DEF Promise!vars
<1>3. CASE feed
  <2>1. Promise!feed
    BY <1>3 DEF feed, Promise!feed
  <2>2. QED
    BY <2>1 DEF Promise!Next
<1>4. CASE compress
  BY <1>2, <1>4 DEF compress
<1>5. CASE Export
  <2>1. /\ ~ m_finish /\ m_finish' = TRUE /\ m_src_len' = m_src_len
    BY <1>1, <1>5 DEF Export
  <2>2. CASE StoredBlocksInDeflateFormat'
    <3>1. Inflated(m_res') = Content(m_src_len')
      <4>1. (BlocksFit /\ IInv /\ m_finish /\ StoredBlocksInDeflateFormat
             => Inflated(m_res) = Content(m_src_len))'
        BY FinishedInflates, PTL
      <4>2. QED
        BY <2>1, <2>2, <4>1
    <3>2. Promise!compress
      BY <2>1, <3>1 DEF Promise!compress
    <3>3. QED
      BY <3>2 DEF Promise!Next
  <2>3. CASE ~ StoredBlocksInDeflateFormat'
    BY <2>1, <2>3 DEF Misplaced
  <2>4. QED
    BY <2>2, <2>3
<1>6. CASE Concat
  BY <1>1, <1>2, <1>6 DEF Concat
<1>7. CASE Spawn \/ Spawned \/ Join \/ FillBar \/ HideBar \/ SpawnFails
           \/ UNCHANGED vars
  BY <1>2, <1>7 DEF Spawn, Spawned, Join, FillBar, HideBar, SpawnFails,
                    vars, comp_vars
<1>8. ASSUME NEW t \in 1 .. Len(thread),
             Work(t) \/ Report(t) \/ WorkerFails(t)
      PROVE  UNCHANGED Promise!vars
  <2>1. UNCHANGED comp_vars
    BY <1>8 DEF Work, StartBlock, Encode, Store, Stored, Finish, Report,
                WorkerFails, WorkerUnchanged
  <2>2. QED
    BY <1>2, <2>1 DEF comp_vars
<1>9. QED
  BY <1>3, <1>4, <1>5, <1>6, <1>7, <1>8 DEF Next, Main

LEMMA InitIsPromised == Init => Promise!Init
  BY DEF Init, Promise!Init

\* DeflateCompressor keeps what Compressor promises, for all sources, threads
\* and interleavings, except for results with a stored block out of place.
THEOREM KeepsPromise ==
  ASSUME BlocksFit
  PROVE  Spec => ImplementsCompressor
<1>1. ASSUME IInv, IInv', [Next]_vars
      PROVE  [Promise!Next \/ Misplaced]_(Promise!vars)
  BY <1>1, StepIsPromised
<1>2. QED
  BY Invariant, InitIsPromised, <1>1, PTL DEF Spec, ImplementsCompressor

\* Without an exception: where no stored block is out of place, as when all
\* blocks are coded, feed(), compress() and the threads implement Compressor,
\* and an inflater gets back the very content that was fed last.
THEOREM KeepsPromiseWhenInFormat ==
  ASSUME BlocksFit
  PROVE  Spec /\ []StoredBlocksInDeflateFormat => Promise!Spec
<1>1. ASSUME IInv, IInv', [Next]_vars, StoredBlocksInDeflateFormat'
      PROVE  [Promise!Next]_(Promise!vars)
  BY <1>1, StepIsPromised DEF Misplaced
<1>2. QED
  BY Invariant, InitIsPromised, <1>1, PTL DEF Spec, Promise!Spec
===============================================================================
