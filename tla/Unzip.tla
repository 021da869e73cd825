-------------------------------- MODULE Unzip ---------------------------------
(***************************************************************************)
(* What a program that reads zip archives (APPNOTE.TXT) finds in the bytes *)
(* of one: not a part of the repository, but what it writes archives for.  *)
(* Offsets count from 0; a word of four bytes is the pair of its halves.   *)
(***************************************************************************)
EXTENDS Integers, Sequences, FiniteSets, FiniteSetsExt

NoArchive == [entries |-> <<>>, whole |-> FALSE]

u16(b, at) == b[at + 1] + 256 * b[at + 2]
u32(b, at) == <<u16(b, at + 2), u16(b, at)>>
size(b, at) == u16(b, at) + 65536 * u16(b, at + 2)

\* Where a record with the signature "PK" x y may begin.
signed(b, x, y) ==
  {p \in 0 .. Len(b) - 4 : SubSeq(b, p + 1, p + 4) = <<80, 75, x, y>>}

\* The fields that both headers of a file have, from their offset on: they
\* follow one another alike.
common(b, at) ==
  [flags |-> u16(b, at), method |-> u16(b, at + 2), time |-> u16(b, at + 4),
   date |-> u16(b, at + 6), crc |-> u32(b, at + 8), csize |-> size(b, at + 12),
   usize |-> size(b, at + 16)]

\* The entry whose header in the central directory is at p.
read_entry(b, p) ==
  LET fields == common(b, p + 8)
      name == SubSeq(b, p + 47, p + 46 + u16(b, p + 28))
      local == size(b, p + 42)
      data == local + 30 + u16(b, local + 26) + u16(b, local + 28)
  IN  [fields |-> fields, name |-> name,
       needs |-> u16(b, p + 6),
       data |-> SubSeq(b, data + 1, data + fields.csize),
       same |-> /\ local \in signed(b, 3, 4)
                /\ common(b, local + 6) = fields
                /\ u16(b, local + 4) = u16(b, p + 6)
                /\ SubSeq(b, local + 31, local + 30 + u16(b, local + 26)) = name]

\* The headers of the central directory, from p on, up to `end`.
headers(b, p, end) ==
  LET from[q \in p .. end] ==
        IF q + 46 > end THEN <<q>>
        ELSE <<q>> \o from[q + 46 + u16(b, q + 28) + u16(b, q + 30)
                             + u16(b, q + 32)]
  IN  from[p]

\* From the last record, which is looked for from behind, to the central
\* directory, and from there to the files.  `whole`: it all fits together.
unzip(b) ==
  IF signed(b, 5, 6) = {} THEN NoArchive
  ELSE LET eocd == Max(signed(b, 5, 6))
           cd == size(b, eocd + 16)
           at == headers(b, cd, eocd)
           n == Len(at) - 1
       IN  [entries |-> [k \in 1 .. n |-> read_entry(b, at[k])],
            whole |-> /\ u16(b, eocd + 8) = n
                      /\ u16(b, eocd + 10) = n
                      /\ cd + size(b, eocd + 12) = eocd
                      /\ at[n + 1] = eocd
                      /\ \A k \in 1 .. n : at[k] \in signed(b, 1, 2)
                      /\ Len(b) = eocd + 22 + u16(b, eocd + 20)]

\* A time and date of MS-DOS.
dos_time(t) == [hour |-> t \div 2048, min |-> (t \div 32) % 64, sec |-> 2 * (t % 32)]
dos_date(d) == [year |-> 1980 + d \div 512, mon |-> (d \div 32) % 16, mday |-> d % 32]
===============================================================================
