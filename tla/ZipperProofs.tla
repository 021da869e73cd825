----------------------------- MODULE ZipperProofs -----------------------------
(***************************************************************************)
(* Zipper, for every set of files, sizes, methods and limits: the types,   *)
(* no entry grows, no entry is older than its content, and the buffer is   *)
(* an archive of the entries as long as the counters of the format hold.   *)
(* Then the same of the program, which is one client of Zipper: it says    *)
(* success of an archive of every source.                                  *)
(***************************************************************************)
EXTENDS SimpleZip, SequenceTheorems, TLAPS

(***************************************************************************)
(* What the buffer consists of.                                            *)
(***************************************************************************)
Headers == [name : Names, method : {"none", "deflate"}, time : Nat, crc : Nat,
            csize : Nat, usize : Nat]

Bodies ==
  [kind : {"local"}, file : Headers]
    \cup [kind : {"data"}, content : Nat, method : {"none", "deflate"}]
    \cup [kind : {"central"}, file : Headers, offset : Nat]
    \cup [kind : {"eocd"}, count : Nat, cd_size : Nat, cd_offset : Nat]

Records == [off : Nat, len : Nat, body : Bodies]

\* The records do not overlap, and lie in the order of their offsets.
InOrder(buffer) ==
  \A j, k \in 1 .. Len(buffer) :
    j < k => buffer[j].off + buffer[j].len <= buffer[k].off

BufferOK == m_buffer \in Seq(Records) /\ InOrder(m_buffer)

LocalBody(e) == [kind |-> "local", file |-> FileHeader(e)]

DataBody(e) == [kind |-> "data", content |-> e.m_raw.version,
                method |-> e.m_method]

CentralBody(e, offset) == [kind |-> "central", file |-> FileHeader(e),
                           offset |-> offset % SizeMod]

EocdBody(n, cd, end) ==
  [kind |-> "eocd", count |-> n % CountMod,
   cd_size |-> (end - cd) % SizeMod, cd_offset |-> cd % SizeMod]

\* The first n entries lie in the buffer, header and data by turns.
LocalsLaid(buffer, es, n) ==
  \A k \in 1 .. n :
    /\ buffer[2 * k - 1].body = LocalBody(es[k])
    /\ buffer[2 * k].body = DataBody(es[k])
    /\ buffer[2 * k].off = buffer[2 * k - 1].off + buffer[2 * k - 1].len
    /\ buffer[2 * k].len = es[k].length

\* Behind the n entries, the first i headers of the central directory.
CentralsLaid(buffer, es, n, i) ==
  \A k \in 1 .. i :
    buffer[2 * n + k].body = CentralBody(es[k], buffer[2 * k - 1].off)

\* A whole archive of n entries.
Complete(buffer, es, n) ==
  /\ Len(buffer) = 3 * n + 1
  /\ LocalsLaid(buffer, es, n)
  /\ CentralsLaid(buffer, es, n, n)
  /\ buffer[3 * n + 1].body =
       EocdBody(n, buffer[2 * n + 1].off, buffer[3 * n + 1].off)
  /\ buffer[3 * n + 1].len = 22

(***************************************************************************)
(* The inductive invariant.                                                *)
(***************************************************************************)

\* The entry the client works on: its time is asked for after its content
\* is read, and its length is the one its method gives.
EntryOK ==
  /\ entry.pc = "read" => entry.m_raw.version <= files[entry.name].version
  /\ entry.pc \in {"stat", "made"} => entry.m_raw.version <= entry.time
  /\ entry.pc = "made" /\ entry.m_method = "none" =>
       entry.length = entry.m_raw.size

\* The offsets on record are those of the local headers.
OffsetsKept(n) ==
  \A k \in 1 .. n : update.header_offset[k] = m_buffer[2 * k - 1].off

LocalOK ==
  LET i == update.i IN
  /\ i <= Len(m_entries)
  /\ Len(m_buffer) = 2 * i
  /\ LocalsLaid(m_buffer, m_entries, i)
  /\ OffsetsKept(i)

CentralOK ==
  LET i == update.i
      n == Len(m_entries)
  IN
  /\ i <= n
  /\ Len(m_buffer) = 2 * n + i
  /\ LocalsLaid(m_buffer, m_entries, n)
  /\ OffsetsKept(n)
  /\ CentralsLaid(m_buffer, m_entries, n, i)
  /\ update.offset_cd = IF i = 0 THEN BufferSize(m_buffer)
                                 ELSE m_buffer[2 * n + 1].off

UpdateOK ==
  /\ update.pc = "local" => LocalOK
  /\ update.pc = "central" => CentralOK
  /\ update.pc # "idle" => buffered = Len(m_entries)
  /\ update.pc = "idle" /\ m_buffer_ready =>
       Complete(m_buffer, m_entries, buffered)

IInv ==
  /\ TypeOK
  /\ BufferOK
  /\ EntryOK
  /\ NoEntryGrows
  /\ TimeNotOlder
  /\ UpdateOK
-------------------------------------------------------------------------------
(* Types.                                                                  *)

EntryType == [pc : {"read", "stat", "made"}, name : Names,
              m_method : {"none", "deflate"},
              m_raw : [version : Nat, size : Nat], time : Nat, length : Nat]

UpdateType == [pc : {"idle", "local", "central"}, i : Nat,
               header_offset : Seq(Nat), offset_cd : Nat]

LEMMA EntryIsTyped ==
  ASSUME TypeOK, entry.pc # "none"
  PROVE  entry \in EntryType
  BY DEF TypeOK, EntryType, NoEntry

LEMMA MadeFields ==
  ASSUME NEW e \in Entries
  PROVE  /\ e.pc = "made" /\ e.name \in Names
         /\ e.m_method \in {"none", "deflate"}
         /\ e.m_raw.version \in Nat /\ e.m_raw.size \in Nat
         /\ e.time \in Nat /\ e.length \in Nat
  BY DEF Entries

LEMMA ModIsNat ==
  ASSUME NEW n \in Nat, NEW m \in Nat \ {0}
  PROVE  n % m \in Nat /\ (n < m => n % m = n)
  OBVIOUS

\* What Compressed makes of an entry.
LEMMA CompressedIs ==
  ASSUME NEW e \in Entries,
         e.m_method = "none" => e.length = e.m_raw.size
  PROVE  /\ Compressed(e) \in Entries
         /\ Compressed(e).name = e.name
         /\ Compressed(e).m_raw = e.m_raw
         /\ Compressed(e).time = e.time
         /\ IF Compressed(e).m_method = "none"
            THEN Compressed(e).length = e.m_raw.size
            ELSE Compressed(e).length <= e.m_raw.size
         /\ e.m_method = "none" => Compressed(e).m_method = "none"
<1>0. /\ e.m_method \in {"none", "deflate"}
      /\ e.m_raw.size \in Nat /\ e.length \in Nat
  BY MadeFields
<1>1. CASE e.m_method # "none" /\ e.length > e.m_raw.size
  <2> DEFINE size == e.m_raw.size
  <2>1. Compressed(e) = [e EXCEPT !.m_method = "none", !.length = size]
    BY <1>1 DEF Compressed
  <2>2. size \in Nat
    BY <1>0
  <2> HIDE DEF size
  <2>3. /\ Compressed(e) \in Entries
        /\ Compressed(e).name = e.name
        /\ Compressed(e).m_raw = e.m_raw
        /\ Compressed(e).time = e.time
        /\ Compressed(e).m_method = "none"
        /\ Compressed(e).length = size
    BY <2>1, <2>2 DEF Entries
  <2>4. QED
    BY <2>3 DEF size
<1>2. CASE ~ (e.m_method # "none" /\ e.length > e.m_raw.size)
  <2>1. Compressed(e) = e
    BY <1>2 DEF Compressed
  <2>2. QED
    BY <1>0, <1>2, <2>1
<1>3. QED
  BY <1>1, <1>2

-------------------------------------------------------------------------------
(* Marshalling.                                                            *)

LEMMA RecordFields ==
  ASSUME NEW buffer \in Seq(Records), NEW j \in 1 .. Len(buffer)
  PROVE  buffer[j].off \in Nat /\ buffer[j].len \in Nat
<1>1. buffer[j] \in Records
  BY ElementOfSeq
<1>2. QED
  BY <1>1 DEF Records

LEMMA BufferSizeIs ==
  ASSUME NEW buffer \in Seq(Records)
  PROVE  /\ BufferSize(buffer) \in Nat
         /\ Len(buffer) = 0 => BufferSize(buffer) = 0
         /\ Len(buffer) # 0 => BufferSize(buffer) =
              buffer[Len(buffer)].off + buffer[Len(buffer)].len
<1>1. CASE Len(buffer) = 0
  <2>1. buffer = <<>>
    BY <1>1, EmptySeq
  <2>2. BufferSize(buffer) = 0
    BY <2>1 DEF BufferSize
  <2>3. QED
    BY <1>1, <2>2
<1>2. CASE Len(buffer) # 0
  <2>1. buffer # <<>> /\ Len(buffer) \in 1 .. Len(buffer)
    BY <1>2, EmptySeq, LenProperties
  <2>2. BufferSize(buffer) =
          buffer[Len(buffer)].off + buffer[Len(buffer)].len
    BY <2>1 DEF BufferSize
  <2>3. buffer[Len(buffer)].off \in Nat /\ buffer[Len(buffer)].len \in Nat
    BY <2>1, RecordFields
  <2>4. QED
    BY <1>2, <2>2, <2>3
<1>3. QED
  BY <1>1, <1>2

\* b is the buffer with one record more, behind the others.
Extended(b, buffer, body, len) ==
  LET n == Len(buffer) IN
  /\ b \in Seq(Records)
  /\ InOrder(b)
  /\ Len(b) = n + 1
  /\ \A j \in 1 .. n : b[j] = buffer[j]
  /\ b[n + 1].off = BufferSize(buffer)
  /\ b[n + 1].len = len
  /\ b[n + 1].body = body
  /\ BufferSize(b) = BufferSize(buffer) + len

\* A record is added behind the others, and they stay as they are.
LEMMA MarshalIs ==
  ASSUME NEW buffer \in Seq(Records), InOrder(buffer),
         NEW body \in Bodies, NEW len \in Nat
  PROVE  Extended(Marshal(buffer, body, len), buffer, body, len)
<1> DEFINE b == Marshal(buffer, body, len)
           n == Len(buffer)
           r == [off |-> BufferSize(buffer), len |-> len, body |-> body]
<1>1. BufferSize(buffer) \in Nat
  BY BufferSizeIs
<1>2. r \in Records /\ r.off = BufferSize(buffer) /\ r.len = len /\ r.body = body
  BY <1>1 DEF Records
<1>3. b = Append(buffer, r)
  BY DEF Marshal
<1>4. n \in Nat
  BY LenProperties
<1> HIDE DEF r, b
<1>5. /\ b \in Seq(Records) /\ Len(b) = n + 1
      /\ \A j \in 1 .. n : b[j] = buffer[j]
      /\ b[n + 1] = r
  BY <1>2, <1>3, AppendProperties
<1>6. InOrder(b)
  <2>1. SUFFICES ASSUME NEW j \in 1 .. n + 1, NEW k \in 1 .. n + 1, j < k
                 PROVE  b[j].off + b[j].len <= b[k].off
    BY <1>5 DEF InOrder
  <2>2. j \in 1 .. n /\ b[j] = buffer[j]
    BY <1>4, <1>5, <2>1
  <2>3. CASE k \in 1 .. n
    BY <1>5, <2>1, <2>2, <2>3 DEF InOrder
  <2>4. CASE k = n + 1
    <3>1. b[k].off = BufferSize(buffer)
      BY <1>2, <1>5, <2>4
    <3>2. n \in 1 .. n /\ BufferSize(buffer) = buffer[n].off + buffer[n].len
      BY <1>4, <2>2, BufferSizeIs
    <3>3. /\ buffer[n].off \in Nat /\ buffer[n].len \in Nat
          /\ buffer[j].off \in Nat /\ buffer[j].len \in Nat
      BY <2>2, <3>2, RecordFields
    <3>4. j < n => buffer[j].off + buffer[j].len <= buffer[n].off
      BY <2>2, <3>2 DEF InOrder
    <3>5. j = n \/ j < n
      BY <1>4, <2>2
    <3>6. buffer[j].off + buffer[j].len <= buffer[n].off + buffer[n].len
      BY <3>3, <3>4, <3>5
    <3>7. QED
      BY <2>2, <3>1, <3>2, <3>6
  <2>5. QED
    BY <1>4, <2>1, <2>3, <2>4
<1>7. BufferSize(b) = BufferSize(buffer) + len
  <2>1. Len(b) # 0
    BY <1>4, <1>5
  <2>2. BufferSize(b) = b[n + 1].off + b[n + 1].len
    BY <1>5, <2>1, BufferSizeIs
  <2>3. QED
    BY <1>2, <1>5, <2>2
<1>8. QED
  BY <1>2, <1>5, <1>6, <1>7 DEF b, Extended

LEMMA HeaderType ==
  ASSUME NEW e \in Entries
  PROVE  FileHeader(e) \in Headers
<1>1. e.length % SizeMod \in Nat /\ e.m_raw.size % SizeMod \in Nat
  BY MadeFields, ModIsNat, ZipperAssumption
<1>2. QED
  BY <1>1, MadeFields DEF FileHeader, Headers

LEMMA BodyTypes ==
  ASSUME NEW e \in Entries
  PROVE  /\ LocalBody(e) \in Bodies
         /\ DataBody(e) \in Bodies
         /\ \A offset \in Nat : CentralBody(e, offset) \in Bodies
         /\ 30 + NameLength[e.name] \in Nat /\ 46 + NameLength[e.name] \in Nat
         /\ e.length \in Nat
<1>1. LocalBody(e) \in Bodies
  BY HeaderType DEF LocalBody, Bodies
<1>2. DataBody(e) \in Bodies
  BY MadeFields DEF DataBody, Bodies
<1>3. ASSUME NEW offset \in Nat PROVE CentralBody(e, offset) \in Bodies
  <2>1. offset % SizeMod \in Nat
    BY ModIsNat, ZipperAssumption
  <2>2. QED
    BY <2>1, HeaderType DEF CentralBody, Bodies
<1>4. NameLength[e.name] \in Nat
  BY MadeFields, ZipperAssumption
<1>5. QED
  BY <1>1, <1>2, <1>3, <1>4, MadeFields

LEMMA EocdType ==
  ASSUME NEW n \in Nat, NEW cd \in Nat, NEW end \in Nat, cd <= end
  PROVE  EocdBody(n, cd, end) \in Bodies
<1>1. end - cd \in Nat
  OBVIOUS
<1>2. n % CountMod \in Nat /\ (end - cd) % SizeMod \in Nat /\ cd % SizeMod \in Nat
  BY <1>1, ModIsNat, ZipperAssumption
<1>3. QED
  BY <1>2 DEF EocdBody, Bodies

-------------------------------------------------------------------------------
(* The records keep their places while others are added behind them.       *)

LEMMA LocalsStay ==
  ASSUME NEW b, NEW c, NEW es, NEW n \in Nat,
         \A j \in 1 .. 2 * n : c[j] = b[j],
         LocalsLaid(b, es, n)
  PROVE  LocalsLaid(c, es, n)
<1> SUFFICES ASSUME NEW k \in 1 .. n
             PROVE  /\ c[2 * k - 1].body = LocalBody(es[k])
                    /\ c[2 * k].body = DataBody(es[k])
                    /\ c[2 * k].off = c[2 * k - 1].off + c[2 * k - 1].len
                    /\ c[2 * k].len = es[k].length
  BY DEF LocalsLaid
<1>1. 2 * k - 1 \in 1 .. 2 * n /\ 2 * k \in 1 .. 2 * n
  OBVIOUS
<1>2. c[2 * k - 1] = b[2 * k - 1] /\ c[2 * k] = b[2 * k]
  BY <1>1
<1>3. QED
  BY <1>2 DEF LocalsLaid

LEMMA CentralsStay ==
  ASSUME NEW b, NEW c, NEW es, NEW n \in Nat, NEW i \in 0 .. n,
         \A j \in 1 .. 2 * n + i : c[j] = b[j],
         CentralsLaid(b, es, n, i)
  PROVE  CentralsLaid(c, es, n, i)
<1> SUFFICES ASSUME NEW k \in 1 .. i
             PROVE  c[2 * n + k].body = CentralBody(es[k], c[2 * k - 1].off)
  BY DEF CentralsLaid
<1>1. 2 * k - 1 \in 1 .. 2 * n + i /\ 2 * n + k \in 1 .. 2 * n + i
  OBVIOUS
<1>2. c[2 * k - 1] = b[2 * k - 1] /\ c[2 * n + k] = b[2 * n + k]
  BY <1>1
<1>3. QED
  BY <1>2 DEF CentralsLaid

\* Only the entries that are in it matter to an archive.
LEMMA CompleteOfPrefix ==
  ASSUME NEW b, NEW es, NEW fs, NEW n \in Nat,
         \A k \in 1 .. n : fs[k] = es[k],
         Complete(b, es, n)
  PROVE  Complete(b, fs, n)
  BY DEF Complete, LocalsLaid, CentralsLaid
-------------------------------------------------------------------------------
(* A complete buffer is an archive, as long as the format's counters hold. *)

LEMMA CompleteIsArchive ==
  ASSUME NEW b \in Seq(Records), InOrder(b), NEW es \in Seq(Entries),
         Complete(b, es, Len(es)),
         Len(es) < CountMod, BufferSize(b) <= SizeMod,
         \A k \in 1 .. Len(es) : es[k].m_raw.size < SizeMod
  PROVE  IsArchiveOf(b, es)
<1> DEFINE n == Len(es)
           last == Len(b)
           cd == b[2 * n + 1].off
           end == b[3 * n + 1].off
<1>1. n \in Nat /\ last = 3 * n + 1
  BY LenProperties DEF Complete
<1>2. /\ \A j \in 1 .. last : b[j].off \in Nat /\ b[j].len \in Nat
      /\ \A j \in 1 .. last : j < last => b[j].off + b[j].len <= b[last].off
  <2>1. \A j \in 1 .. last : b[j].off \in Nat /\ b[j].len \in Nat
    BY RecordFields
  <2>2. last \in 1 .. last
    BY <1>1
  <2>3. QED
    BY <2>1, <2>2 DEF InOrder
<1>3. end < SizeMod /\ end \in Nat
  <2>1. BufferSize(b) = b[last].off + b[last].len
    <3>1. Len(b) # 0
      BY <1>1
    <3> HIDE DEF n, cd, end
    <3>2. QED
      BY <3>1, BufferSizeIs
  <2>2. b[last].len = 22 /\ b[last].off = end
    BY <1>1 DEF Complete
  <2>3. last \in 1 .. last
    BY <1>1
  <2>4. QED
    BY <1>2, <2>1, <2>2, <2>3, ZipperAssumption
<1>4. \A j \in 1 .. last : b[j].off <= end /\ b[j].off < SizeMod
                           /\ (j < last => b[j].len < SizeMod)
  <2>1. SUFFICES ASSUME NEW j \in 1 .. last
                 PROVE  /\ b[j].off <= end /\ b[j].off < SizeMod
                        /\ j < last => b[j].len < SizeMod
    OBVIOUS
  <2>2. b[j].off \in Nat /\ b[j].len \in Nat
    BY <1>2
  <2>3. CASE j = last
    BY <1>1, <1>3, <2>3
  <2>4. CASE j < last
    <3>1. b[j].off + b[j].len <= end
      BY <1>1, <1>2, <2>4
    <3>2. QED
      BY <1>3, <2>2, <3>1, ZipperAssumption, SMTT(20)
  <2>5. QED
    BY <1>1, <2>3, <2>4
<1>5. /\ 2 * n + 1 \in 1 .. last /\ cd \in Nat /\ cd <= end /\ cd < SizeMod
  BY <1>1, <1>2, <1>4
<1>6. b[last].body = EocdBody(n, cd, end) /\ b[last].off = end
  BY <1>1 DEF Complete
<1>7. /\ b[last].body.kind = "eocd"
      /\ b[last].body.count = n
      /\ b[last].body.cd_offset = cd
      /\ b[last].body.cd_size = end - cd
  <2>1. n % CountMod = n
    BY <1>1, ModIsNat, ZipperAssumption
  <2>2. cd % SizeMod = cd
    <3>1. cd \in Nat /\ cd < SizeMod
      BY <1>5
    <3> HIDE DEF n, cd, end
    <3>2. QED
      BY <3>1, ModIsNat, ZipperAssumption
  <2>3. end - cd \in Nat /\ end - cd < SizeMod
    BY <1>3, <1>5, ZipperAssumption
  <2>4. (end - cd) % SizeMod = end - cd
    BY <2>3, ModIsNat, ZipperAssumption
  <2> HIDE DEF n, cd, end
  <2>5. QED
    BY <1>6, <2>1, <2>2, <2>4 DEF EocdBody
<1>8. ASSUME NEW k \in 1 .. n
      PROVE  LET central == b[last - n - 1 + k].body IN
             /\ central.kind = "central"
             /\ central.file = Described(es[k])
             /\ \E l \in 1 .. last - 1 :
                  LET local == b[l]
                      data == b[l + 1]
                  IN  /\ local.off = central.offset
                      /\ local.body = [kind |-> "local", file |-> central.file]
                      /\ data.body = [kind |-> "data",
                                      method |-> central.file.method,
                                      content |-> central.file.crc]
                      /\ data.off = local.off + local.len
                      /\ data.len = central.file.csize
  <2> DEFINE l == 2 * k - 1
             central == b[last - n - 1 + k].body
  <2>1. /\ last - n - 1 + k = 2 * n + k /\ l \in 1 .. last - 1
        /\ l \in 1 .. last /\ l + 1 \in 1 .. last /\ l + 1 < last
        /\ l + 1 = 2 * k
    BY <1>1
  <2>2. /\ central = CentralBody(es[k], b[l].off)
        /\ b[l].body = LocalBody(es[k])
        /\ b[l + 1].body = DataBody(es[k])
        /\ b[l + 1].off = b[l].off + b[l].len
        /\ b[l + 1].len = es[k].length
    BY <1>1, <2>1 DEF Complete, LocalsLaid, CentralsLaid
  <2>3. b[l].off % SizeMod = b[l].off
    BY <1>2, <1>4, <2>1, ModIsNat, ZipperAssumption
  <2>4. es[k].length % SizeMod = es[k].length
    <3>1. b[l + 1].len < SizeMod /\ b[l + 1].len \in Nat
      BY <1>2, <1>4, <2>1
    <3>2. QED
      BY <2>2, <3>1, ModIsNat, ZipperAssumption
  <2>s. es[k].m_raw.size % SizeMod = es[k].m_raw.size
    <3>1. es[k].m_raw.size \in Nat
      <4>1. es[k] \in Entries
        BY ElementOfSeq
      <4>2. QED
        BY <4>1, MadeFields
    <3>2. QED
      BY <3>1, ModIsNat, ZipperAssumption
  <2>f. FileHeader(es[k]) = Described(es[k])
    BY <2>4, <2>s DEF FileHeader, Described
  <2>5. /\ central.kind = "central" /\ central.file = FileHeader(es[k])
        /\ central.file = Described(es[k])
        /\ central.offset = b[l].off
    BY <2>2, <2>3, <2>f DEF CentralBody
  <2>6. /\ central.file.method = es[k].m_method
        /\ central.file.crc = es[k].m_raw.version
        /\ central.file.csize = es[k].length
    BY <2>5 DEF Described
  <2> HIDE DEF central, l
  <2>7. /\ b[l].off = central.offset
        /\ b[l].body = [kind |-> "local", file |-> central.file]
        /\ b[l + 1].body = [kind |-> "data", method |-> central.file.method,
                            content |-> central.file.crc]
        /\ b[l + 1].off = b[l].off + b[l].len
        /\ b[l + 1].len = central.file.csize
    BY <2>2, <2>5, <2>6 DEF LocalBody, DataBody
  <2>8. QED
    BY <2>1, <2>5, <2>7 DEF central
<1>9. /\ last > 0 /\ last > n /\ last - n = 2 * n + 1
      /\ b[last].off = cd + (end - cd)
  BY <1>1, <1>3, <1>5, <1>6
<1>10. b[last - n].off = b[last].body.cd_offset
       /\ b[last].off = b[last].body.cd_offset + b[last].body.cd_size
  BY <1>7, <1>9
<1> HIDE DEF cd, end
<1>11. QED
  BY <1>7, <1>8, <1>9, <1>10 DEF IsArchiveOf

-------------------------------------------------------------------------------
(* The invariant.                                                          *)

LEMMA InitEstablishes == Init => IInv
<1> SUFFICES ASSUME Init PROVE IInv
  OBVIOUS
<1>1. /\ files \in [Names -> [version : {0}, size : Sizes]]
      /\ entry.pc = "none" /\ entry = NoEntry
      /\ m_entries = <<>> /\ m_buffer = <<>> /\ m_buffer_ready = FALSE
      /\ update = Idle /\ written = "never" /\ process = "runs"
      /\ buffered = 0
  BY DEF Init, NoEntry
<1>2. files \in [Names -> [version : Nat, size : Nat]]
  <2>1. ASSUME NEW name \in Names
        PROVE  files[name] \in [version : Nat, size : Nat]
    <3>1. files[name] \in [version : {0}, size : Sizes]
      BY <1>1
    <3>2. files[name].version = 0 /\ files[name].size \in Nat
      BY <3>1, ZipperAssumption
    <3>3. QED
      BY <3>1, <3>2
  <2>2. QED
    BY <1>1, <2>1
<1>3. /\ update.pc = "idle" /\ Idle \in UpdateType
  <2>1. <<>> \in Seq(Nat)
    OBVIOUS
  <2> DEFINE e == <<>>
  <2>2. Idle = [pc |-> "idle", i |-> 0, header_offset |-> e, offset_cd |-> 0]
    BY DEF Idle
  <2>3. e \in Seq(Nat)
    BY <2>1
  <2> HIDE DEF e
  <2>4. QED
    BY <1>1, <2>2, <2>3 DEF UpdateType
<1>4. m_entries \in Seq(Entries) /\ m_buffer \in Seq(Records)
      /\ Len(m_buffer) = 0 /\ DOMAIN m_entries = {}
      /\ buffered \in 0 .. Len(m_entries)
  BY <1>1
<1>5. TypeOK
  BY <1>1, <1>2, <1>3, <1>4 DEF TypeOK, UpdateType
<1>6. BufferOK /\ NoEntryGrows /\ TimeNotOlder
  BY <1>4 DEF BufferOK, InOrder, NoEntryGrows, TimeNotOlder
<1>7. EntryOK /\ UpdateOK
  BY <1>1, <1>3 DEF EntryOK, UpdateOK
<1>8. QED
  BY <1>5, <1>6, <1>7 DEF IInv

\* The parts of the invariant that are about the archive.
ZipOK == BufferOK /\ NoEntryGrows /\ TimeNotOlder /\ UpdateOK

LEMMA ZipUnchanged ==
  ASSUME ZipOK, UNCHANGED zip_vars
  PROVE  ZipOK'
  BY DEF ZipOK, zip_vars, BufferOK, InOrder, NoEntryGrows, TimeNotOlder,
         UpdateOK, LocalOK, CentralOK, OffsetsKept

LEMMA ChangeFilePreserves ==
  ASSUME IInv, NEW name \in Names, ChangeFile(name)
  PROVE  IInv'
<1>1. PICK size \in Sizes :
        files' = [files EXCEPT ![name] = [version |-> files[name].version + 1,
                                          size |-> size]]
  BY DEF ChangeFile
<1>2. files \in [Names -> [version : Nat, size : Nat]]
  BY DEF IInv, TypeOK
<1>3. \A f \in Names : /\ files'[f] \in [version : Nat, size : Nat]
                       /\ files'[f].version >= files[f].version
  BY <1>1, <1>2, ZipperAssumption
<1>4. files' \in [Names -> [version : Nat, size : Nat]]
  BY <1>1, <1>2, <1>3
<1>5. TypeOK'
  BY <1>4 DEF ChangeFile, IInv, TypeOK, zip_vars, out_vars
<1>6. EntryOK'
  <2>1. entry' = entry
    BY DEF ChangeFile
  <2>2. ASSUME entry.pc = "read"
        PROVE  entry.m_raw.version <= files'[entry.name].version
    <3>1. entry \in EntryType
      BY <2>2, EntryIsTyped DEF IInv
    <3>2. entry.name \in Names /\ entry.m_raw.version \in Nat
      BY <3>1 DEF EntryType
    <3>3. entry.m_raw.version <= files[entry.name].version
      BY <2>2 DEF IInv, EntryOK
    <3>4. files[entry.name].version \in Nat /\ files'[entry.name].version \in Nat
      BY <1>2, <1>4, <3>2
    <3>5. QED
      BY <1>3, <3>2, <3>3, <3>4
  <2>3. QED
    BY <2>1, <2>2 DEF IInv, EntryOK
<1>7. ZipOK'
  BY ZipUnchanged DEF ChangeFile, IInv, ZipOK
<1>8. QED
  BY <1>5, <1>6, <1>7 DEF IInv, ZipOK

\* A step of the client that works on its entry only.
LEMMA EntryStep ==
  ASSUME IInv, UNCHANGED <<files, zip_vars, out_vars>>,
         process' \in {"runs", "exited", "crashed"},
         entry' \in EntryType, EntryOK'
  PROVE  IInv'
<1>1. TypeOK'
  BY DEF IInv, TypeOK, zip_vars, out_vars, EntryType
<1>2. ZipOK'
  BY ZipUnchanged DEF IInv, ZipOK
<1>3. QED
  BY <1>1, <1>2 DEF IInv, ZipOK

LEMMA ReadPreserves ==
  ASSUME IInv, NEW name \in Names, NEW method \in {"none", "deflate"},
         read_bytes(name, method)
  PROVE  IInv'
<1> DEFINE raw == files[name]
<1>1. raw \in [version : Nat, size : Nat] /\ raw.version \in Nat
  BY DEF IInv, TypeOK
<1>2. entry' = [pc |-> "read", name |-> name, m_method |-> method,
                m_raw |-> raw, time |-> 0, length |-> 0]
  BY DEF read_bytes
<1>3. UNCHANGED <<files, zip_vars, out_vars>> /\ process' = process
  BY DEF read_bytes
<1>4. raw.version <= files[name].version
  BY <1>1
<1> HIDE DEF raw
<1>5. /\ entry' \in EntryType /\ entry'.pc = "read"
      /\ entry'.name = name /\ entry'.m_raw = raw
  BY <1>1, <1>2 DEF EntryType
<1>6. EntryOK'
  BY <1>3, <1>4, <1>5 DEF EntryOK
<1>7. QED
  BY <1>3, <1>5, <1>6, EntryStep DEF IInv, TypeOK

LEMMA TimePreserves ==
  ASSUME IInv, get_last_modify_time
  PROVE  IInv'
<1> DEFINE time == files[entry.name].version
<1>1. /\ entry.pc = "read" /\ UNCHANGED <<files, zip_vars, out_vars>>
      /\ process' = process
      /\ entry' = [entry EXCEPT !.pc = "stat", !.time = time]
  BY DEF get_last_modify_time
<1>2. entry \in EntryType
  BY <1>1, EntryIsTyped DEF IInv
<1>3. time \in Nat
  BY <1>2 DEF IInv, TypeOK, EntryType
<1>4. entry.m_raw.version <= time
  BY <1>1 DEF IInv, EntryOK
<1> HIDE DEF time
<1>5. /\ entry' \in EntryType /\ entry'.pc = "stat"
      /\ entry'.m_raw = entry.m_raw /\ entry'.time = time
  BY <1>1, <1>2, <1>3 DEF EntryType
<1>6. EntryOK'
  BY <1>4, <1>5 DEF EntryOK
<1>7. QED
  BY <1>1, <1>5, <1>6, EntryStep DEF IInv, TypeOK

LEMMA ConstructPreserves ==
  ASSUME IInv, construct
  PROVE  IInv'
<1>1. entry.pc = "stat" /\ UNCHANGED <<files, zip_vars, out_vars>>
  BY DEF construct
<1>2. entry \in EntryType /\ entry.m_raw.version <= entry.time
  BY <1>1, EntryIsTyped DEF IInv, EntryOK
<1>3. ASSUME NEW n \in Nat, entry' = [entry EXCEPT !.pc = "made", !.length = n],
             entry.m_method = "none" => n = entry.m_raw.size,
             process' = process
      PROVE  IInv'
  <2>1. /\ entry' \in EntryType /\ entry'.pc = "made"
        /\ entry'.m_raw = entry.m_raw /\ entry'.time = entry.time
        /\ entry'.m_method = entry.m_method /\ entry'.length = n
    BY <1>2, <1>3 DEF EntryType
  <2>2. EntryOK'
    BY <1>2, <1>3, <2>1 DEF EntryOK
  <2>3. QED
    BY <1>1, <1>3, <2>1, <2>2, EntryStep DEF IInv, TypeOK
<1>4. CASE /\ entry.m_method = "none" /\ UNCHANGED process
           /\ entry' = [entry EXCEPT !.pc = "made", !.length = entry.m_raw.size]
  <2>1. entry.m_raw.size \in Nat
    BY <1>2 DEF EntryType
  <2>2. QED
    BY <1>3, <1>4, <2>1
<1>5. CASE /\ entry.m_method = "deflate" /\ UNCHANGED process
           /\ \E n \in Deflated :
                entry' = [entry EXCEPT !.pc = "made", !.length = n]
  BY <1>3, <1>5, ZipperAssumption
<1>6. CASE process' = "crashed" /\ UNCHANGED entry
  <2>1. EntryOK'
    BY <1>1, <1>6 DEF IInv, EntryOK
  <2>2. QED
    BY <1>1, <1>2, <1>6, <2>1, EntryStep
<1>7. QED
  BY <1>4, <1>5, <1>6 DEF construct

\* The entry that was made, as compress and add_entry find it.
LEMMA MadeEntry ==
  ASSUME IInv, entry.pc = "made"
  PROVE  /\ entry \in Entries
         /\ entry.m_method = "none" => entry.length = entry.m_raw.size
         /\ entry.m_raw.version <= entry.time
<1>1. entry \in EntryType
  BY EntryIsTyped DEF IInv
<1>2. entry \in Entries
  BY <1>1 DEF EntryType, Entries
<1>3. QED
  BY <1>2 DEF IInv, EntryOK

LEMMA CompressPreserves ==
  ASSUME IInv, compress
  PROVE  IInv'
<1>1. /\ entry.pc = "made" /\ entry' = Compressed(entry) /\ process' = process
      /\ UNCHANGED <<files, zip_vars, out_vars>>
  BY DEF compress
<1>2. /\ entry \in Entries /\ entry.m_raw.version <= entry.time
      /\ entry.m_method = "none" => entry.length = entry.m_raw.size
  BY <1>1, MadeEntry
<1>3. /\ entry' \in Entries /\ entry'.m_raw = entry.m_raw
      /\ entry'.time = entry.time
      /\ entry'.m_method = "none" => entry'.length = entry'.m_raw.size
  BY <1>1, <1>2, CompressedIs
<1>4. entry' \in EntryType /\ entry'.pc = "made"
  BY <1>3 DEF Entries, EntryType
<1>5. EntryOK'
  BY <1>2, <1>3, <1>4 DEF EntryOK
<1>6. QED
  BY <1>1, <1>4, <1>5, EntryStep DEF IInv, TypeOK

LEMMA PanicPreserves ==
  ASSUME IInv, panic \/ write_panic
  PROVE  IInv'
<1>1. process' = "exited" /\ UNCHANGED <<files, entry, zip_vars, out_vars>>
  BY DEF panic, write_panic
<1>2. TypeOK' /\ EntryOK'
  BY <1>1 DEF IInv, TypeOK, EntryOK, zip_vars, out_vars
<1>3. ZipOK'
  BY <1>1, ZipUnchanged DEF IInv, ZipOK
<1>4. QED
  BY <1>2, <1>3 DEF IInv, ZipOK

LEMMA WritePreserves ==
  ASSUME IInv, write
  PROVE  IInv'
<1>1. UNCHANGED <<files, entry, zip_vars, process>> /\ written' \in {"true", "false"}
  BY DEF write
<1>2. TypeOK' /\ EntryOK'
  BY <1>1 DEF IInv, TypeOK, EntryOK, zip_vars
<1>3. ZipOK'
  BY <1>1, ZipUnchanged DEF IInv, ZipOK
<1>4. QED
  BY <1>2, <1>3 DEF IInv, ZipOK
LEMMA AddPreserves ==
  ASSUME IInv, add_entry
  PROVE  IInv'
<1> DEFINE e == Compressed(entry)
           n == Len(m_entries)
<1>1. /\ entry.pc = "made" /\ update.pc = "idle"
      /\ m_entries' = Append(m_entries, e) /\ entry' = NoEntry
      /\ UNCHANGED <<files, m_buffer, m_buffer_ready, update, buffered, out_vars,
                     process>>
  BY DEF add_entry, Free
<1>2. /\ e \in Entries /\ e.m_raw = entry.m_raw /\ e.time = entry.time
      /\ IF e.m_method = "none" THEN e.length = e.m_raw.size
                                ELSE e.length <= e.m_raw.size
      /\ e.m_raw.version <= e.time
  <2>1. /\ entry \in Entries /\ entry.m_raw.version <= entry.time
        /\ entry.m_method = "none" => entry.length = entry.m_raw.size
    BY <1>1, MadeEntry
  <2> HIDE DEF e
  <2>2. /\ e \in Entries /\ e.m_raw = entry.m_raw /\ e.time = entry.time
        /\ IF e.m_method = "none" THEN e.length = entry.m_raw.size
                                  ELSE e.length <= entry.m_raw.size
    BY <2>1, CompressedIs DEF e
  <2>3. QED
    BY <2>1, <2>2
<1>3. m_entries \in Seq(Entries) /\ n \in Nat
  BY LenProperties DEF IInv, TypeOK
<1> HIDE DEF e
<1>4. /\ m_entries' \in Seq(Entries) /\ Len(m_entries') = n + 1
      /\ \A k \in 1 .. n : m_entries'[k] = m_entries[k]
      /\ m_entries'[n + 1] = e
  BY <1>1, <1>2, <1>3, AppendProperties
<1>b. buffered \in 0 .. n
  BY DEF IInv, TypeOK
<1>5. TypeOK'
  <2>1. buffered' \in 0 .. Len(m_entries')
    BY <1>1, <1>3, <1>4, <1>b
  <2>2. QED
    BY <1>1, <1>4, <2>1 DEF IInv, TypeOK, out_vars
<1>6. BufferOK'
  BY <1>1 DEF IInv, BufferOK, InOrder
<1>7. EntryOK'
  BY <1>1 DEF EntryOK, NoEntry
<1>8. DOMAIN m_entries' = 1 .. n + 1 /\ DOMAIN m_entries = 1 .. n
  BY <1>3, <1>4, LenProperties
<1>9. ASSUME NEW k \in DOMAIN m_entries'
      PROVE  \/ k \in DOMAIN m_entries /\ m_entries'[k] = m_entries[k]
             \/ m_entries'[k] = e
  BY <1>3, <1>4, <1>8
<1>10. NoEntryGrows'
  <2>1. SUFFICES ASSUME NEW k \in DOMAIN m_entries'
                 PROVE  IF m_entries'[k].m_method = "none"
                        THEN m_entries'[k].length = m_entries'[k].m_raw.size
                        ELSE m_entries'[k].length <= m_entries'[k].m_raw.size
    BY DEF NoEntryGrows
  <2>2. QED
    BY <1>2, <1>9 DEF IInv, NoEntryGrows
<1>11. TimeNotOlder'
  <2>1. SUFFICES ASSUME NEW k \in DOMAIN m_entries'
                 PROVE  m_entries'[k].time >= m_entries'[k].m_raw.version
    BY DEF TimeNotOlder
  <2>2. e.time >= e.m_raw.version
    BY <1>2, MadeFields
  <2>3. QED
    BY <1>9, <2>2 DEF IInv, TimeNotOlder
<1>12. UpdateOK'
  <2>1. ASSUME m_buffer_ready
        PROVE  Complete(m_buffer', m_entries', buffered')
    <3>1. Complete(m_buffer, m_entries, buffered)
      BY <1>1, <2>1 DEF IInv, UpdateOK
    <3>2. buffered \in Nat
      BY <1>b
    <3>3. \A j \in 1 .. buffered : m_entries'[j] = m_entries[j]
      BY <1>3, <1>4, <1>b
    <3>4. Complete(m_buffer, m_entries', buffered)
      BY <3>1, <3>2, <3>3, CompleteOfPrefix
    <3>5. QED
      BY <1>1, <3>4
  <2>2. QED
    BY <1>1, <2>1 DEF UpdateOK
<1>13. QED
  BY <1>5, <1>6, <1>7, <1>10, <1>11, <1>12 DEF IInv

\* A step of update_buffer: only the buffer and its own locals change.
LEMMA UpdateKeeps ==
  ASSUME IInv, UNCHANGED <<files, entry, m_entries, out_vars, process>>,
         m_buffer_ready' \in BOOLEAN, buffered' \in 0 .. Len(m_entries),
         BufferOK', UpdateOK',
         update' \in UpdateType,
         update'.pc = "local" => Len(update'.header_offset) = update'.i,
         update'.pc = "central" => Len(update'.header_offset) = Len(m_entries)
  PROVE  IInv'
<1>1. TypeOK'
  BY DEF IInv, TypeOK, out_vars, UpdateType
<1>2. EntryOK' /\ NoEntryGrows' /\ TimeNotOlder'
  BY DEF IInv, EntryOK, NoEntryGrows, TimeNotOlder
<1>3. QED
  BY <1>1, <1>2 DEF IInv

\* Nothing is registered while update_buffer runs.
LEMMA AllBuffered ==
  ASSUME IInv, update.pc # "idle"
  PROVE  buffered = Len(m_entries) /\ buffered \in 0 .. Len(m_entries)
  BY DEF IInv, TypeOK, UpdateOK

LEMMA UpdateBufferPreserves ==
  ASSUME IInv, update_buffer
  PROVE  IInv'
<1>1. /\ m_buffer' = <<>> /\ update' = [Idle EXCEPT !.pc = "local"]
      /\ buffered' = Len(m_entries)
      /\ UNCHANGED <<files, entry, m_entries, m_buffer_ready, out_vars, process>>
  BY DEF update_buffer
<1> DEFINE e == <<>>
<1>2. update' = [pc |-> "local", i |-> 0, header_offset |-> e, offset_cd |-> 0]
  BY <1>1 DEF Idle
<1>3. e \in Seq(Nat) /\ Len(e) = 0 /\ m_buffer' = e
      /\ e \in Seq(Records)
  BY <1>1
<1> HIDE DEF e
<1>4. /\ update' \in UpdateType /\ update'.pc = "local" /\ update'.i = 0
      /\ Len(update'.header_offset) = 0
  BY <1>2, <1>3 DEF UpdateType
<1>5. BufferOK'
  BY <1>3 DEF BufferOK, InOrder
<1>6. Len(m_entries) \in Nat /\ m_buffer_ready \in BOOLEAN
  BY LenProperties DEF IInv, TypeOK
<1>7. LocalOK'
  BY <1>1, <1>3, <1>4, <1>6 DEF LocalOK, LocalsLaid, OffsetsKept
<1>8. UpdateOK'
  BY <1>1, <1>4, <1>7 DEF UpdateOK
<1>9. buffered' \in 0 .. Len(m_entries)
  BY <1>1, <1>6
<1>10. QED
  BY <1>1, <1>4, <1>5, <1>6, <1>8, <1>9, UpdateKeeps

LEMMA LocalFilePreserves ==
  ASSUME IInv, LocalFile
  PROVE  IInv'
<1> DEFINE i == update.i
           e == m_entries[i + 1]
           header == write_local_file_header(m_buffer, e)
           size == BufferSize(m_buffer)
           offsets == Append(update.header_offset, size)
<1>1. /\ update.pc = "local" /\ i < Len(m_entries)
      /\ m_buffer' = write_file_block(header, e)
      /\ update' = [update EXCEPT !.i = i + 1, !.header_offset = offsets]
      /\ UNCHANGED <<files, entry, m_entries, m_buffer_ready, buffered, out_vars,
                     process>>
  BY DEF LocalFile
<1>2. /\ update \in UpdateType /\ m_entries \in Seq(Entries)
      /\ m_buffer \in Seq(Records) /\ InOrder(m_buffer)
      /\ m_buffer_ready \in BOOLEAN
      /\ Len(update.header_offset) = i
  BY <1>1 DEF IInv, TypeOK, UpdateType, BufferOK
<1>3. /\ i \in Nat /\ Len(m_buffer) = 2 * i
      /\ LocalsLaid(m_buffer, m_entries, i) /\ OffsetsKept(i)
      /\ update.header_offset \in Seq(Nat)
  BY <1>1, <1>2 DEF IInv, UpdateOK, LocalOK, UpdateType
<1>4. e \in Entries
  <2>1. i + 1 \in 1 .. Len(m_entries)
    BY <1>1, <1>2, <1>3, LenProperties
  <2>2. QED
    BY <1>2, <2>1, ElementOfSeq
<1>5. size \in Nat
  BY <1>2, BufferSizeIs
<1> HIDE DEF e
<1>6. /\ header \in Seq(Records) /\ InOrder(header)
      /\ Len(header) = 2 * i + 1
      /\ \A j \in 1 .. 2 * i : header[j] = m_buffer[j]
      /\ header[2 * i + 1].off = size
      /\ header[2 * i + 1].body = LocalBody(e)
      /\ BufferSize(header) = header[2 * i + 1].off + header[2 * i + 1].len
  <2> DEFINE len == 30 + NameLength[e.name]
  <2>1. LocalBody(e) \in Bodies /\ len \in Nat
    BY <1>4, BodyTypes
  <2>2. header = Marshal(m_buffer, LocalBody(e), len)
    BY DEF write_local_file_header, LocalBody
  <2>e. Extended(header, m_buffer, LocalBody(e), len)
    BY <1>2, <2>1, <2>2, MarshalIs
  <2> HIDE DEF len, header
  <2>3. /\ header \in Seq(Records) /\ InOrder(header)
        /\ Len(header) = 2 * i + 1
        /\ \A j \in 1 .. 2 * i : header[j] = m_buffer[j]
        /\ header[2 * i + 1].off = size
        /\ header[2 * i + 1].len = len
        /\ header[2 * i + 1].body = LocalBody(e)
        /\ BufferSize(header) = size + len
    BY <1>3, <2>e DEF Extended
  <2>4. QED
    BY <2>3
<1> HIDE DEF header
<1>7. /\ m_buffer' \in Seq(Records) /\ InOrder(m_buffer')
      /\ Len(m_buffer') = 2 * i + 2
      /\ \A j \in 1 .. 2 * i + 1 : m_buffer'[j] = header[j]
      /\ m_buffer'[2 * i + 2].off = BufferSize(header)
      /\ m_buffer'[2 * i + 2].len = e.length
      /\ m_buffer'[2 * i + 2].body = DataBody(e)
  <2>1. DataBody(e) \in Bodies /\ e.length \in Nat
    BY <1>4, BodyTypes
  <2>2. m_buffer' = Marshal(header, DataBody(e), e.length)
    BY <1>1 DEF write_file_block, DataBody
  <2> DEFINE b == m_buffer'
  <2>3. b = Marshal(header, DataBody(e), e.length)
    BY <2>2
  <2>e. Extended(b, header, DataBody(e), e.length)
    BY <1>6, <2>1, <2>3, MarshalIs
  <2> HIDE DEF b
  <2>4. /\ b \in Seq(Records) /\ InOrder(b)
        /\ Len(b) = 2 * i + 1 + 1
        /\ \A j \in 1 .. 2 * i + 1 : b[j] = header[j]
        /\ b[2 * i + 1 + 1].off = BufferSize(header)
        /\ b[2 * i + 1 + 1].len = e.length
        /\ b[2 * i + 1 + 1].body = DataBody(e)
    BY <1>6, <2>e DEF Extended
  <2>5. 2 * i + 1 + 1 = 2 * i + 2
    BY <1>3
  <2>6. QED
    BY <2>4, <2>5 DEF b
<1>8. /\ offsets \in Seq(Nat) /\ Len(offsets) = i + 1
      /\ \A k \in 1 .. i : offsets[k] = update.header_offset[k]
      /\ offsets[i + 1] = size
  BY <1>2, <1>3, <1>5, AppendProperties
<1> HIDE DEF offsets
<1>9. /\ update' \in UpdateType /\ update'.pc = "local"
      /\ update'.i = i + 1 /\ update'.header_offset = offsets
  <2> DEFINE i1 == i + 1
  <2>1. i1 \in Nat /\ update' = [update EXCEPT !.i = i1, !.header_offset = offsets]
    BY <1>1, <1>3
  <2> HIDE DEF i1
  <2>2. /\ update' \in UpdateType /\ update'.pc = update.pc
        /\ update'.i = i1 /\ update'.header_offset = offsets
    BY <1>2, <1>8, <2>1 DEF UpdateType
  <2>3. QED
    BY <1>1, <2>2 DEF i1
<1>10. ASSUME NEW j \in 1 .. 2 * i PROVE m_buffer'[j] = m_buffer[j]
  <2>1. j \in 1 .. 2 * i + 1
    BY <1>3
  <2>2. QED
    BY <1>6, <1>7, <2>1
<1>11. /\ m_buffer'[2 * i + 1].off = size
       /\ m_buffer'[2 * i + 1].body = LocalBody(e)
       /\ m_buffer'[2 * i + 2].off =
            m_buffer'[2 * i + 1].off + m_buffer'[2 * i + 1].len
  <2>1. m_buffer'[2 * i + 1] = header[2 * i + 1]
    BY <1>3, <1>7, SMTT(20)
  <2>2. QED
    BY <1>6, <1>7, <2>1
<1>12. LocalsLaid(m_buffer', m_entries, i + 1)
  <2>1. LocalsLaid(m_buffer', m_entries, i)
    BY <1>3, <1>10, LocalsStay
  <2>2. SUFFICES ASSUME NEW k \in 1 .. i + 1
                 PROVE  /\ m_buffer'[2 * k - 1].body = LocalBody(m_entries[k])
                        /\ m_buffer'[2 * k].body = DataBody(m_entries[k])
                        /\ m_buffer'[2 * k].off =
                             m_buffer'[2 * k - 1].off + m_buffer'[2 * k - 1].len
                        /\ m_buffer'[2 * k].len = m_entries[k].length
    BY DEF LocalsLaid
  <2>3. CASE k \in 1 .. i
    BY <2>1, <2>3 DEF LocalsLaid
  <2>4. CASE k = i + 1
    <3>1. 2 * k - 1 = 2 * i + 1 /\ 2 * k = 2 * i + 2
      <4>1. i \in Int
        BY <1>3
      <4>2. QED
        BY ONLY <2>4, <4>1
    <3>2. m_entries[k] = e
      BY <2>4 DEF e
    <3>3. QED
      BY <1>7, <1>11, <3>1, <3>2
  <2>5. QED
    BY <1>3, <2>3, <2>4
<1>13. \A k \in 1 .. i + 1 : offsets[k] = m_buffer'[2 * k - 1].off
  <2>1. SUFFICES ASSUME NEW k \in 1 .. i + 1
                 PROVE  offsets[k] = m_buffer'[2 * k - 1].off
    OBVIOUS
  <2>2. CASE k \in 1 .. i
    <3>1. 2 * k - 1 \in 1 .. 2 * i
      BY <1>3, <2>2
    <3>2. QED
      BY <1>3, <1>8, <1>10, <2>2, <3>1 DEF OffsetsKept
  <2>3. CASE k = i + 1
    <3>1. 2 * k - 1 = 2 * i + 1
      BY <1>3, <2>3
    <3>2. QED
      BY <1>8, <1>11, <2>3, <3>1
  <2>4. QED
    BY <1>3, <2>2, <2>3
<1>14. UpdateOK'
  <2>b. buffered' = Len(m_entries')
    BY <1>1, AllBuffered
  <2>1. /\ i + 1 <= Len(m_entries) /\ Len(m_buffer') = 2 * (i + 1)
        /\ update'.i = i + 1
    BY <1>1, <1>2, <1>3, <1>7, <1>9, LenProperties
  <2>2. LocalsLaid(m_buffer', m_entries', update'.i)
    BY <1>1, <1>9, <1>12
  <2>3. \A k \in 1 .. update'.i :
          update'.header_offset[k] = m_buffer'[2 * k - 1].off
    BY <1>9, <1>13
  <2>4. LocalOK'
    BY <1>1, <2>1, <2>2, <2>3 DEF LocalOK, OffsetsKept
  <2>5. QED
    BY <1>9, <2>4, <2>b DEF UpdateOK
<1>15. BufferOK'
  BY <1>7 DEF BufferOK
<1>16. Len(update'.header_offset) = update'.i
  BY <1>8, <1>9
<1>17. QED
  BY <1>1, <1>2, <1>9, <1>14, <1>15, <1>16, AllBuffered, UpdateKeeps

LEMMA CentralDirectoryPreserves ==
  ASSUME IInv, CentralDirectory
  PROVE  IInv'
<1> DEFINE size == BufferSize(m_buffer)
           n == Len(m_entries)
<1>1. /\ update.pc = "local" /\ update.i = n
      /\ update' = [update EXCEPT !.pc = "central", !.i = 0, !.offset_cd = size]
      /\ UNCHANGED <<files, entry, m_entries, m_buffer, m_buffer_ready, buffered,
                     out_vars, process>>
  BY DEF CentralDirectory
<1>2. /\ update \in UpdateType /\ m_buffer_ready \in BOOLEAN
      /\ m_buffer \in Seq(Records) /\ n \in Nat
      /\ Len(update.header_offset) = n
  BY <1>1, LenProperties DEF IInv, TypeOK, UpdateType, BufferOK
<1>3. size \in Nat
  BY <1>2, BufferSizeIs
<1>4. /\ Len(m_buffer) = 2 * n /\ LocalsLaid(m_buffer, m_entries, n)
      /\ OffsetsKept(n)
  BY <1>1 DEF IInv, UpdateOK, LocalOK
<1> HIDE DEF size
<1>5. /\ update' \in UpdateType /\ update'.pc = "central" /\ update'.i = 0
      /\ update'.header_offset = update.header_offset
      /\ update'.offset_cd = size
  BY <1>1, <1>2, <1>3 DEF UpdateType
<1>6. UpdateOK'
  <2>1. CentralsLaid(m_buffer', m_entries', Len(m_entries'), update'.i)
    BY <1>5 DEF CentralsLaid
  <2>2. LocalsLaid(m_buffer', m_entries', Len(m_entries'))
    BY <1>1, <1>4
  <2>3. \A k \in 1 .. Len(m_entries') :
          update'.header_offset[k] = m_buffer'[2 * k - 1].off
    BY <1>1, <1>4, <1>5 DEF OffsetsKept
  <2>4. /\ update'.i <= Len(m_entries')
        /\ Len(m_buffer') = 2 * Len(m_entries') + update'.i
        /\ update'.offset_cd = BufferSize(m_buffer')
    BY <1>1, <1>2, <1>4, <1>5 DEF size
  <2>5. CentralOK'
    BY <1>5, <2>1, <2>2, <2>3, <2>4 DEF CentralOK, OffsetsKept
  <2>6. buffered' = Len(m_entries')
    BY <1>1, AllBuffered
  <2>7. QED
    BY <1>5, <2>5, <2>6 DEF UpdateOK
<1>7. BufferOK'
  BY <1>1 DEF IInv, BufferOK, InOrder
<1>8. QED
  BY <1>1, <1>2, <1>5, <1>6, <1>7, AllBuffered, UpdateKeeps

LEMMA CentralHeaderPreserves ==
  ASSUME IInv, CentralHeader
  PROVE  IInv'
<1> DEFINE i == update.i
           n == Len(m_entries)
           e == m_entries[i + 1]
           offset == update.header_offset[i + 1]
           last == 2 * n + i
<1>1. /\ update.pc = "central" /\ i < n
      /\ m_buffer' = write_central_directory_file_header(m_buffer, e, offset)
      /\ update' = [update EXCEPT !.i = i + 1]
      /\ UNCHANGED <<files, entry, m_entries, m_buffer_ready, buffered, out_vars,
                     process>>
  BY DEF CentralHeader
<1>2. /\ update \in UpdateType /\ m_entries \in Seq(Entries)
      /\ m_buffer \in Seq(Records) /\ InOrder(m_buffer)
      /\ m_buffer_ready \in BOOLEAN /\ i \in Nat
      /\ update.header_offset \in Seq(Nat)
      /\ Len(update.header_offset) = n
  BY <1>1 DEF IInv, TypeOK, UpdateType, BufferOK
<1>3. /\ n \in Nat /\ i + 1 \in 1 .. n /\ last \in Nat
      /\ Len(m_buffer) = last
      /\ LocalsLaid(m_buffer, m_entries, n) /\ OffsetsKept(n)
      /\ CentralsLaid(m_buffer, m_entries, n, i)
      /\ update.offset_cd = IF i = 0 THEN BufferSize(m_buffer)
                                     ELSE m_buffer[2 * n + 1].off
  BY <1>1, <1>2, LenProperties DEF IInv, UpdateOK, CentralOK
<1>4. e \in Entries /\ offset \in Nat
      /\ offset = m_buffer[2 * (i + 1) - 1].off
  <2>1. e \in Entries
    BY <1>2, <1>3, ElementOfSeq
  <2>2. offset \in Nat
    BY <1>2, <1>3, ElementOfSeq
  <2>3. offset = m_buffer[2 * (i + 1) - 1].off
    BY <1>3 DEF OffsetsKept
  <2>4. QED
    BY <2>1, <2>2, <2>3
<1> HIDE DEF e, offset
<1>5. /\ m_buffer' \in Seq(Records) /\ InOrder(m_buffer')
      /\ Len(m_buffer') = last + 1
      /\ \A j \in 1 .. last : m_buffer'[j] = m_buffer[j]
      /\ m_buffer'[last + 1].off = BufferSize(m_buffer)
      /\ m_buffer'[last + 1].body = CentralBody(e, offset)
  <2> DEFINE b == m_buffer'
             len == 46 + NameLength[e.name]
  <2>1. CentralBody(e, offset) \in Bodies /\ len \in Nat
    BY <1>4, BodyTypes
  <2>2. b = Marshal(m_buffer, CentralBody(e, offset), len)
    BY <1>1 DEF write_central_directory_file_header, CentralBody
  <2>e. Extended(b, m_buffer, CentralBody(e, offset), len)
    BY <1>2, <2>1, <2>2, MarshalIs
  <2> HIDE DEF b, len, last
  <2>3. /\ b \in Seq(Records) /\ InOrder(b)
        /\ Len(b) = last + 1
        /\ \A j \in 1 .. last : b[j] = m_buffer[j]
        /\ b[last + 1].off = BufferSize(m_buffer)
        /\ b[last + 1].body = CentralBody(e, offset)
    BY <1>3, <2>e DEF Extended
  <2>4. QED
    BY <2>3 DEF b
<1>6. /\ update' \in UpdateType /\ update'.pc = "central" /\ update'.i = i + 1
      /\ update'.header_offset = update.header_offset
      /\ update'.offset_cd = update.offset_cd
  <2> DEFINE i1 == i + 1
  <2>1. i1 \in Nat /\ update' = [update EXCEPT !.i = i1]
    BY <1>1, <1>2
  <2> HIDE DEF i1
  <2>2. /\ update' \in UpdateType /\ update'.pc = update.pc /\ update'.i = i1
        /\ update'.header_offset = update.header_offset
        /\ update'.offset_cd = update.offset_cd
    BY <1>2, <2>1 DEF UpdateType
  <2>3. QED
    BY <1>1, <2>2 DEF i1
<1>7. LocalsLaid(m_buffer', m_entries, n)
  <2>1. \A j \in 1 .. 2 * n : m_buffer'[j] = m_buffer[j]
    BY <1>2, <1>3, <1>5
  <2>2. QED
    BY <1>3, <2>1, LocalsStay
<1>8. \A k \in 1 .. n : update'.header_offset[k] = m_buffer'[2 * k - 1].off
  <2>1. SUFFICES ASSUME NEW k \in 1 .. n
                 PROVE  update.header_offset[k] = m_buffer'[2 * k - 1].off
    BY <1>6
  <2>2. 2 * k - 1 \in 1 .. last
    BY <1>2, <1>3
  <2>3. QED
    BY <1>3, <1>5, <2>2 DEF OffsetsKept
<1>9. CentralsLaid(m_buffer', m_entries, n, i + 1)
  <2>1. CentralsLaid(m_buffer', m_entries, n, i)
    <3>1. i \in 0 .. n
      BY <1>2, <1>3
    <3>2. QED
      BY <1>3, <1>5, <3>1, CentralsStay
  <2>2. SUFFICES ASSUME NEW k \in 1 .. i + 1
                 PROVE  m_buffer'[2 * n + k].body =
                          CentralBody(m_entries[k], m_buffer'[2 * k - 1].off)
    BY DEF CentralsLaid
  <2>3. CASE k \in 1 .. i
    BY <2>1, <2>3 DEF CentralsLaid
  <2>4. CASE k = i + 1
    <3>0. m_entries[k] = e
      BY <2>4 DEF e
    <3>1. 2 * n + k = last + 1 /\ 2 * k - 1 \in 1 .. last
          /\ 2 * k - 1 = 2 * (i + 1) - 1
      <4>1. i \in Nat /\ n \in Nat /\ i + 1 <= n
        BY <1>2, <1>3
      <4>2. QED
        BY ONLY <2>4, <4>1
    <3>2. m_buffer'[2 * k - 1].off = offset
      BY <1>4, <1>5, <3>1
    <3>3. QED
      BY <1>5, <3>0, <3>1, <3>2
  <2>5. QED
    BY <1>2, <2>3, <2>4, SMTT(20)
<1>10. update.offset_cd = m_buffer'[2 * n + 1].off
  <2>1. CASE i = 0
    <3>1. last + 1 = 2 * n + 1
      BY <1>3, <2>1
    <3>2. QED
      BY <1>3, <1>5, <2>1, <3>1
  <2>2. CASE i # 0
    <3>1. 2 * n + 1 \in 1 .. last
      BY <1>2, <1>3, <2>2
    <3>2. QED
      BY <1>3, <1>5, <2>2, <3>1
  <2>3. QED
    BY <2>1, <2>2
<1>11. UpdateOK'
  <2>1. m_entries' = m_entries /\ update'.i = i + 1
    BY <1>1, <1>6
  <2>2. /\ update'.i <= Len(m_entries')
        /\ Len(m_buffer') = 2 * Len(m_entries') + update'.i
        /\ update'.i # 0
    BY <1>2, <1>3, <1>5, <2>1, SMTT(20)
  <2>3. update'.offset_cd = m_buffer'[2 * Len(m_entries') + 1].off
    BY <1>6, <1>10, <2>1
  <2>4. /\ LocalsLaid(m_buffer', m_entries', Len(m_entries'))
        /\ CentralsLaid(m_buffer', m_entries', Len(m_entries'), update'.i)
        /\ OffsetsKept(Len(m_entries))'
    BY <1>7, <1>8, <1>9, <2>1 DEF OffsetsKept
  <2>5. CentralOK'
    BY <2>2, <2>3, <2>4 DEF CentralOK
  <2>6. buffered' = Len(m_entries')
    BY <1>1, AllBuffered
  <2>7. QED
    BY <1>6, <2>5, <2>6 DEF UpdateOK
<1>12. BufferOK'
  BY <1>5 DEF BufferOK
<1>13. QED
  BY <1>1, <1>2, <1>6, <1>11, <1>12, AllBuffered, UpdateKeeps
\* When update_buffer returns, the buffer holds all the entries there are.
LEMMA EocdPreserves ==
  ASSUME IInv, write_eocd
  PROVE  IInv' /\ Complete(m_buffer', m_entries, Len(m_entries))
<1> DEFINE n == Len(m_entries)
           cd == update.offset_cd
           end == BufferSize(m_buffer)
           last == 3 * n
<1>1. /\ update.pc = "central" /\ update.i = n
      /\ m_buffer' = Marshal(m_buffer, EocdBody(n, cd, end), 22)
      /\ m_buffer_ready' = TRUE /\ update' = Idle
      /\ UNCHANGED <<files, entry, m_entries, buffered, out_vars, process>>
  BY DEF write_eocd, EocdBody
<1>2. /\ m_entries \in Seq(Entries) /\ n \in Nat
      /\ m_buffer \in Seq(Records) /\ InOrder(m_buffer)
  BY LenProperties DEF IInv, TypeOK, BufferOK
<1>3. /\ Len(m_buffer) = last /\ last \in Nat
      /\ LocalsLaid(m_buffer, m_entries, n)
      /\ CentralsLaid(m_buffer, m_entries, n, n)
      /\ cd = IF n = 0 THEN BufferSize(m_buffer) ELSE m_buffer[2 * n + 1].off
  BY <1>1, <1>2 DEF IInv, UpdateOK, CentralOK
<1>4. cd \in Nat /\ end \in Nat /\ cd <= end
  <2>1. end \in Nat
    BY <1>2, BufferSizeIs
  <2>2. CASE n = 0
    BY <1>3, <2>1, <2>2
  <2>3. CASE n # 0
    <3> DEFINE j == 2 * n + 1
    <3>1. j \in 1 .. last /\ last \in 1 .. last /\ last # 0
      BY <1>2, <2>3
    <3>2. /\ m_buffer[j].off \in Nat /\ m_buffer[j].len \in Nat
          /\ m_buffer[last].off \in Nat /\ m_buffer[last].len \in Nat
      BY <1>2, <1>3, <3>1, RecordFields
    <3>3. j = last \/ m_buffer[j].off + m_buffer[j].len <= m_buffer[last].off
      BY <1>2, <1>3, <3>1 DEF InOrder
    <3>4. end = m_buffer[last].off + m_buffer[last].len
      BY <1>2, <1>3, <3>1, BufferSizeIs
    <3>5. cd = m_buffer[j].off
      BY <1>3, <2>3
    <3> HIDE DEF j, end, cd, last
    <3>6. QED
      BY <3>2, <3>3, <3>4, <3>5
  <2>4. QED
    BY <2>2, <2>3
<1>5. Extended(m_buffer', m_buffer, EocdBody(n, cd, end), 22)
  BY <1>1, <1>2, <1>4, EocdType, MarshalIs
<1>6. /\ m_buffer' \in Seq(Records) /\ InOrder(m_buffer')
      /\ Len(m_buffer') = last + 1
      /\ \A j \in 1 .. last : m_buffer'[j] = m_buffer[j]
      /\ m_buffer'[last + 1].off = end
      /\ m_buffer'[last + 1].len = 22
      /\ m_buffer'[last + 1].body = EocdBody(n, cd, end)
  BY <1>3, <1>5 DEF Extended
<1>7. Complete(m_buffer', m_entries, n)
  <2>1. LocalsLaid(m_buffer', m_entries, n)
    <3>1. ASSUME NEW j \in 1 .. 2 * n PROVE m_buffer'[j] = m_buffer[j]
      <4>1. j \in 1 .. last
        BY <1>2
      <4>2. QED
        BY <1>6, <4>1
    <3>2. QED
      BY <1>2, <1>3, <3>1, LocalsStay
  <2>2. CentralsLaid(m_buffer', m_entries, n, n)
    <3>1. 2 * n + n = last /\ n \in 0 .. n
      BY <1>2
    <3>2. \A j \in 1 .. 2 * n + n : m_buffer'[j] = m_buffer[j]
      BY <1>6, <3>1
    <3>3. QED
      BY <1>2, <1>3, <3>1, <3>2, CentralsStay
  <2>3. m_buffer'[2 * n + 1].off = cd
    <3>1. CASE n = 0
      <4>1. last + 1 = 2 * n + 1
        BY <3>1
      <4>2. QED
        BY <1>3, <1>6, <3>1, <4>1
    <3>2. CASE n # 0
      <4>1. 2 * n + 1 \in 1 .. last
        BY <1>2, <3>2
      <4>2. QED
        BY <1>3, <1>6, <3>2, <4>1
    <3>3. QED
      BY <3>1, <3>2
  <2>4. QED
    BY <1>6, <2>1, <2>2, <2>3 DEF Complete
<1>8. /\ update'.pc = "idle" /\ update' \in UpdateType
  <2> DEFINE e == <<>>
  <2>1. Idle = [pc |-> "idle", i |-> 0, header_offset |-> e, offset_cd |-> 0]
    BY DEF Idle
  <2>2. e \in Seq(Nat)
    OBVIOUS
  <2> HIDE DEF e
  <2>3. QED
    BY <1>1, <2>1, <2>2 DEF UpdateType
<1>9. UpdateOK'
  <2>1. buffered' = n /\ m_entries' = m_entries
    BY <1>1, AllBuffered
  <2>2. Complete(m_buffer', m_entries', buffered')
    BY <1>7, <2>1
  <2>3. QED
    BY <1>8, <2>2 DEF UpdateOK
<1>10. BufferOK'
  BY <1>6 DEF BufferOK
<1>11. QED
  BY <1>1, <1>7, <1>8, <1>9, <1>10, AllBuffered, UpdateKeeps

LEMMA UpdateStepPreserves ==
  ASSUME IInv, UpdateStep
  PROVE  IInv'
BY LocalFilePreserves, CentralDirectoryPreserves, CentralHeaderPreserves,
   EocdPreserves DEF UpdateStep

LEMMA StutterPreserves ==
  ASSUME IInv, UNCHANGED vars
  PROVE  IInv'
<1>1. TypeOK' /\ EntryOK'
  BY DEF IInv, TypeOK, EntryOK, vars, zip_vars, out_vars
<1>2. ZipOK'
  BY ZipUnchanged DEF IInv, ZipOK, vars
<1>3. QED
  BY <1>1, <1>2 DEF IInv, ZipOK

LEMMA NextPreserves == IInv /\ [Next]_vars => IInv'
<1> SUFFICES ASSUME IInv, [Next]_vars PROVE IInv'
  OBVIOUS
<1>1. ASSUME NEW name \in Names, ChangeFile(name) PROVE IInv'
  BY <1>1, ChangeFilePreserves
<1>2. ASSUME NEW name \in Names, NEW method \in Methods,
             read_bytes(name, method)
      PROVE  IInv'
  BY <1>2, ReadPreserves, ZipperAssumption
<1>3. CASE get_last_modify_time \/ construct \/ compress
  BY <1>3, TimePreserves, ConstructPreserves, CompressPreserves
<1>4. CASE panic \/ write_panic
  BY <1>4, PanicPreserves
<1>5. CASE add_entry \/ update_buffer \/ UpdateStep
  BY <1>5, AddPreserves, UpdateBufferPreserves, UpdateStepPreserves
<1>6. CASE write
  BY <1>6, WritePreserves
<1>7. CASE UNCHANGED vars
  BY <1>7, StutterPreserves
<1>8. QED
  BY <1>1, <1>2, <1>3, <1>4, <1>5, <1>6, <1>7 DEF Next

-------------------------------------------------------------------------------
(* The theorems.                                                           *)

\* The locals of update_buffer and the records in the buffer always fit
\* together as the parts of IInv say, whatever the client calls.
THEOREM Invariant == Spec => []IInv
  BY InitEstablishes, NextPreserves, PTL DEF Spec

\* The types of the library's state; every local header has an offset on
\* record before the central directory asks for it.
THEOREM TypeCorrect == Spec => []TypeOK
  BY Invariant, PTL DEF IInv

\* FileEntry::compress leaves no registered entry longer than its file.
THEOREM EntriesDoNotGrow == Spec => []NoEntryGrows
  BY Invariant, PTL DEF IInv

\* The constructor asks for the time after it has read the content: the time
\* of an entry is not older than its content, however the file changes.
THEOREM TimesAreNotOlder == Spec => []TimeNotOlder
  BY Invariant, PTL DEF IInv

LEMMA ReadyIsArchive ==
  ASSUME IInv
  PROVE  BufferIsArchive
<1> DEFINE es == SubSeq(m_entries, 1, buffered)
<1> SUFFICES ASSUME m_buffer_ready, update.pc = "idle", WithinFormat(es)
             PROVE  IsArchiveOf(m_buffer, es)
  BY DEF BufferIsArchive
<1>1. Complete(m_buffer, m_entries, buffered)
  BY DEF IInv, UpdateOK
<1>2. /\ m_entries \in Seq(Entries) /\ Len(m_entries) \in Nat
      /\ buffered \in 0 .. Len(m_entries) /\ buffered \in Nat
  BY LenProperties DEF IInv, TypeOK
<1>3. /\ es \in Seq(Entries) /\ Len(es) = buffered
      /\ \A k \in 1 .. buffered : es[k] = m_entries[k]
  BY <1>2
<1> HIDE DEF es
<1>4. Complete(m_buffer, es, Len(es))
  BY <1>1, <1>2, <1>3, CompleteOfPrefix
<1>5. /\ Len(es) < CountMod /\ BufferSize(m_buffer) <= SizeMod
      /\ \A k \in 1 .. Len(es) : es[k].m_raw.size < SizeMod
  BY <1>3, LenProperties DEF WithinFormat
<1>6. QED
  BY <1>3, <1>4, <1>5, CompleteIsArchive DEF IInv, BufferOK

\* update_buffer makes an archive of all entries that are registered when it
\* is called, and it stays one of these: within the limits of the format it
\* can be read back from its end, every count, offset, size and name being
\* what it is, and said alike where it is said twice.
THEOREM BufferIsAnArchive == Spec => []BufferIsArchive
<1>1. IInv => BufferIsArchive
  BY ReadyIsArchive
<1>2. QED
  BY <1>1, Invariant, PTL

-------------------------------------------------------------------------------
(***************************************************************************)
(* The command line program, for every list of sources and every method:   *)
(* what it says "success" of is the archive of its sources.                *)
(***************************************************************************)

AppPCs == {"options", "sources", "entry", "compress", "add", "update", "write",
           "success", "fail"}

\* update_buffer runs where main waits for it.
WhereMainIs ==
  /\ pc = "update" => update.pc \in {"local", "central"}
  /\ pc # "update" => update.pc = "idle"
  /\ pc = "options" => next = 0 /\ entry.pc = "none"

\* The entries are the sources main is done with, in their order.
Registered ==
  LET n == IF pc \in {"entry", "compress", "add"} THEN next - 1 ELSE next IN
  /\ next \in 0 .. Len(Sources)
  /\ n >= 0
  /\ Len(m_entries) = n
  /\ \A k \in 1 .. n : m_entries[k].name = Sources[k]
  /\ pc \in {"entry", "compress", "add"} => entry.name = Sources[next]
  /\ pc \in {"update", "write", "success", "fail"} => next = Len(Sources)

\* "store" asks for no deflate.
StoreKept ==
  /\ compress_method \in {"none", "deflate"}
  /\ arg_compress_method = "store" /\ pc # "options" =>
       /\ compress_method = "none"
       /\ entry.pc # "none" => entry.m_method = "none"
       /\ \A k \in 1 .. Len(m_entries) : m_entries[k].m_method = "none"

\* Behind update_buffer the buffer holds all of the entries.
BufferFull ==
  pc \in {"write", "success", "fail"} =>
    Complete(m_buffer, m_entries, Len(m_entries))

\* Strengthening of the library's invariant by what main does with it.
AppInv ==
  /\ IInv
  /\ pc \in AppPCs
  /\ WhereMainIs
  /\ Registered
  /\ StoreKept
  /\ BufferFull
-------------------------------------------------------------------------------
(* The steps of main.                                                      *)

LEMMA AppInitEstablishes == AppInit => AppInv
<1> SUFFICES ASSUME AppInit PROVE AppInv
  OBVIOUS
<1>1. IInv
  BY InitEstablishes DEF AppInit
<1>2. /\ pc = "options" /\ next = 0 /\ compress_method = "deflate"
      /\ update.pc = "idle" /\ entry.pc = "none" /\ Len(m_entries) = 0
  <2>1. update = Idle /\ entry = NoEntry /\ m_entries = <<>>
    BY DEF AppInit, Init
  <2>2. Idle.pc = "idle" /\ NoEntry.pc = "none"
    BY DEF Idle, NoEntry
  <2>3. QED
    BY <2>1, <2>2 DEF AppInit
<1>3. 0 \in 0 .. Len(Sources)
  BY SourcesAssumption, LenProperties
<1>4. Registered
  BY <1>2, <1>3 DEF Registered
<1>5. QED
  BY <1>1, <1>2, <1>4 DEF AppInv, AppPCs, WhereMainIs, StoreKept, BufferFull

LEMMA AppTypes ==
  ASSUME AppInv
  PROVE  /\ next \in Nat /\ next \in 0 .. Len(Sources) /\ Len(Sources) \in Nat
         /\ m_entries \in Seq(Entries) /\ Len(m_entries) \in Nat
         /\ \A k \in 1 .. Len(Sources) : Sources[k] \in Names
<1>1. next \in 0 .. Len(Sources)
  BY DEF AppInv, Registered
<1>2. Sources \in Seq(Names) /\ Len(Sources) \in Nat
  BY SourcesAssumption, LenProperties
<1>3. \A k \in 1 .. Len(Sources) : Sources[k] \in Names
  BY <1>2, ElementOfSeq
<1>4. m_entries \in Seq(Entries) /\ Len(m_entries) \in Nat
  BY LenProperties DEF AppInv, IInv, TypeOK
<1>5. QED
  BY <1>1, <1>2, <1>3, <1>4

\* Neither main nor its zipper moves.
LEMMA MainStands ==
  ASSUME AppInv, IInv', UNCHANGED <<entry, zip_vars, pc, next, args>>
  PROVE  AppInv'
BY DEF AppInv, zip_vars, args, WhereMainIs, Registered, StoreKept, BufferFull

LEMMA ChooseMethodPreserves ==
  ASSUME AppInv, ChooseMethod
  PROVE  AppInv'
<1>1. /\ pc = "options" /\ pc' = "sources" /\ UNCHANGED <<vars, next>>
      /\ arg_compress_method' = arg_compress_method
      /\ compress_method' \in {"none", "deflate"}
      /\ arg_compress_method = "store" => compress_method' = "none"
  BY DEF ChooseMethod
<1>2. IInv'
  BY <1>1, StutterPreserves DEF AppInv
<1>3. /\ UNCHANGED <<entry, m_entries, m_buffer, update>>
      /\ next = 0 /\ entry.pc = "none" /\ Len(m_entries) = 0
  BY <1>1 DEF vars, zip_vars, AppInv, WhereMainIs, Registered
<1>4. WhereMainIs' /\ BufferFull' /\ pc' \in AppPCs
  BY <1>1, <1>3 DEF AppInv, WhereMainIs, BufferFull, AppPCs
<1>5. Registered'
  BY <1>1, <1>3 DEF AppInv, Registered
<1>6. StoreKept'
  BY <1>1, <1>3 DEF StoreKept
<1>7. QED
  BY <1>2, <1>4, <1>5, <1>6 DEF AppInv

LEMMA OpenPreserves ==
  ASSUME AppInv, Open
  PROVE  AppInv'
<1> DEFINE name == Sources[next + 1]
<1>1. /\ pc = "sources" /\ pc' = "entry" /\ next < Len(Sources)
      /\ next' = next + 1 /\ UNCHANGED <<zip_vars, args>>
      /\ read_bytes(name, compress_method)
      /\ entry'.name = name /\ entry'.m_method = compress_method
      /\ entry'.pc = "read"
  BY DEF Open, read_bytes
<1>2. name \in Names /\ compress_method \in {"none", "deflate"}
  <2>1. next + 1 \in 1 .. Len(Sources)
    BY <1>1, AppTypes
  <2>2. QED
    BY <2>1, AppTypes DEF AppInv, StoreKept
<1>3. IInv'
  BY <1>1, <1>2, ReadPreserves DEF AppInv
<1>4. UNCHANGED <<m_entries, m_buffer, update, arg_compress_method,
                  compress_method>>
  BY <1>1 DEF zip_vars, args
<1>5. WhereMainIs' /\ BufferFull' /\ pc' \in AppPCs
  BY <1>1, <1>4 DEF AppInv, WhereMainIs, BufferFull, AppPCs
<1>6. Registered'
  <2>1. /\ next' \in 0 .. Len(Sources) /\ next' - 1 = next /\ next' - 1 >= 0
    BY <1>1, AppTypes
  <2>2. Len(m_entries) = next /\ \A k \in 1 .. next : m_entries[k].name = Sources[k]
    BY <1>1 DEF AppInv, Registered
  <2>3. entry'.name = Sources[next']
    BY <1>1
  <2>4. QED
    BY <1>1, <1>4, <2>1, <2>2, <2>3 DEF Registered
<1>7. StoreKept'
  BY <1>1, <1>4 DEF AppInv, StoreKept
<1>8. QED
  BY <1>3, <1>5, <1>6, <1>7 DEF AppInv

\* The entry goes on being made: its name stays, and "store" stays.
LEMMA EntryGoesOn ==
  ASSUME AppInv, IInv',
         pc \in {"entry", "compress"}, pc' \in {"entry", "compress", "add"},
         UNCHANGED <<zip_vars, next, args>>,
         entry.pc # "none",
         entry'.name = entry.name,
         entry.m_method = "none" => entry'.m_method = "none"
  PROVE  AppInv'
<1>1. UNCHANGED <<m_entries, m_buffer, update, arg_compress_method,
                  compress_method>>
  BY DEF zip_vars, args
<1>2. WhereMainIs' /\ BufferFull' /\ pc' \in AppPCs
  BY <1>1 DEF AppInv, WhereMainIs, BufferFull, AppPCs
<1>3. Registered'
  BY <1>1 DEF AppInv, Registered
<1>4. StoreKept'
  BY <1>1 DEF AppInv, StoreKept
<1>5. QED
  BY <1>2, <1>3, <1>4 DEF AppInv

LEMMA ConstructStepPreserves ==
  ASSUME AppInv, Construct
  PROVE  AppInv'
<1>1. pc = "entry" /\ UNCHANGED <<next, args>>
  BY DEF Construct
<1>2. CASE get_last_modify_time /\ UNCHANGED pc
  <2>1. IInv'
    BY <1>2, TimePreserves DEF AppInv
  <2>2. entry \in EntryType /\ entry.pc = "read"
    BY <1>2, EntryIsTyped DEF get_last_modify_time, AppInv, IInv
  <2> DEFINE time == files[entry.name].version
  <2>3. entry' = [entry EXCEPT !.pc = "stat", !.time = time]
        /\ UNCHANGED zip_vars
    BY <1>2 DEF get_last_modify_time
  <2> HIDE DEF time
  <2>4. entry'.name = entry.name /\ entry'.m_method = entry.m_method
    BY <2>2, <2>3 DEF EntryType
  <2>5. QED
    BY <1>1, <1>2, <2>1, <2>2, <2>3, <2>4, EntryGoesOn
<1>3. CASE construct /\ pc' = "compress"
  <2>1. IInv'
    BY <1>3, ConstructPreserves DEF AppInv
  <2>2. entry \in EntryType /\ entry.pc = "stat" /\ UNCHANGED zip_vars
    BY <1>3, EntryIsTyped DEF construct, AppInv, IInv
  <2>3. \/ \E n : entry' = [entry EXCEPT !.pc = "made", !.length = n]
        \/ entry' = entry
    BY <1>3 DEF construct
  <2>4. entry'.name = entry.name /\ entry'.m_method = entry.m_method
    BY <2>2, <2>3 DEF EntryType
  <2>5. QED
    BY <1>1, <1>3, <2>1, <2>2, <2>4, EntryGoesOn
<1>4. QED
  BY <1>2, <1>3 DEF Construct

LEMMA CompressStepPreserves ==
  ASSUME AppInv, Compress
  PROVE  AppInv'
<1>1. /\ pc = "compress" /\ pc' = "add" /\ UNCHANGED <<next, args>>
      /\ compress /\ entry.pc = "made" /\ entry' = Compressed(entry)
      /\ UNCHANGED zip_vars
  BY DEF Compress, compress
<1>2. IInv'
  BY <1>1, CompressPreserves DEF AppInv
<1>3. /\ entry \in Entries
      /\ entry.m_method = "none" => entry.length = entry.m_raw.size
  BY <1>1, MadeEntry DEF AppInv
<1>4. /\ entry'.name = entry.name
      /\ entry.m_method = "none" => entry'.m_method = "none"
  BY <1>1, <1>3, CompressedIs
<1>5. QED
  BY <1>1, <1>2, <1>4, EntryGoesOn

LEMMA RegisterPreserves ==
  ASSUME AppInv, Register
  PROVE  AppInv'
<1> DEFINE e == Compressed(entry)
           n == Len(m_entries)
<1>1. /\ pc = "add" /\ pc' = "sources" /\ UNCHANGED <<next, args>>
      /\ add_entry /\ entry.pc = "made" /\ entry' = NoEntry
      /\ m_entries' = Append(m_entries, e)
      /\ UNCHANGED <<m_buffer, update>>
  BY DEF Register, add_entry
<1>2. IInv'
  BY <1>1, AddPreserves DEF AppInv
<1>3. /\ entry \in Entries
      /\ entry.m_method = "none" => entry.length = entry.m_raw.size
  BY <1>1, MadeEntry DEF AppInv
<1>4. /\ e \in Entries /\ e.name = entry.name
      /\ entry.m_method = "none" => e.m_method = "none"
  BY <1>3, CompressedIs
<1>5. m_entries \in Seq(Entries) /\ n \in Nat
  BY AppTypes
<1> HIDE DEF e
<1>6. /\ Len(m_entries') = n + 1 /\ m_entries'[n + 1] = e
      /\ \A k \in 1 .. n : m_entries'[k] = m_entries[k]
  BY <1>1, <1>4, <1>5, AppendProperties
<1>7. entry'.pc = "none"
  BY <1>1 DEF NoEntry
<1>8. WhereMainIs' /\ BufferFull' /\ pc' \in AppPCs
  BY <1>1 DEF AppInv, WhereMainIs, BufferFull, AppPCs
<1>9. Registered'
  <2>1. /\ n = next - 1 /\ entry.name = Sources[next]
        /\ \A k \in 1 .. n : m_entries[k].name = Sources[k]
        /\ next \in 0 .. Len(Sources)
    BY <1>1 DEF AppInv, Registered
  <2>2. n + 1 = next /\ next >= 0
    BY <1>5, <2>1, AppTypes
  <2>3. ASSUME NEW k \in 1 .. next PROVE m_entries'[k].name = Sources[k]
    <3>1. CASE k \in 1 .. n
      BY <1>6, <2>1, <3>1
    <3>2. CASE k = next
      BY <1>4, <1>6, <2>1, <2>2, <3>2
    <3>3. QED
      BY <1>5, <2>2, <3>1, <3>2
  <2>4. QED
    BY <1>1, <1>6, <2>1, <2>2, <2>3 DEF Registered
<1>10. StoreKept'
  <2>1. /\ compress_method' \in {"none", "deflate"}
        /\ compress_method' = compress_method
        /\ arg_compress_method' = arg_compress_method
    BY <1>1 DEF args, AppInv, StoreKept
  <2>2. ASSUME arg_compress_method = "store",
               NEW k \in 1 .. Len(m_entries')
        PROVE  m_entries'[k].m_method = "none" /\ compress_method = "none"
    <3>1. /\ compress_method = "none" /\ entry.m_method = "none"
          /\ \A j \in 1 .. n : m_entries[j].m_method = "none"
      BY <1>1, <2>2 DEF AppInv, StoreKept
    <3>2. CASE k \in 1 .. n
      BY <1>6, <3>1, <3>2
    <3>3. CASE k = n + 1
      BY <1>4, <1>6, <3>1, <3>3
    <3>4. QED
      BY <1>5, <1>6, <3>1, <3>2, <3>3
  <2>3. arg_compress_method = "store" => compress_method = "none"
    BY <1>1 DEF AppInv, StoreKept
  <2>4. QED
    BY <1>7, <2>1, <2>2, <2>3 DEF StoreKept
<1>11. QED
  BY <1>2, <1>8, <1>9, <1>10 DEF AppInv

\* The zipper works on its buffer: sources and entries stay.
LEMMA SourcesStay ==
  ASSUME AppInv, IInv',
         UNCHANGED <<entry, m_entries, next, args>>,
         pc \in {"sources", "update", "write"},
         pc' \in {"update", "write", "success", "fail"},
         next = Len(Sources), WhereMainIs', BufferFull'
  PROVE  AppInv'
<1>1. Registered'
  BY DEF AppInv, Registered
<1>2. StoreKept'
  BY DEF AppInv, StoreKept, args
<1>3. QED
  BY <1>1, <1>2 DEF AppInv, AppPCs

LEMMA UpdatePreserves ==
  ASSUME AppInv, Update
  PROVE  AppInv'
<1>1. /\ pc = "sources" /\ pc' = "update" /\ UNCHANGED <<next, args>>
      /\ next = Len(Sources) /\ update_buffer
      /\ UNCHANGED <<entry, m_entries>>
      /\ update' = [Idle EXCEPT !.pc = "local"]
  BY DEF Update, update_buffer
<1>2. IInv'
  BY <1>1, UpdateBufferPreserves DEF AppInv
<1>3. update'.pc = "local"
  BY <1>1 DEF Idle
<1>4. WhereMainIs' /\ BufferFull'
  BY <1>1, <1>3 DEF WhereMainIs, BufferFull
<1>5. QED
  BY <1>1, <1>2, <1>4, SourcesStay

LEMMA UpdateGoesOnPreserves ==
  ASSUME AppInv, UpdateGoesOn
  PROVE  AppInv'
<1>1. /\ pc = "update" /\ UpdateStep /\ UNCHANGED <<next, args>>
      /\ pc' = IF update'.pc = "idle" THEN "write" ELSE "update"
      /\ next = Len(Sources)
  BY DEF UpdateGoesOn, AppInv, Registered
<1>2. IInv'
  BY <1>1, UpdateStepPreserves DEF AppInv
<1>3. UNCHANGED <<entry, m_entries>>
  BY <1>1 DEF UpdateStep, LocalFile, CentralDirectory, CentralHeader, write_eocd
<1>4. update'.pc = "idle" =>
        Complete(m_buffer', m_entries', Len(m_entries'))
  <2>1. update \in UpdateType
    BY DEF AppInv, IInv, TypeOK, UpdateType
  <2>2. CASE LocalFile
    <3>1. update'.pc = update.pc /\ update.pc = "local"
      BY <2>1, <2>2 DEF LocalFile, UpdateType
    <3>2. QED
      BY <3>1
  <2>3. CASE CentralDirectory
    <3>1. update'.pc = "central"
      BY <2>1, <2>3 DEF CentralDirectory, UpdateType
    <3>2. QED
      BY <3>1
  <2>4. CASE CentralHeader
    <3>1. update'.pc = update.pc /\ update.pc = "central"
      BY <2>1, <2>4 DEF CentralHeader, UpdateType
    <3>2. QED
      BY <3>1
  <2>5. CASE write_eocd
    BY <1>3, <2>5, EocdPreserves DEF AppInv
  <2>6. QED
    BY <1>1, <2>2, <2>3, <2>4, <2>5 DEF UpdateStep
<1>5. update'.pc \in {"idle", "local", "central"}
  <2>1. update' \in UpdateType
    BY <1>2 DEF IInv, TypeOK, UpdateType
  <2>2. QED
    BY <2>1 DEF UpdateType
<1>6. WhereMainIs' /\ BufferFull'
  BY <1>1, <1>4, <1>5 DEF WhereMainIs, BufferFull
<1>7. QED
  BY <1>1, <1>2, <1>3, <1>6, SourcesStay

LEMMA WriteStepPreserves ==
  ASSUME AppInv, Write
  PROVE  AppInv'
<1>1. /\ pc = "write" /\ write /\ UNCHANGED <<next, args>>
      /\ pc' \in {"success", "fail"} /\ UNCHANGED <<entry, zip_vars>>
      /\ next = Len(Sources)
  BY DEF Write, write, AppInv, Registered
<1>2. IInv'
  BY <1>1, WritePreserves DEF AppInv
<1>3. UNCHANGED <<m_entries, m_buffer, update>>
  BY <1>1 DEF zip_vars
<1>4. WhereMainIs' /\ BufferFull'
  BY <1>1, <1>3 DEF AppInv, WhereMainIs, BufferFull
<1>5. QED
  BY <1>1, <1>2, <1>3, <1>4, SourcesStay

LEMMA OthersPreserve ==
  ASSUME AppInv, UnknownMethod \/ Panic \/ Others \/ UNCHANGED app_vars
  PROVE  AppInv'
<1>1. CASE UnknownMethod
  <2>1. process' = "exited"
        /\ UNCHANGED <<files, entry, zip_vars, out_vars, pc, next, args>>
    BY <1>1 DEF UnknownMethod
  <2>2. TypeOK' /\ EntryOK' /\ ZipOK'
    <3>1. ZipOK'
      BY <2>1, ZipUnchanged DEF AppInv, IInv, ZipOK
    <3>2. QED
      BY <2>1, <3>1 DEF AppInv, IInv, TypeOK, EntryOK, zip_vars, out_vars
  <2>3. IInv'
    BY <2>2 DEF IInv, ZipOK
  <2>4. QED
    BY <2>1, <2>3, MainStands
<1>2. CASE Panic
  <2>1. (panic \/ write_panic) /\ UNCHANGED <<pc, next, args>>
    BY <1>2 DEF Panic
  <2>2. UNCHANGED <<entry, zip_vars>>
    BY <2>1 DEF panic, write_panic
  <2>3. QED
    BY <2>1, <2>2, PanicPreserves, MainStands DEF AppInv
<1>3. CASE Others
  <2>1. PICK name \in Names : ChangeFile(name)
    BY <1>3 DEF Others
  <2>2. UNCHANGED <<entry, zip_vars, pc, next, args>>
    BY <1>3, <2>1 DEF Others, ChangeFile
  <2>3. QED
    BY <2>1, <2>2, ChangeFilePreserves, MainStands DEF AppInv
<1>4. CASE UNCHANGED app_vars
  <2>1. UNCHANGED vars /\ UNCHANGED <<entry, zip_vars, pc, next, args>>
    BY <1>4 DEF app_vars, vars
  <2>2. QED
    BY <2>1, StutterPreserves, MainStands DEF AppInv
<1>5. QED
  BY <1>1, <1>2, <1>3, <1>4

LEMMA AppNextPreserves == AppInv /\ [AppNext]_app_vars => AppInv'
<1> SUFFICES ASSUME AppInv, [AppNext]_app_vars PROVE AppInv'
  OBVIOUS
<1>1. CASE ChooseMethod \/ Open \/ Construct \/ Compress \/ Register
  BY <1>1, ChooseMethodPreserves, OpenPreserves, ConstructStepPreserves,
     CompressStepPreserves, RegisterPreserves
<1>2. CASE Update \/ UpdateGoesOn \/ Write
  BY <1>2, UpdatePreserves, UpdateGoesOnPreserves, WriteStepPreserves
<1>3. CASE UnknownMethod \/ Panic \/ Others \/ UNCHANGED app_vars
  BY <1>3, OthersPreserve
<1>4. QED
  BY <1>1, <1>2, <1>3 DEF AppNext, Main

-------------------------------------------------------------------------------
(* The theorems.                                                           *)

\* Main calls the library only in ways that keep the library's invariant,
\* and its own locals count the entries as AppInv says.
THEOREM AppInvariant == AppSpec => []AppInv
  BY AppInitEstablishes, AppNextPreserves, PTL DEF AppSpec

LEMMA SuccessIsArchive ==
  ASSUME AppInv
  PROVE  SuccessHoldsSources
<1> SUFFICES ASSUME pc = "success"
             PROVE  /\ WithinFormat(m_entries)
                         => IsArchiveOf(m_buffer, m_entries)
                    /\ [k \in DOMAIN m_entries |-> m_entries[k].name] = Sources
                    /\ arg_compress_method = "store" =>
                         \A k \in DOMAIN m_entries :
                           m_entries[k].m_method = "none"
  BY DEF SuccessHoldsSources
<1>1. /\ Len(m_entries) = Len(Sources) /\ Len(Sources) \in Nat
      /\ \A k \in 1 .. Len(Sources) : m_entries[k].name = Sources[k]
      /\ m_entries \in Seq(Entries)
  BY AppTypes DEF AppInv, Registered
<1>2. DOMAIN m_entries = 1 .. Len(Sources) /\ DOMAIN Sources = 1 .. Len(Sources)
  BY <1>1, SourcesAssumption, LenProperties
<1>3. ASSUME WithinFormat(m_entries)
      PROVE  IsArchiveOf(m_buffer, m_entries)
  <2>1. /\ Len(m_entries) < CountMod /\ BufferSize(m_buffer) <= SizeMod
        /\ \A k \in 1 .. Len(m_entries) : m_entries[k].m_raw.size < SizeMod
    BY <1>1, <1>2, <1>3 DEF WithinFormat
  <2>2. QED
    BY <1>1, <2>1, CompleteIsArchive DEF AppInv, IInv, BufferOK, BufferFull
<1>4. [k \in DOMAIN m_entries |-> m_entries[k].name] = Sources
  <2>1. Sources = [k \in 1 .. Len(Sources) |-> Sources[k]]
    BY <1>2, SourcesAssumption
  <2>2. QED
    BY <1>1, <1>2, <2>1
<1>5. arg_compress_method = "store" =>
        \A k \in DOMAIN m_entries : m_entries[k].m_method = "none"
  BY <1>1, <1>2 DEF AppInv, StoreKept
<1>6. QED
  BY <1>3, <1>4, <1>5

\* "success" is only ever said of all sources of the command line, in their
\* order, none of them deflated when "store" was asked for, and of an archive
\* that can be read back, within the limits of the format.
THEOREM SuccessIsOfSources == AppSpec => []SuccessHoldsSources
<1>1. AppInv => SuccessHoldsSources
  BY SuccessIsArchive
<1>2. QED
  BY <1>1, AppInvariant, PTL
===============================================================================
