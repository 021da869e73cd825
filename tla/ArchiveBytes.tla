----------------------------- MODULE ArchiveBytes -----------------------------
(***************************************************************************)
(* An archive, byte by byte: the checksum and the time of an entry, the    *)
(* three kinds of headers as they are marshalled (util/byte_util.hpp,      *)
(* wrapper/file_entry.cpp, wrapper/zipper.cpp), and what is read from them *)
(* again.  Zipper is the container with its clients; here its entries are  *)
(* registered one after the other and exported once.                       *)
(***************************************************************************)
EXTENDS Crc32

CONSTANT
  Archives  \* sequences of files: m_raw, tm, m_filename, m_method, and the
            \* compressor's result

ASSUME ArchivesAssumption ==
  \A sources \in Archives : \A k \in DOMAIN sources :
    LET f == sources[k] IN
    /\ Len(f.m_filename) < 65536
    /\ f.tm.year \in 1980 .. 2107
    /\ f.m_method = "none" => f.result = f.m_raw
    /\ Len(f.result) <= Len(f.m_raw)

VARIABLES
  sources,    \* the files
  entry,      \* the entry that is made: m_crc32 and how far extend() is
  m_entries,  \* those that are registered
  m_buffer,   \* the bytes of the archive
  update      \* update_buffer: program counter, i, offsets

vars == <<sources, entry, m_entries, m_buffer, update>>

Reader == INSTANCE Unzip

NoEntry == [pc |-> "none", n |-> 0, crc |-> <<0, 0>>]

Init ==
  /\ sources \in Archives
  /\ entry = NoEntry
  /\ m_entries = <<>>
  /\ m_buffer = <<>>
  /\ update = [pc |-> "idle", i |-> 0, header_offset |-> <<>>, offset_cd |-> 0]

-------------------------------------------------------------------------------
(* The constructor of FileEntry.                                           *)

\* Mutant of Timestamp: tm_mon counts from 0.
Timestamp_mon(tm) ==
  [time |-> (tm.hour * 2048 | tm.min * 32 | (tm.sec + 1) \div 2) % 65536,
   date |-> ((tm.year - 1980) * 512 | tm.mon * 32 | tm.mday) % 65536]

\* get_last_modify_time(): tm is what localtime_s() makes of the time.
Timestamp(tm) ==
  [time |-> (tm.hour * 2048 | tm.min * 32 | (tm.sec + 1) \div 2) % 65536,
   date |-> ((tm.year - 1980) * 512 | (tm.mon + 1) * 32 | tm.mday) % 65536]

CompressionMethod(method) == IF method = "none" THEN 0 ELSE 8

source == sources[Len(m_entries) + 1]

\* crc32::calculate() begins.
calculate ==
  /\ entry.pc = "none"
  /\ update.pc = "idle"
  /\ Len(m_entries) < Len(sources)
  /\ entry' = [pc |-> "crc", n |-> 0, crc |-> xor(<<0, 0>>, CRC32InitXor)]
  /\ UNCHANGED <<sources, m_entries, m_buffer, update>>

\* Its loop: the next byte.
extend ==
  /\ entry.pc = "crc"
  /\ entry.n < Len(source.m_raw)
  /\ entry' = [entry EXCEPT !.n = @ + 1,
                            !.crc = extend_byte(@, source.m_raw[entry.n + 1])]
  /\ UNCHANGED <<sources, m_entries, m_buffer, update>>

\* It returns, and the entry is compressed and registered.
add_entry ==
  /\ entry.pc = "crc"
  /\ entry.n = Len(source.m_raw)
  /\ m_entries' =
       Append(m_entries,
              [m_crc32 |-> xor(entry.crc, CRC32InitXor),
               m_last_modify_time |-> Timestamp(source.tm),
               m_method |-> CompressionMethod(source.m_method),
               m_filename |-> source.m_filename,
               m_raw_size |-> Len(source.m_raw),
               result |-> source.result])
  /\ entry' = NoEntry
  /\ UNCHANGED <<sources, m_buffer, update>>

-------------------------------------------------------------------------------
(* Marshalling.                                                            *)

\* Mutant of marshal_16: the higher byte comes first.
marshal_16_swapped(x) == <<x \div 256 % 256, x % 256>>

marshal_16(x) == <<x % 256, x \div 256 % 256>>

marshal_32(w) == marshal_16(w[2]) \o marshal_16(w[1])

\* A size or an offset as a word of 32 bits.
word(n) == <<n \div 65536 % 65536, n % 65536>>

\* new Byte[length], filled with these bytes; what is not filled is junk.
filled(length, bytes) ==
  [i \in 1 .. length |-> IF i <= Len(bytes) THEN bytes[i] ELSE -1]

Version == 63
ExtractVersion == 10

local_file_header_signature == <<\h0403, \h4B50>>
central_directory_file_header_signature == <<\h0201, \h4B50>>
endof_central_directory_file_header_signature == <<\h0605, \h4B50>>

\* What is marshalled alike into both headers.
file_fields(e) ==
  marshal_16(ExtractVersion) \o marshal_16(0) \o marshal_16(e.m_method)
    \o marshal_16(e.m_last_modify_time.time)
    \o marshal_16(e.m_last_modify_time.date)
    \o marshal_32(e.m_crc32) \o marshal_32(word(Len(e.result)))
    \o marshal_32(word(e.m_raw_size))
    \o marshal_16(Len(e.m_filename)) \o marshal_16(0)

write_local_file_header(e) ==
  filled(30 + Len(e.m_filename),
         marshal_32(local_file_header_signature)
           \o file_fields(e) \o e.m_filename)

\* Mutant: the length of the comment is left out.
write_central_directory_file_header_short(e, offset) ==
  filled(46 + Len(e.m_filename),
         marshal_32(central_directory_file_header_signature)
           \o marshal_16(Version) \o file_fields(e)
           \o marshal_16(0) \o marshal_16(0) \o marshal_32(<<0, 0>>)
           \o marshal_32(word(offset)) \o e.m_filename)

\* m_comment is empty, as nothing sets it.
write_central_directory_file_header(e, offset) ==
  filled(46 + Len(e.m_filename),
         marshal_32(central_directory_file_header_signature)
           \o marshal_16(Version) \o file_fields(e)
           \o marshal_16(0) \o marshal_16(0) \o marshal_16(0)
           \o marshal_32(<<0, 0>>) \o marshal_32(word(offset)) \o e.m_filename)

-------------------------------------------------------------------------------
(* update_buffer.                                                          *)

update_buffer ==
  /\ update.pc = "idle"
  /\ Len(m_entries) = Len(sources)
  /\ m_buffer' = <<>>
  /\ update' = [update EXCEPT !.pc = "local", !.i = 1]
  /\ UNCHANGED <<sources, entry, m_entries>>

\* write_local_file_header and write_file_block of an entry.
LocalFile ==
  /\ update.pc = "local"
  /\ update.i <= Len(m_entries)
  /\ m_buffer' = m_buffer \o write_local_file_header(m_entries[update.i])
                          \o m_entries[update.i].result
  /\ update' = [update EXCEPT !.i = @ + 1,
                  !.header_offset = Append(@, Len(m_buffer))]
  /\ UNCHANGED <<sources, entry, m_entries>>

CentralDirectory ==
  /\ update.pc = "local"
  /\ update.i > Len(m_entries)
  /\ update' = [update EXCEPT !.pc = "central", !.i = 1,
                              !.offset_cd = Len(m_buffer)]
  /\ UNCHANGED <<sources, entry, m_entries, m_buffer>>

CentralHeader ==
  /\ update.pc = "central"
  /\ update.i <= Len(m_entries)
  /\ m_buffer' = m_buffer \o write_central_directory_file_header(
                               m_entries[update.i],
                               update.header_offset[update.i])
  /\ update' = [update EXCEPT !.i = @ + 1]
  /\ UNCHANGED <<sources, entry, m_entries>>

write_eocd ==
  /\ update.pc = "central"
  /\ update.i > Len(m_entries)
  /\ m_buffer' =
       m_buffer \o filled(22,
         marshal_32(endof_central_directory_file_header_signature)
           \o marshal_16(0) \o marshal_16(0)
           \o marshal_16(Len(m_entries)) \o marshal_16(Len(m_entries))
           \o marshal_32(word(Len(m_buffer) - update.offset_cd))
           \o marshal_32(word(update.offset_cd)) \o marshal_16(0))
  /\ update' = [update EXCEPT !.pc = "ready"]
  /\ UNCHANGED <<sources, entry, m_entries>>

Next ==
  \/ calculate \/ extend \/ add_entry
  \/ update_buffer \/ LocalFile \/ CentralDirectory \/ CentralHeader \/ write_eocd

Spec == Init /\ [][Next]_vars

-------------------------------------------------------------------------------
(* Properties.                                                             *)

Halves == 0 .. 65535

\* Types; and every byte of a header has been marshalled.
TypeOK ==
  /\ entry.pc \in {"none", "crc"}
  /\ entry.n \in Nat
  /\ entry.crc \in Halves \X Halves
  /\ \A k \in DOMAIN m_entries :
       /\ m_entries[k].m_crc32 \in Halves \X Halves
       /\ m_entries[k].m_last_modify_time \in [time : Halves, date : Halves]
  /\ \A i \in DOMAIN m_buffer : m_buffer[i] \in 0 .. 255
  /\ update.pc \in {"idle", "local", "central", "ready"}
  /\ update.i \in 0 .. Len(sources) + 1

\* "The brute force" (README.md:97): the register is shifted bit by bit, and
\* the polynomial is taken off when a one falls out.
bit_by_bit(crc, byte) ==
  LET after[k \in 0 .. 8] ==
        IF k = 0 THEN crc
        ELSE LET before == after[k - 1]
                 shifted == shift_right(before, 1)
             IN  IF (before[2] + byte \div 2 ^ (k - 1)) % 2 = 1
                 THEN xor(shifted, <<\hEDB8, \h8320>>) ELSE shifted
  IN  after[8]

\* The table saves the bits, it does not change the sum: of every register
\* and byte, a round of extend() makes what eight single shifts do.
TableIsPolynomial ==
  [][entry.pc = "crc" /\ entry'.pc = "crc" =>
       entry'.crc = bit_by_bit(entry.crc, source.m_raw[entry'.n])]_vars

\* What an unzip program has to come to for file f.
IsRead(e, f) ==
  /\ e.same
  /\ e.name = f.m_filename
  /\ e.data = f.result
  /\ e.fields.flags = 0
  /\ e.fields.method = IF f.m_method = "none" THEN 0 ELSE 8
  /\ e.fields.csize = Len(f.result)
  /\ e.fields.usize = Len(f.m_raw)

\* A ready buffer is an archive, byte for byte: an unzip program finds the
\* central directory from its end and comes to every file, in order, with
\* its name, its method, its sizes, its CRC and the data; all that is said
\* twice is said alike, whatever bytes names and data have.
FilesAreRead ==
  update.pc = "ready" =>
    LET archive == Reader!unzip(m_buffer) IN
    /\ archive.whole
    /\ Len(archive.entries) = Len(sources)
    /\ \A k \in DOMAIN sources :
         /\ IsRead(archive.entries[k], sources[k])
         /\ archive.entries[k].fields.crc = m_entries[k].m_crc32

\* "Get the last modified time of the file", README.md:92: the format counts
\* two seconds, so what is read is the time or the second after, and the very
\* date.  (59 seconds are rounded up to 60.)
TimeIsRead ==
  update.pc = "ready" =>
    \A k \in DOMAIN sources :
      LET tm == sources[k].tm
          fields == Reader!unzip(m_buffer).entries[k].fields
          time == Reader!dos_time(fields.time)
      IN
      /\ Reader!dos_date(fields.date) =
           [year |-> tm.year, mon |-> tm.mon + 1, mday |-> tm.mday]
      /\ time.hour = tm.hour
      /\ time.min = tm.min
      /\ time.sec - tm.sec \in 0 .. 1
===============================================================================
