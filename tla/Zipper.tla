-------------------------------- MODULE Zipper --------------------------------
(***************************************************************************)
(* The zip container: FileEntry (wrapper/file_entry.cpp), Zipper           *)
(* (wrapper/zipper.cpp, include/sz/zipper.hpp) and the file access they    *)
(* make (util/fs.hpp), as a library whose client calls the public methods  *)
(* in any order while other programs change the files.                     *)
(*                                                                         *)
(* A buffer is the sequence of records the code marshals into it, each     *)
(* with its offset and length.  A content is the version of the file it    *)
(* was read from; its CRC is that version.  How many bytes deflate makes   *)
(* of it is chosen from Deflated.                                          *)
(***************************************************************************)
EXTENDS Integers, Sequences

CONSTANTS
  Names,       \* file names
  NameLength,  \* their lengths
  Sizes,       \* sizes a file may have
  Deflated,    \* sizes deflate may come out with
  Methods,     \* the methods asked for: "none" (store), "deflate"
  CountMod,    \* 2^16: records are counted in two bytes
  SizeMod,     \* 2^32: sizes and offsets are kept in four bytes
  MaxEntries,  \* bound of the model: entries a client registers
  MaxVersion   \* bound of the model: changes made to a file

ASSUME ZipperAssumption ==
  /\ NameLength \in [Names -> Nat]
  /\ Sizes \subseteq Nat
  /\ Deflated \subseteq Nat
  /\ Methods \subseteq {"none", "deflate"}
  /\ CountMod \in Nat \ {0}
  /\ SizeMod \in Nat \ {0}
  /\ MaxEntries \in Nat
  /\ MaxVersion \in Nat

VARIABLES
  files,           \* the file system: version and size of every file
  entry,           \* the FileEntry the client works on
  m_entries,       \* the entries that are registered
  m_buffer,        \* the archive
  m_buffer_ready,  \* whether m_buffer was filled
  update,          \* update_buffer: program counter, i, offsets
  buffered,        \* history: entries registered at the last update_buffer
  disk,            \* the target file: the records that reached it
  written,         \* what the last call of write returned
  process          \* whether the process runs

zip_vars == <<m_entries, m_buffer, m_buffer_ready, update, buffered>>
out_vars == <<disk, written>>
vars == <<files, entry, zip_vars, out_vars, process>>

NoEntry == [pc |-> "none"]

Idle == [pc |-> "idle", i |-> 0, header_offset |-> <<>>, offset_cd |-> 0]

\* m_buffer.size()
BufferSize(buffer) ==
  IF buffer = <<>> THEN 0
  ELSE buffer[Len(buffer)].off + buffer[Len(buffer)].len

Init ==
  /\ files \in [Names -> [version : {0}, size : Sizes]]
  /\ entry = NoEntry
  /\ m_entries = <<>>
  /\ m_buffer = <<>>
  /\ m_buffer_ready = FALSE
  /\ update = Idle
  /\ buffered = 0
  /\ disk = <<>>
  /\ written = "never"
  /\ process = "runs"

\* The client's thread is in none of the calls below.
Free == process = "runs" /\ update.pc = "idle"

-------------------------------------------------------------------------------
(* The file system, as other programs use it.                              *)

ChangeFile(name) ==
  /\ process = "runs"
  /\ files[name].version < MaxVersion
  /\ \E size \in Sizes :
       files' = [files EXCEPT ![name] = [version |-> @.version + 1, size |-> size]]
  /\ UNCHANGED <<entry, zip_vars, out_vars, process>>

-------------------------------------------------------------------------------
(* FileEntry: the constructor reads the file, asks for its time, computes  *)
(* the CRC and compresses.                                                 *)

read_bytes(name, method) ==
  /\ Free
  /\ entry.pc = "none"
  /\ entry' = [pc |-> "read", name |-> name, m_method |-> method,
               m_raw |-> files[name], time |-> 0, length |-> 0]
  /\ UNCHANGED <<files, zip_vars, out_vars, process>>

\* The file cannot be opened (or has no time any more): log::panic exits.
panic ==
  /\ Free
  /\ entry.pc \in {"none", "read"}
  /\ process' = "exited"
  /\ UNCHANGED <<files, entry, zip_vars, out_vars>>

\* Mutant of get_last_modify_time: the time is the one of the first version.
get_last_modify_time_cached ==
  /\ Free
  /\ entry.pc = "read"
  /\ entry' = [entry EXCEPT !.pc = "stat", !.time = 0]
  /\ UNCHANGED <<files, zip_vars, out_vars, process>>

get_last_modify_time ==
  /\ Free
  /\ entry.pc = "read"
  /\ entry' = [entry EXCEPT !.pc = "stat", !.time = files[entry.name].version]
  /\ UNCHANGED <<files, zip_vars, out_vars, process>>

\* The rest of the constructor: feed and compress.  DeflateCompressor ends the
\* process on an empty content, and on any other when it is to use 0 threads
\* or cannot start one.
construct ==
  /\ Free
  /\ entry.pc = "stat"
  /\ \/ /\ entry.m_method = "none"
        /\ entry' = [entry EXCEPT !.pc = "made", !.length = entry.m_raw.size]
        /\ UNCHANGED process
     \/ /\ entry.m_method = "deflate"
        /\ entry.m_raw.size > 0
        /\ \E n \in Deflated : entry' = [entry EXCEPT !.pc = "made", !.length = n]
        /\ UNCHANGED process
     \/ /\ entry.m_method = "deflate"
        /\ process' = "crashed"
        /\ UNCHANGED entry
  /\ UNCHANGED <<files, zip_vars, out_vars>>

\* Mutant of Compressed: deflate is kept whatever comes out.
CompressedAlways(e) == e

\* FileEntry::compress: the compressor has finished already; deflate is given
\* up for store when it made the content longer.
Compressed(e) ==
  IF e.m_method # "none" /\ e.length > e.m_raw.size
  THEN [e EXCEPT !.m_method = "none", !.length = e.m_raw.size]
  ELSE e

compress ==
  /\ Free
  /\ entry.pc = "made"
  /\ entry' = Compressed(entry)
  /\ UNCHANGED <<files, zip_vars, out_vars, process>>

-------------------------------------------------------------------------------
(* Zipper.                                                                 *)

\* add_entry compresses the entry and registers a copy; the entry was moved
\* from, or goes out of its scope.
add_entry ==
  /\ Free
  /\ entry.pc = "made"
  /\ Len(m_entries) < MaxEntries
  /\ m_entries' = Append(m_entries, Compressed(entry))
  /\ entry' = NoEntry
  /\ UNCHANGED <<files, m_buffer, m_buffer_ready, update, buffered, out_vars,
                 process>>

\* Records are marshalled one behind the other.
Marshal(buffer, body, len) ==
  Append(buffer, [off |-> BufferSize(buffer), len |-> len, body |-> body])

\* What both kinds of file header say of entry e.
FileHeader(e) ==
  [name |-> e.name, method |-> e.m_method, time |-> e.time,
   crc |-> e.m_raw.version, csize |-> e.length % SizeMod,
   usize |-> e.m_raw.size % SizeMod]

write_local_file_header(buffer, e) ==
  Marshal(buffer, [kind |-> "local", file |-> FileHeader(e)],
          30 + NameLength[e.name])

write_file_block(buffer, e) ==
  Marshal(buffer, [kind |-> "data", content |-> e.m_raw.version,
                   method |-> e.m_method], e.length)

write_central_directory_file_header(buffer, e, offset) ==
  Marshal(buffer, [kind |-> "central", file |-> FileHeader(e),
                   offset |-> offset % SizeMod],
          46 + NameLength[e.name])

\* Mutant of update_buffer: a buffer that is ready is taken for up to date.
update_buffer_cached ==
  /\ Free
  /\ IF m_buffer_ready
     THEN UNCHANGED <<m_buffer, update>>
     ELSE m_buffer' = <<>> /\ update' = [Idle EXCEPT !.pc = "local"]
  /\ buffered' = Len(m_entries)
  /\ UNCHANGED <<files, entry, m_entries, m_buffer_ready, out_vars, process>>

\* buffered notes how many entries there are; the code has no such number.
update_buffer ==
  /\ Free
  /\ m_buffer' = <<>>
  /\ update' = [Idle EXCEPT !.pc = "local"]
  /\ buffered' = Len(m_entries)
  /\ UNCHANGED <<files, entry, m_entries, m_buffer_ready, out_vars, process>>

\* Mutant of LocalFile: offsets are recorded by name, and a file that is
\* registered twice has one.
LocalFile_unrecorded ==
  LET e == m_entries[update.i + 1]
      header == write_local_file_header(m_buffer, e)
  IN
  /\ update.pc = "local"
  /\ update.i < Len(m_entries)
  /\ m_buffer' = write_file_block(header, e)
  /\ update' = [update EXCEPT !.i = @ + 1,
                  !.header_offset =
                    IF \E k \in 1 .. update.i : m_entries[k].name = e.name
                    THEN @ ELSE Append(@, BufferSize(m_buffer))]
  /\ UNCHANGED <<files, entry, m_entries, m_buffer_ready, buffered, out_vars,
                 process>>

\* The local header and the data of the next entry.
LocalFile ==
  LET e == m_entries[update.i + 1]
      header == write_local_file_header(m_buffer, e)
  IN
  /\ update.pc = "local"
  /\ update.i < Len(m_entries)
  /\ m_buffer' = write_file_block(header, e)
  /\ update' = [update EXCEPT !.i = @ + 1,
                  !.header_offset = Append(@, BufferSize(m_buffer))]
  /\ UNCHANGED <<files, entry, m_entries, m_buffer_ready, buffered, out_vars,
                 process>>

CentralDirectory ==
  /\ update.pc = "local"
  /\ update.i = Len(m_entries)
  /\ update' = [update EXCEPT !.pc = "central", !.i = 0,
                  !.offset_cd = BufferSize(m_buffer)]
  /\ UNCHANGED <<files, entry, m_entries, m_buffer, m_buffer_ready, buffered,
                 out_vars, process>>

CentralHeader ==
  /\ update.pc = "central"
  /\ update.i < Len(m_entries)
  /\ m_buffer' = write_central_directory_file_header(
                   m_buffer, m_entries[update.i + 1],
                   update.header_offset[update.i + 1])
  /\ update' = [update EXCEPT !.i = @ + 1]
  /\ UNCHANGED <<files, entry, m_entries, m_buffer_ready, buffered, out_vars,
                 process>>

\* Mutant of write_eocd: the buffer is not marked ready.
write_eocd_unmarked ==
  /\ update.pc = "central"
  /\ update.i = Len(m_entries)
  /\ m_buffer' =
       Marshal(m_buffer,
               [kind |-> "eocd", count |-> Len(m_entries) % CountMod,
                cd_size |-> (BufferSize(m_buffer) - update.offset_cd) % SizeMod,
                cd_offset |-> update.offset_cd % SizeMod], 22)
  /\ update' = Idle
  /\ UNCHANGED <<files, entry, m_entries, m_buffer_ready, buffered, out_vars,
                 process>>

write_eocd ==
  /\ update.pc = "central"
  /\ update.i = Len(m_entries)
  /\ m_buffer' =
       Marshal(m_buffer,
               [kind |-> "eocd", count |-> Len(m_entries) % CountMod,
                cd_size |-> (BufferSize(m_buffer) - update.offset_cd) % SizeMod,
                cd_offset |-> update.offset_cd % SizeMod], 22)
  /\ m_buffer_ready' = TRUE
  /\ update' = Idle
  /\ UNCHANGED <<files, entry, m_entries, buffered, out_vars, process>>

\* write returns false when the buffer was never filled.  The file is
\* truncated, then written; that not all of it may have reached the disk
\* (here: nothing) is noticed by nobody.
write ==
  /\ Free
  /\ IF m_buffer_ready
     THEN /\ disk' \in {<<>>, m_buffer}
          /\ written' = "true"
     ELSE /\ written' = "false"
          /\ UNCHANGED disk
  /\ UNCHANGED <<files, entry, zip_vars, process>>

\* The target cannot be opened: log::panic exits.
write_panic ==
  /\ Free
  /\ m_buffer_ready
  /\ process' = "exited"
  /\ UNCHANGED <<files, entry, zip_vars, out_vars>>

-------------------------------------------------------------------------------
UpdateStep == LocalFile \/ CentralDirectory \/ CentralHeader \/ write_eocd

Next ==
  \/ \E name \in Names :
       \/ ChangeFile(name)
       \/ \E method \in Methods : read_bytes(name, method)
  \/ get_last_modify_time \/ construct \/ compress \/ panic
  \/ add_entry \/ update_buffer \/ UpdateStep
  \/ write \/ write_panic

Spec == Init /\ [][Next]_vars

-------------------------------------------------------------------------------
(* Properties.                                                             *)

\* The limits of the format's fields: fewer entries than two bytes count, and
\* no size or offset that four bytes cannot say.
WithinFormat(es) ==
  /\ Len(es) < CountMod
  /\ BufferSize(m_buffer) <= SizeMod
  /\ \A k \in DOMAIN es : es[k].m_raw.size < SizeMod

\* What the headers of entry e have to say: nothing is cut off to fit.
Described(e) ==
  [name |-> e.name, method |-> e.m_method, time |-> e.time,
   crc |-> e.m_raw.version, csize |-> e.length, usize |-> e.m_raw.size]

\* What unzip does with a buffer: from the last record to the central
\* directory, from there to the local headers and the data behind them.  It
\* comes out with the entries es, everything said twice being said alike.
IsArchiveOf(buffer, es) ==
  LET n == Len(es)
      last == Len(buffer)
      eocd == buffer[last].body
  IN
  /\ last > 0
  /\ eocd.kind = "eocd"
  /\ eocd.count = n
  /\ last > n
  /\ buffer[last - n].off = eocd.cd_offset
  /\ buffer[last].off = eocd.cd_offset + eocd.cd_size
  /\ \A k \in 1 .. n :
       LET central == buffer[last - n - 1 + k].body IN
       /\ central.kind = "central"
       /\ central.file = Described(es[k])
       /\ \E l \in 1 .. last - 1 :
            LET local == buffer[l]
                data == buffer[l + 1]
            IN  /\ local.off = central.offset
                /\ local.body = [kind |-> "local", file |-> central.file]
                /\ data.body = [kind |-> "data", method |-> central.file.method,
                                content |-> central.file.crc]
                /\ data.off = local.off + local.len
                /\ data.len = central.file.csize

Entries == [pc : {"made"}, name : Names, m_method : {"none", "deflate"},
            m_raw : [version : Nat, size : Nat], time : Nat, length : Nat]

\* Types; and every header that was written has an offset on record.
TypeOK ==
  /\ files \in [Names -> [version : Nat, size : Nat]]
  /\ \/ entry = NoEntry
     \/ entry \in [pc : {"read", "stat", "made"}, name : Names,
                   m_method : {"none", "deflate"},
                   m_raw : [version : Nat, size : Nat],
                   time : Nat, length : Nat]
  /\ m_entries \in Seq(Entries)
  /\ m_buffer_ready \in BOOLEAN
  /\ update \in [pc : {"idle", "local", "central"}, i : Nat,
                 header_offset : Seq(Nat), offset_cd : Nat]
  /\ update.pc = "local" => Len(update.header_offset) = update.i
  /\ update.pc = "central" => Len(update.header_offset) = Len(m_entries)
  /\ buffered \in 0 .. Len(m_entries)
  /\ written \in {"never", "true", "false"}
  /\ process \in {"runs", "exited", "crashed"}

\* A buffer that is ready is a readable archive of the entries that were
\* registered when update_buffer was called last, of each of them and of no
\* other, as long as they are within the limits of the format's fields.  It is
\* this archive that write() exports: of "all registered file entries"
\* (README.md:113) only if none was added since.
BufferIsArchive ==
  m_buffer_ready /\ update.pc = "idle" =>
    LET es == SubSeq(m_entries, 1, buffered) IN
    WithinFormat(es) => IsArchiveOf(m_buffer, es)

\* A registered entry takes no more bytes than its file had, and what it
\* takes is what its method says: "choose whether to use store instead of
\* deflate", README.md:364.
NoEntryGrows ==
  \A k \in DOMAIN m_entries :
    LET e == m_entries[k] IN
    IF e.m_method = "none" THEN e.length = e.m_raw.size
                           ELSE e.length <= e.m_raw.size

\* The time an entry carries is not older than its content, though the file
\* changes between the two: it is asked for after the content is read.
TimeNotOlder ==
  \A k \in DOMAIN m_entries : m_entries[k].time >= m_entries[k].m_raw.version
===============================================================================
