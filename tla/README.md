# SimpleZip in TLA+

TLA+ modules of SimpleZip (a multi-threaded deflate compressor and zip writer
in C++), TLC configurations that model-check them, and theorems about them
that TLAPS checks.  Paths are relative to the repository's root.

## 1. The system

```
 app/main.cpp ──> Zipper ──> FileEntry ──> Compressor
 (loop over the   (wrapper/  (wrapper/      ├─ StoreCompressor
  sources)        zipper)    file_entry)    └─ DeflateCompressor (compress/deflate.cpp)
                     │           │               │  one work thread per section
                     └── util/fs.hpp ──┘         ├─ LZ77Dictionary   (one per thread)
                                                 ├─ block encoders, HuffmanTree
                                                 ├─ BitStream        (one per thread)
                                                 └─ ProgressBar      (one, shared, mutex)
```

| component | state | operations | hard parts | what makes it correct |
|---|---|---|---|---|
| `BitStream` (util/bit_util) | the vector, its capacity, a cursor (byte pointer, bit) | constructor, `write_bit`, `write_bits`, `append`, `align_to_byte`, `export_bitstream` | three-phase byte loops at any bit offset, growth at a byte boundary, bits that are or-ed into a byte | append-only log of bits; the cursor stays inside; bits from the cursor on are 0 |
| `DeflateCompressor::compress` (compress/deflate.cpp) | `m_finish`, the result, the work threads and their streams | sections, blocks, coded or stored, join, concatenation | threads; cuts with roundings; final flags; alignment after concatenation; calls after it has finished; exceptions | the stream is the source, once, in order, with one final block; it ends |
| `ProgressBar` (util/progress_bar.hpp) | accumulated progress, filled cells, shown or not | `increase_progress`, `set_full`, `set_display` | called by all threads | never ahead of the work, never back, full at the end |
| `LZ77Dictionary` (compress/lz77_dictionary.cpp) | lists of positions by 3 bytes, ring of prefix hashes, window | `calc`, once per block | ring and window edges, hash collisions, matches that overlap the cursor, re-use for the next block, racy table of powers | the items decode to the block; they are legal; a match in reach is not missed |
| `Compressor` (compress/compressor.hpp) | content, `m_finish`, result | `feed`, `compress`, `write_result` | fed again, compressed again | a finished compressor holds what it was fed with last |
| block encoders (compress/deflate.cpp) | the block's stream, three trees | static and dynamic blocks, run length code | cut runs, fields of few bits that hold differences, blocks without matches, three trees that code one another | an inflater refuses no block and reads the items that were written |
| `HuffmanTree` (compress/deflate_huffman.cpp) | `m_dep`, `m_code` | `calculate`, `encode`, `get_last_code` | package-merge's counts, one code alone, equal weights | complete canonical prefix code within the limit, optimal |
| table generators (compress/gt_deflate.cpp, util/gt_reversebits.cpp) | — | at build time: literals, lengths, distances, reversed bits | ranges | every length and distance has the code and extra bits of the format |
| CRC-32 (crc/) | a table | `extend`, `calculate` | 256 numbers typed in | the sum is the polynomial's |
| marshalling (util/byte_util.hpp) | — | `marshal_16`, `marshal_32` | order of bytes, lengths of headers computed apart | a reader gets every field back |
| `FileEntry` (wrapper/file_entry.cpp) | content, method, time, CRC, compressor | constructor, `compress`, three record writers | content and time read apart; fall back to store | an entry never grows; header fields agree with the data |
| `Zipper` (wrapper/zipper.cpp) | entries, buffer, ready flag | `add_entry`, `update_buffer`, `write` | the buffer is a cache; offsets; 16- and 32-bit fields | what is written is a readable archive of the entries |
| file access (util/fs.hpp) | the file system | `read_bytes`, `get_last_modify_time`, `write_bytes` | other programs; failures; a time in 16 + 16 bits | the time that is read is the file's |
| program (app/main.cpp) | where the loop is | one run | — | "success" is said of an archive of all sources |

The log, option parsing (CLI11), the build and the tests are listed in
`PROJECT.json` with the reason why they are left out.

Threads exist in one place only: inside `DeflateCompressor::compress`.  They
share the source (read only), the progress bar (mutex), the static table of
powers in `get_pow_hash_root` (unsynchronised), and each writes its own slot of
`bss`, which the calling thread reads after `join`.

## 2. Modules

| module | models | kind |
|---|---|---|
| `BitLog` | what a bit stream promises: bits are requested, taken in order, never changed | abstract specification |
| `BitStream` | `BitStream`, one iteration of a loop per step | detailed; refines `BitLog` |
| `BitStreamProofs` | the inductive invariant of `BitStream`, its theorems, the refinement of `BitLog` | proofs |
| `DataLemmas` | induction over sets and intervals, quotients and remainders, sums, `FlattenSeq` | lemmas, EXTENDed by the proofs below |
| `ProgressBar` | the shared bar: operators, one per public method | library module |
| `Compressor` | what compressor.hpp promises of `feed`, `compress` and `m_finish` | abstract specification |
| `DeflateSections` | `feed()` and `compress()` with its threads; uses `ProgressBar` | detailed; refines `Compressor` |
| `DeflateSectionsProofs` | the inductive invariant of `DeflateSections`, its theorems, the refinement of `Compressor` | proofs |
| `HuffmanCode` | package-merge and canonical codes: operators | library module |
| `HuffmanTree` | `calculate()` of one tree, for every order of the sort | detailed |
| `HuffmanCodeProofs` | what package-merge and the canonical numbering compute, for any bucket | lemmas, EXTENDed by the two proofs below |
| `HuffmanTreeProofs` | that no other lengths are cheaper, the inductive invariant of `HuffmanTree` and its theorems | proofs |
| `DeflateBlockProofs` | that the reader `Inflate` undoes each field the encoders write, the inductive invariant of `DeflateBlock` and its theorems | proofs |
| `DeflateTables` | what the table generators compute | library module |
| `DeflateBlock` | the block encoders, field by field; EXTENDS `HuffmanCode`, `DeflateTables` | detailed |
| `Inflate` | an inflater, as operators on a position in the bits | external, reader of `DeflateBlock` |
| `LZ77Dictionary` | `calc()`, one candidate of the chain per step | detailed |
| `LZ77Proofs` | the inductive invariant of `LZ77Dictionary` and its theorems | proofs |
| `Zipper` | `FileEntry`, `Zipper`, file access; a client that calls in any order | detailed |
| `ZipperProofs` | the inductive invariant of `Zipper` and its theorems; what `main()` adds to it; EXTENDS `SimpleZip` | proofs |
| `SimpleZip` | `main()`, as one client of `Zipper` | composition, EXTENDS `Zipper` |
| `Crc32` | the table and one round of `extend()` | library module |
| `ArchiveBytes` | an archive byte by byte: CRC, DOS time, headers; EXTENDS `Crc32` | detailed |
| `Unzip` | an unzip program, as operators on bytes | external, reader of `ArchiveBytes` |
| `MC…` | values of constants for TLC | instances |

**BitStream.**  The vector is laid out as bits: bit k of byte b is
`m_bytes[8b+k]`; pointers are indices.  `call` holds the program counter and
the locals of the method that runs, so an invariant speaks of every iteration.
The actions of a method are its three phases (`FitInFirstByte`,
`FillFirstByte`, `FullByte`, `LastBits`; `AppendByte`, `AppendHead`,
`AppendShifted`, `AppendTail`).  `=` and `|=` are told apart (`AssignByte`,
`OrBits`): `|=` is right only because bits from the cursor on are 0
(`CleanTail`).  `n` of 32 or more for big-endian writes is undefined in C++
(`1u << n`) and excluded by the guard; no caller does it (15 at most).

**DeflateSections.**  `main` is the calling thread, `thread` the vector of
work threads.  What a block is coded to is not modelled, only how many bits
it takes (any of `CodedSizes`) — that is all the control depends on.  A stream
is a number of bits and a list of pieces, each with the bytes of the source it
stands for, its final flag and its position; a stored piece also has the bit
its LEN field begins at.  `SpawnFails` and `WorkerFails` are
the exceptions that end the process.  A division by zero ends in "crashed".
`Report` is what `calc` does to the bar.  `Compressor` is its abstract
specification: content in, the same content to be had back.  The refinement
maps the result to what an inflater reads of the pieces (`Inflated`): it goes
from one to where it ends, stops behind the first final block, and at a stored
piece whose LEN is not at the byte boundary where the format has it
(`InFormat`).  Every step of the threads maps to a stutter, but the last.  The
code does not keep the promise for results with such a piece, which
`StoreAligned` and `StoreConcat` show; `ImplementsCompressor` therefore allows
one step more than `Compressor`, `Misplaced`: `compress()` finishes, once, with
the content it was fed with last, and a stored block is out of place in the
result.  Then the content is not promised, but all the rest is.

**HuffmanTree.**  `HuffmanCode` has the algorithm as functions: a bucket (how
often each code occurs) to lists of leaves and packages, lists to lengths,
lengths to codes.  `std::sort` is not stable, so an order is chosen from
`sorted`.  `lists` keeps an item's weight and what it is made of, as
`List`'s items do.  `HuffmanTree` is one object: `calculate` is called once.

**DeflateBlock.**  A block goes through the writer's fields in their order,
with `writer` as program counter; bits are appended to `bs` the way
`BitStream` is shown to append them.  Trees keep the order of equal codes
(`stable`), as one outcome of the sort; that the others are as good is what
`HuffmanTree` checks.  The reader is `Inflate`: it is written from the format,
with tables of its own, and uses no definition of the writer; it refuses what
inflaters refuse, at its strictest (codes that are not complete, repetitions
with nothing to repeat or past the end).

**ArchiveBytes.**  Entries are made one after the other (`calculate`, `extend`
per byte, `add_entry`), then `update_buffer` marshals them.  Words of 32 bits
are pairs of 16, since TLC's integers have 32 with a sign.  A header is an
array of the length the code computes, with -1 where nothing was marshalled.
`Unzip` is written from the format and searches the end record from the end of
the file.  What deflate makes of a file is given here: it is the subject
of the other modules.

**LZ77Dictionary.**  A slot of the ring `m_hash` holds the hash of a prefix of
the block; the model keeps which prefix it is.  Two hashes of the same bytes
agree when the slots they are computed from hold what is asked for
(`Intact`) and the table of powers is complete; in every other case
`HashesAgree` is either outcome, which covers collisions, overwritten slots
and the race on the table.  `racing` says whether other threads fill the
table during the behaviour.

**Zipper.**  A buffer is the sequence of records marshalled into it, with
offsets and lengths; a content is the version of its file, and stands for its
CRC.  `update_buffer` is one action per record.  `ChangeFile` is another program
writing a source.  `IsArchiveOf` is a reader: from the end record to the central
directory, from there to local headers and data, all of which must say what is
true of the entries (`Described`), whatever the fields can hold.  `buffered`
is a history variable: how many entries were registered when `update_buffer`
was called last.  The code keeps no such number; `BufferIsArchive` needs it to say
which entries are in the buffer, a cache that `add_entry` does not invalidate.
`WithinFormat` is what the fields can hold: at most 65535 entries, 2^32 bytes of
archive, and files of less than 2^32 bytes.  `write` truncates the target and may
leave nothing in it.  A compression may end the process for any content
("crashed"), as `DeflateSections` shows in detail.

**SimpleZip.**  `main()` looks up the method (`ChooseMethod`, `UnknownMethod`);
its other steps are conjunctions of a program counter with an action of `Zipper`.

## 3. Runs

| run | question | bounds |
|---|---|---|
| `BitStream` | is a stream a log of bits, whatever the calls? | streams made for 0 or 9 bits, up to 21 bits, lengths 0, 3, 8, 13, one payload whose bits past its length are set |
| `DeflateSections` | is the result the source, for all schedules? | sources of 0, 1, 5, 10 bytes with blocks of 3 (0, 1, 2, 4 blocks), 0 to 4 threads or more than fit an int, sub-blocks of 2 bytes, a coded block of 10 or 40 bits |
| `LZ77Dictionary` | do items decode to the block, is a match missed? | 960 blocks of 12 to 15 bytes 0 and 1 that hold any run of 5 bytes twice with up to 3 bytes between, alone or after another block; window 7, match 3 to 5, ring of 12; two levels; with and without the race |
| `Zipper` | is a ready buffer an archive? | two files of 2 or 203 bytes, one change each, two entries, deflate to 1 or 3 bytes; fields for 2 entries, 204 bytes of archive, 203 of a file |
| `SimpleZip` | does success mean an archive of all sources? | three sources of 0, 2 or 273 bytes, one file named twice; `-m` left out, store, deflate, or unknown; fields for 3 entries, 274 bytes of archive, 273 of a file |
| `HuffmanTree` | is the code complete, canonical, optimal, whatever the sort does? | 5 codes that occur 0, 1, 2, 3 or 5 times, limits of 3 and 4 bits, every order of equal codes |
| `DeflateBlock` | does an inflater read what a block encoder writes? | 592 blocks, static and dynamic, final and not |
| `ArchiveBytes` | does an unzip program read what is marshalled? | 469 archives |

Why these are enough.  `BitStream`: 21 bits take the buffer from 1 to 2 to 4
bytes; every offset 0–7 is met as start of every phase, and 13 bits at an
offset fill a byte, cross a full one and leave a rest.  `DeflateSections`: 5
bytes make two blocks that one thread merges and two threads do not; 10 bytes
make a shorter last section, an empty one when 3 threads share 4 blocks (2
each), and blocks of 4 bytes with two sub-blocks; 10 bits are kept for a block
of 3 bytes, 40 are not, even for 5, and 10 bits leave an odd alignment.  `IntMod`
16 makes 12 threads a negative int.  `LZ77Dictionary`: a repeated run lies at distance
5 to 8, inside the window, at its end and beyond; a candidate is compared by
hash only when a match of 4 was found nearer, and for two such matches to
differ the farther one has to be 6 or more away, hence a window of 7; the ring's
first slots are overwritten meanwhile; a block before leaves lists behind.
`Zipper`: names of different lengths put headers at different offsets; 3
bytes out of 2 is what makes deflate fall back to store.  The widths of the fields
are such that two entries are the most that can be counted, the greatest file
deflated is the greatest that a header can say, and two of the longer names with
a byte each make the longest archive; one byte more, or that file stored, is
beyond (`SimpleZip`: three entries in the same way).  `HuffmanTree`: with a
limit of 3 bits, 5 codes with weights as unequal as 1 1 2 3 5 need the limit, and
with 4 they reach it; fewer codes leave one alone or none.  `DeflateBlock`: one literal
v and the end of block cut the 257 lengths into runs of v and 255 - v zeros, so
runs of every length up to 255 are met; every length and both ends of every
distance code's ranges are written; ranges of 7 and of 15 literals of equal
count are runs of equal lengths; counts of 1, 2, 4, 8 make codes of
many lengths.  The limit of 15 bits is not reached there: it takes thousands of
items with counts like Fibonacci's, and is what `HuffmanTree` checks with
smaller limits.  `ArchiveBytes`: every
entry of the CRC table is used with another register than 0; every second,
and the first and last month, day, hour, minute and year; three files out of
an empty one, one longer than 255 bytes with a long name, one whose
name and data hold an end record's signature, and a deflated one, in all orders.

`CHECK_DEADLOCK FALSE` is set where the system stops by itself: a client may
stop calling, the process may have exited, a stream has reached the bound.

Properties, by run (the comment at each definition says what it means):

* `BitStream`: `TypeOK`, `CursorInBuffer`, `CleanTail`, `ImplementsLog`
  (refinement of `BitLog`: the exported bits are the log), `CallsReturn`.
* `DeflateSections`: `ImplementsCompressor` (refinement of `Compressor`),
  `ResultIsTheSource` (pieces cover the source once, in order, and fill the
  stream without gap), `OneFinalBlock`, `PiecesBounded`, `NeverMuchLonger`, the
  bar (`BarHonest`, `BarNeverBack`, `BarEndsFull`), `CompressReturns`, `TypeOK`.
* `LZ77Dictionary`: `RoundTrip` (an inflater's output is the block so far),
  `ItemsLegal`, `LiteralsAreNew`, `LongestMatch`, `ProgressHonest`,
  `CallsReturn`, `TypeOK`.
* `Zipper`: `BufferIsArchive`, `NoEntryGrows`, `TimeNotOlder`, `TypeOK`.
* `SimpleZip`: `SuccessHoldsSources`, `Terminates`.
* `HuffmanTree`: `PrefixCode` (complete and canonical), `Optimal` (against all
  lengths that satisfy Kraft's inequality), `CodesTheSource`, `TypeOK`.
* `DeflateBlock`: `NeverRefused`, `LengthsAgree` (the reader comes to the
  lengths of the writer's trees), `RoundTrip`, `TypeOK`.
* `ArchiveBytes`: `FilesAreRead`, `TimeIsRead`, `TableIsPolynomial` (against
  single shifts), `TypeOK`.

Runs that find a violation, each of one sentence of the repository:

| run | what the code does | what is said |
|---|---|---|
| `StoreAligned` | `align_to_byte` writes 8 bits when the stream is aligned already: a stored block whose header ends on a boundary gets a byte of padding (one thread; a block of 13 bits is before it) | "store block (in deflate format)", README.md:223 |
| `StoreConcat` | a section's stored blocks lose their alignment when its stream is appended to another that ends inside a byte (two threads; no header ends on a boundary, so mending the first does not help) | the same, with README.md:365 |
| `DivideByZero` | `each_cnt` divides by 0 for an empty content or with `-t 0` | "Compress the fed content", compressor.hpp:31 |
| `LostWrite` | nobody asks whether the bytes reached the file | "success", app/main.cpp:79 |

## 4. Fairness

Liveness is stated under weak fairness of a thread that is inside a call:
`Step` (`BitStream`), `Round` (`LZ77Dictionary`), `Main` and each `Work(t)`
(`DeflateSections`), `Main` (`SimpleZip`).  The code has no waiting other than
`join` and the bar's mutex (held for one method body), so a thread that is
scheduled makes these steps; the operating system schedules every runnable
thread.  Callers are not fair: nobody has to make a call.  `Report`,
failures and `ChangeFile` are not fair either.  `HuffmanTree`, `DeflateBlock` and
`ArchiveBytes` state no liveness: they have one actor at a time, which loops over
finite sequences.

## 5. Theorems

Every theorem holds for all values of the constants that the ASSUME of its
module allows (types of the constants, non-zero divisors, and the like), and for
every behaviour of the specification the runs check.

| module | theorem | establishes |
|---|---|---|
| `BitStreamProofs` | `TypeCorrect` | `[]TypeOK` |
| | `CursorStaysInBuffer` | `[]CursorInBuffer` |
| | `TailStaysClean` | `[]CleanTail` |
| | `IsALog` | `ImplementsLog`: `Spec` implements `BitLog` |
| `DeflateSectionsProofs` | `TypeCorrect` | `[]TypeOK` |
| | `PiecesAreBounded` | `[]PiecesBounded` |
| | `ResultIsNotLonger` | `[]NeverMuchLonger` |
| | `BarIsFull`, `BarIsHonest` | `[]BarEndsFull`, `[]BarHonest` |
| | `BarGoesForward` | `BarNeverBack` |
| | `ResultHoldsTheSource` | `[]ResultIsTheSource`, if `BlocksFit` |
| | `FinalBlockIsLast` | `[]OneFinalBlock`, if `BlocksFit` |
| | `KeepsPromise` | `ImplementsCompressor`: `Spec` implements `Compressor` but for results with a stored block out of place, if `BlocksFit` |
| | `KeepsPromiseWhenInFormat` | `Spec` implements `Compressor` if no result has a stored block out of place and `BlocksFit` |
| `LZ77Proofs` | `TypeCorrect` | `[]TypeOK` |
| | `ItemsHoldTheBlock` | `[]RoundTrip` |
| | `ItemsAreLegal` | `[]ItemsLegal` |
| | `ProgressIsHonest` | `[]ProgressHonest` |
| | `LiteralsAreAlwaysNew` | `LiteralsAreNew` |
| | `MatchesAreLongest` | `LongestMatch` |
| `ZipperProofs` | `TypeCorrect` | `[]TypeOK` |
| | `EntriesDoNotGrow` | `[]NoEntryGrows` |
| | `TimesAreNotOlder` | `[]TimeNotOlder` |
| | `BufferIsAnArchive` | `[]BufferIsArchive` |
| | `SuccessIsOfSources` | `[]SuccessHoldsSources` |
| `HuffmanTreeProofs` | `TypeCorrect` | `[]TypeOK` |
| | `EverySourceCoded` | `[]CodesTheSource` |
| | `CompletePrefixCode` | `[]PrefixCode` |
| | `ShortestCode` | `[]Optimal` |
| `DeflateBlockProofs` | `TypesOfBlock` | `[]TypeOK` |
| | `NothingRefused` | `[]NeverRefused` |
| | `LengthsAsSent` | `[]LengthsAgree` |
| | `ReadAsWritten` | `[]RoundTrip` |

The conditions.  `BlocksFit` says that a source has fewer blocks than an
int has values.  `compress()` keeps the number of blocks in an int; with 2^32
blocks of a megabyte it wraps, the sections end before the source does, and the
result is short.  The other theorems about `DeflateSections` do without it.
`KeepsPromiseWhenInFormat` assumes `StoredBlocksInDeflateFormat` at all times,
which the code does not see to: it holds, for example, of every behaviour in
which all blocks are coded.  What holds without that is `KeepsPromise`.
`WithinFormat` is part of `BufferIsArchive` and `SuccessHoldsSources`: a condition
on the entries that are in the buffer, the most that the fields of the format
can say.  Beyond it the fields wrap and the buffer is no archive (section 6).

The arguments, and why the properties are not inductive by themselves:

* **BitStream.**  That the cursor stays inside needs the vector to be as long
  as `m_cap` says; a byte that `=` assigns keeps the tail clean only if the
  cursor is at its first bit, that is, if the phases "full", "bytes" and
  "shifted" begin at `m_cur_bit = 0`; and the last bits fit the byte only if
  `n < 8` there.  `CallLocals` says this of the locals of a call, phase by
  phase; `IInv` is `TypeOK`, `CursorInBuffer`, `CleanTail` and `CallLocals`.
  `put_bit`, `next_byte` and `stay_in_byte` have lemmas of what they preserve
  whatever they write.  For the refinement each of them is shown to append
  the very bits of the request that `done` says are next, and to leave the ones
  before the cursor alone; every other step is a stutter or a new request.
* **DeflateSections.**  `Cut(k)` is where section k ends in closed form.
  `MainOK` ties the spawning loop's cursor to it, so that thread t always has
  the bytes from `Cut(t - 1)` to `Cut(t)`, whenever it runs.  `ThreadsOK` says
  of each stream that it holds its section so far (`Laid`: in order, without
  gap, final exactly where the source ends), with pieces that fit (`Bounded`)
  and few extra bits (`NotLonger`); a step of a thread changes its own stream
  only.  `ResultOK` says the same of the joined streams up to `Cut(main.i)`.
  The last section ends at the source's end because the shares are rounded
  up (`CutCovers`: the one place where `BlocksFit` is used).  `BarOK` is
  inductive alone; `BarHonest` compares the bar with the sum of what the
  threads have scanned, by lemmas on sums of a function of which one value grows.
  The refinement needs that an inflater which stops at the first final piece,
  and finds every stored one where it looks, reads all of the pieces, and that
  runs of consecutive bytes, flattened, are the whole source (`FlattenRuns`).
  Both theorems about it rest on one lemma on steps (`StepIsPromised`).
* **LZ77Dictionary.**  `ListsOK`: the list of a key names exactly the positions
  before the cursor with that hash, the latest first.  `RingOK`: the ring
  holds every prefix of the window but the first, since two positions of it
  share a slot only when they are a multiple of the ring's size apart
  (`SameRemainder`).  `WalkOK`: the match found so far agrees with the bytes at
  the cursor, and no position passed was better.  `RoundTrip` follows from
  these for a match that overlaps the cursor because bytes that agree at a
  distance d repeat with period d (`CopyContinues`).  Nothing is asked of the
  hashes for it: the first three bytes agree because the lists' keys are the
  bytes themselves, and the code compares all that lie between, also when the
  hashes agree.
  `LongestMatch` is where `RingOK` and `~ racing` are needed.
* **Zipper.**  `UpdateOK` says, for each of the loops of `update_buffer`, which
  records are in the buffer and that `header_offset` has the offsets of the
  local headers; `Complete` is the whole archive, and stays true of a prefix of
  the entries when more are registered.  `InOrder` (records do not overlap)
  makes the record at an offset unique, which the reader's search relies on.
  While `update_buffer` runs nothing is registered (`AllBuffered`).
  `EntryOK` has the entry's time not older than its content while it is made.
* **SimpleZip.**  `main()` is a client of `Zipper`: `AppNext`'s steps are steps
  of `Zipper`'s `Next`, so `IInv` holds; `Registered` (the entries are the
  first sources, in order), `WhereMainIs`, `StoreKept` and `BufferFull` are added.
* **HuffmanTree.**  There is one step, so the work is in the operators.  `IsMerge`
  describes a merged list by how many of its first b items are leaves, and the
  rest are packages; `LevelsAre` follows this from the last list to the first:
  of list i, `l[i]` leaves and `P[i]` packages are taken, `2 * P[i]` items of
  the list before, and no fewer leaves than of the one after (`MoreLeaves`: a
  leaf in front of a package is lighter than what was packed later).  So the
  k-th code's length is the number of lists with `l[i] >= k` (`LengthsAre`).  Read
  from the shortest code, the numbering of the canonical codes doubles what
  `l` and `P` halve (`StartByLevels`), which makes the last code end at
  `2 ^ m_max_len` exactly (`KraftIs`).  That the lists are long enough to take
  `2N - 2` items is where `MaxCode <= 2 ^ max_len` is needed (`ListsLong`,
  `Reaches`).  Codes then are consecutive intervals of strings (`CodesOrdered`,
  `CodesCover`).
* **Optimal.**  Let W(i, b) be the weight of the first b items of list i.  Lists
  ascend (`ListsAscend`), so the first b items of a merged list are the lightest
  choice of b: any j leaves and q packages with j + q >= b weigh W(i, b) or more
  (`MergeLightest`, by moving the choice one item at a time to the one that the
  list made).  Lengths are taken apart into a[i], how many codes are in list i,
  that is, have length n - i + 1 and more: a source's bits are the sum over the
  lists of the weight of the leaves taken there, at least that of the a[i]
  lightest (`TakenAtLeast`), and Kraft's inequality says how many packages a
  choice leaves for the next list.  By induction over the lists, what was chosen
  up to list i costs at least the weight of the packages that its width fills
  (`PackedOnce`, `PackedAll`), so any prefix code costs W(n, 2N - 2) or more
  (`KraftCosts`).  The lengths of `calculate()` cost W(n, 2N - 2) exactly, since in
  every list they take its first items (`Exact`, `ComputedCosts`).  `Cost` adds
  over the codes that occur and `Optimal` over `SetToSeq` of them: a sum over a
  set is the sum in the order of any numbering of it (`SumIsTotal`).  A source of
  one code has a second one that weighs nothing, and is a case of its own
  (`BestOfOne`).

* **DeflateBlock.**  The properties say nothing while the writer writes, and
  one of a reader in the middle of a block says nothing of the bits before it.
  `Inv` names the whole plan of a block instead, as state functions of what is
  to be written (`items`, `last_block`, `coding_type`): the trees `H1`, `H2`, `H3`,
  the run length codes `Rlc`, and the pieces `P` of the bits, that is, the header,
  one for each run length code, one for each item.  At each stage of the writer
  (`AtStart`, `AtTrees`, `AtRuns`, `AtThird`, `AtHeader`, `AtLengths`, `AtItems`, `AtDone`)
  its trees are the plan's and the bits are the pieces up to its index (`Laid`).
  The reader, once the writer is done, is at the beginning, or between two
  pieces, with exactly what the ones before it hold (`ReadsLengths`, `ReadsItems`,
  `HasRead`): a distance is read in the same step as its length, so the reader
  is never between them.  For every kind of piece a lemma says that a reader who
  comes to it takes all of it and gets back what it was made of, because:
  no code of a complete prefix code begins another (`HuffmanCodeProofs`), so that
  one symbol fits at a position and the reader finds the one that was written
  (a code there is for everything that occurs in the block, `CodesTheSource` of
  each of the three trees); the static code is complete too, which is shown from
  the reader's own table; base and extra bits of each length and distance, in the
  tables of the generators, are the reader's for the same code (one case for
  each branch of the tables); every cut of a run of lengths, into repetitions
  of at most 6, 10 and 138, gives them back, one behind the other; the fields of
  5, 5 and 4 bits of the header hold their differences, since there are at least
  257, 1 and 4 lengths; lengths from the last that is sent on are 0 in both
  trees.  `P` depends on nothing that a step changes (`PlanKept`).

The assumption `ContentsAssumption` of `DeflateBlock` says what a block may hold:
literals of a byte, lengths of 3 to 258, distances up to the window, each
distance right behind its length and each length before its distance, one end
of block at the end, and something before it.  The code
justifies each: `calc` pushes a length and its distance together and keeps both in
their ranges (`ItemsLegal`, a theorem of `LZ77Proofs`), a work thread makes no block
of 0 bytes (`p < ed`), and it pushes the end of block behind the items.

The inductive invariants were checked by TLC on the instances of their runs
before they were proved, but for that of `DeflateBlock`, which speaks of
the cuts of the runs by a function that TLC would have to guess.  What it rests on
(`LengthsAgree`, `RoundTrip`, `NeverRefused`) is what its run checks.

Induction.  `DataLemmas` proves induction as a fact about sets (a set that has
0 and with n also n + 1 has every number up to m), which is enough for the
functions defined by recursion here: that such a function exists, and what it
is of a longer argument (`InflationExists`, `JoinExists`, `SumExists`).  `Inflate`
reads numbers and strings by recursive functions for the same reason.

Model-checked only:

* liveness (`CallsReturn`, `CompressReturns`, `Terminates`): fairness and
  ENABLED are out of the prover's reach;
* `ArchiveBytes` (`FilesAreRead`, `TimeIsRead`, `TableIsPolynomial`, `TypeOK`):
  its CRC is defined with the exclusive or of `Bitwise`, of which the provers
  know nothing.

## 6. Not modelled

Compression ratio and speed; the characters of the progress bar; the text of
logs; CLI11's option parsing; memory leaks (the lists of the last block are
never freed, nor is the last `m_res`).  A file that shrinks while it is read:
`read_bytes` is one step.  `update_buffer` reads the entries' data through
`m_compressor`, which copies of an entry share; no module has two copies.
`set_progress` and `marshal_8` have no caller.

Wrapping of 16- and 32-bit fields: every count, size and offset is taken modulo
its width in `Zipper` and `ArchiveBytes`.  Up to the last value a field can hold
`BufferIsArchive` and `SuccessHoldsSources` promise that it says the truth, and
their runs meet those values; past it they promise nothing, and the code checks
nothing: the end record of 65536 entries says there are none.

A match at the far end of a full window may be missed, since the hash of its
first byte reads a slot that is overwritten: `LongestMatch` excepts that distance
(README.md:259 has it in reach); the output is longer, not wrong.

`write` exports the buffer of the last `update_buffer`, without the entries that
were added since, and returns true.  README.md:113 ("export the zip file
consisting of all registered file entries") holds of a client that calls
`update_buffer` behind the last `add_entry`, as the program does
(`SuccessHoldsSources`); of any client there is `BufferIsArchive`, which says
whose archive it is.

`Inflate`, `Unzip` and `Compressor`'s clients are not part of the repository.

## 7. Plan

Done, in this order of importance: the bit stream, the sections and threads,
the container and the program, the dictionary, then the Huffman codes, the
block encoders, the promise of a compressor, and the bytes of an archive;
theorems for every safety property of all of these but the last.  What could
follow:

1. `Compressor` in place of `Deflated` in `Zipper`, so that the container rests
   on what `DeflateSections` is shown to keep.
2. `ArchiveBytes` with an exclusive or of its own instead of `Bitwise`, to prove
   that a header's bytes are read back for every entry.
