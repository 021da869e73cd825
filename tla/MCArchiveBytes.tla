---------------------------- MODULE MCArchiveBytes ----------------------------
(* Instances of ArchiveBytes for TLC.                                        *)
EXTENDS ArchiveBytes

\* Names of one byte, of one that holds a record's signature, and a long one.
Short == <<97>>
Signature == <<80, 75, 5, 6, 0, 0>>
Long == [i \in 1 .. 300 |-> 97 + (i % 26)]

Noon == [year |-> 2021, mon |-> 5, mday |-> 21, hour |-> 12, min |-> 34, sec |-> 56]

File(raw, name) ==
  [m_raw |-> raw, tm |-> Noon, m_filename |-> name, m_method |-> "none",
   result |-> raw]
DeflateFile(raw, name, result) ==
  [File(raw, name) EXCEPT !.m_method = "deflate", !.result = result]

\* Every entry of the table is looked up: by the first byte, and by the one
\* behind it with the register the first byte leaves.
EveryByte == {<<File(<<x, 255 - x>>, Short)>> : x \in 0 .. 255}

\* Every second, and the first and the last of everything else.
Times ==
  {[Noon EXCEPT !.sec = s] : s \in 0 .. 59}
    \cup {[Noon EXCEPT !.mon = m, !.mday = d] : m \in 0 .. 11, d \in {1, 31}}
    \cup [year : {1980, 2107}, mon : {0, 11}, mday : {1, 31},
          hour : {0, 23}, min : {0, 59}, sec : {0, 59}]
EveryTime == {<<[File(<<1>>, Short) EXCEPT !.tm = t]>> : t \in Times}

\* None, and up to three files: empty, with a signature in their data, more
\* than 255 bytes long, deflated.
Files ==
  {File(<<>>, Short), File(Signature, Signature), File(Long, Short),
   DeflateFile(<<1, 1, 1, 1>>, Long, <<3, 0>>)}
Several == {<<>>} \cup (Files \X Files \X Files)

MCArchives == EveryByte \cup EveryTime \cup Several
===============================================================================
