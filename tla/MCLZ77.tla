-------------------------------- MODULE MCLZ77 --------------------------------
(* Instances of LZ77Dictionary for TLC.                                      *)
EXTENDS LZ77Dictionary

CONSTANTS
  Repeated,  \* the length of a run of bytes that a block holds twice
  Between    \* how many bytes may lie between the two

Word(k) == [1 .. k -> Bytes]

\* Blocks that hold a run of bytes twice, at distances inside the window, at
\* its end and beyond, with anything between.  (0 and 1 may be swapped.)
Blocks ==
  {<<0>> \o x \o y \o x \o z :
     x \in Word(Repeated), y \in UNION {Word(k) : k \in Between}, z \in Word(1)}

\* The blocks a dictionary is used on before: none, or one with such runs.
MCWorkloads ==
  {<<b>> : b \in Blocks} \cup {<<<<1, 0, 0, 0, 1, 0, 0, 1>>, b>> : b \in Blocks}

\* The shapes of the rows of LZ77DictionaryConfig: early stops, and none.
MCLevels == {[chain |-> 16, good |-> 3, nice |-> 4, perfect |-> 5],
             [chain |-> 64, good |-> 5, nice |-> 5, perfect |-> 5]}
===============================================================================
