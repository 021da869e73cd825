------------------------------ MODULE Compressor ------------------------------
(***************************************************************************)
(* What a Compressor promises (compress/compressor.hpp): fed with a        *)
(* content, it compresses it once, and hands out a result from which that  *)
(* very content can be had back, until it is fed again.                    *)
(***************************************************************************)
CONSTANTS
  Contents,  \* what it may be fed with
  NoResult

VARIABLES
  content,  \* what m_src and m_src_len were fed with last
  finish,   \* m_finish
  result    \* the content that can be had back from write_result()

vars == <<content, finish, result>>

Init ==
  /\ content \in Contents
  /\ finish = FALSE
  /\ result = NoResult

\* "Unset when fed by new data"
feed ==
  /\ content' \in Contents
  /\ finish' = FALSE
  /\ result' = NoResult

\* "set when compress() is called and finished"
compress ==
  /\ ~ finish
  /\ finish' = TRUE
  /\ result' = content
  /\ UNCHANGED content

Next == feed \/ compress

Spec == Init /\ [][Next]_vars
===============================================================================
