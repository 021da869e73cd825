------------------------------- MODULE MCZipper -------------------------------
(* Instances of Zipper for TLC.                                              *)
EXTENDS Zipper

CONSTANTS a, b

\* Names of different lengths put the headers at different offsets.
MCNameLength == [name \in Names |-> IF name = a THEN 1 ELSE 7]
===============================================================================
