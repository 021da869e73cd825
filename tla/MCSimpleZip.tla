----------------------------- MODULE MCSimpleZip ------------------------------
(* Instances of SimpleZip for TLC.                                           *)
EXTENDS SimpleZip

CONSTANTS a, b

MCNameLength == [name \in Names |-> IF name = a THEN 1 ELSE 7]

\* The same file may be named twice.
MCSources == <<a, b, a>>
===============================================================================
