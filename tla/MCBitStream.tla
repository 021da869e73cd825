----------------------------- MODULE MCBitStream ------------------------------
(* Instances of BitStream for TLC.                                           *)
EXTENDS BitStream

\* A word that tells its two ends apart and goes on, with garbage, above every
\* length that is asked of it.
MCWords == { <<1, 0, 1, 1, 0, 0, 1, 0, 1, 1, 0, 1, 0, 0, 1, 1, 0, 1, 1, 1>> }
===============================================================================
