-------------------------------- MODULE BitLog --------------------------------
(***************************************************************************)
(* What a BitStream promises its users (util/bit_util.hpp): an append-only *)
(* log of bits.  A caller hands over a run of bits; the log takes them in  *)
(* order, a few at a time, and never changes a bit it already holds.       *)
(* Runs of bits are functions on 0 .. n-1.                                 *)
(***************************************************************************)
EXTENDS Integers

Bit == {0, 1}

\* The runs of n bits.
Run(n) == [0 .. n - 1 -> Bit]

VARIABLES
  size,     \* how many bits the log holds
  bits,     \* the bits it holds
  pending,  \* how many bits of the current request are still to be taken
  todo      \* those bits

vars == <<size, bits, pending, todo>>

TypeOK ==
  /\ size \in Nat
  /\ bits \in Run(size)
  /\ pending \in Nat
  /\ todo \in Run(pending)

Init ==
  /\ size = 0
  /\ bits \in Run(0)
  /\ pending = 0
  /\ todo \in Run(0)

\* One bit is requested and taken in the same step.
Put ==
  /\ pending = 0
  /\ size' = size + 1
  /\ \E b \in Bit :
       bits' = [k \in 0 .. size |-> IF k < size THEN bits[k] ELSE b]
  /\ UNCHANGED <<pending, todo>>

\* A caller asks for a run of n bits to be appended.
Request ==
  /\ pending = 0
  /\ pending' \in Nat
  /\ todo' \in Run(pending')
  /\ UNCHANGED <<size, bits>>

\* The first n bits of the request move to the end of the log.
Take(n) ==
  /\ size' = size + n
  /\ bits' = [k \in 0 .. size + n - 1 |->
                IF k < size THEN bits[k] ELSE todo[k - size]]
  /\ pending' = pending - n
  /\ todo' = [k \in 0 .. pending - n - 1 |-> todo[k + n]]

Next ==
  \/ Put
  \/ Request
  \/ \E n \in 1 .. pending : Take(n)

Spec == Init /\ [][Next]_vars
===============================================================================
