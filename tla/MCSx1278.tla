------------------------------- MODULE MCSx1278 -------------------------------
(***************************************************************************)
(* Sx1278 with frames of none to two bytes and a FIFO of three: a second   *)
(* frame overwrites some of the first, a third all of it, and they reach   *)
(* into the transmitter's half.  Of two frames of the same length one can  *)
(* take the place of the other byte by byte while the driver reads.        *)
(***************************************************************************)
EXTENDS Sx1278

CONSTANTS none, one, two, other

MCFrames  == {none, one, two, other}
MCUplinks == {two}
MCLength  == [f \in MCFrames |-> CASE f = none -> 0 [] f = one -> 1
                                   [] f \in {two, other} -> 2]
================================================================================
