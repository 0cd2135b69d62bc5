------------------------------ MODULE MCNodePower ------------------------------
(* NodePower with a counter of three counts: one and two milliseconds are  *)
(* intervals it can time, zero is refused and four do not fit.             *)
EXTENDS NodePower
================================================================================
