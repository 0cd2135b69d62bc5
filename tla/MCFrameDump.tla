------------------------------ MODULE MCFrameDump ------------------------------
(* FrameDump with the program's own sizes: nothing is scaled down.         *)
EXTENDS FrameDump
================================================================================
