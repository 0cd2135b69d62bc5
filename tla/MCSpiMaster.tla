------------------------------ MODULE MCSpiMaster ------------------------------
(***************************************************************************)
(* SpiMaster with the transfer sizes of the program.                       *)
(***************************************************************************)
EXTENDS SpiMaster
================================================================================
