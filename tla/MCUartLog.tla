------------------------------- MODULE MCUartLog -------------------------------
(* UartLog with two lines of up to three bytes: one in each register and   *)
(* one still in memory.                                                    *)
EXTENDS UartLog
================================================================================
