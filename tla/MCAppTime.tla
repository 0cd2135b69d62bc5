------------------------------- MODULE MCAppTime -------------------------------
(***************************************************************************)
(* AppTime with seven counts to five milliseconds, observed for MaxTotal   *)
(* counts: the hardware counter wraps and the milliseconds wrap.  The time *)
(* begins in the start-up, StartUp, which initialises TC4 and at its end   *)
(* asks for the time for the first time.                                   *)
(***************************************************************************)
EXTENDS AppTime

CONSTANT MaxTotal

VARIABLES
  pc, waitStates, oscillators, dfllReady, cpuSources, runStandby,
  busClocks, coreClocks, initialised, rtc, nvic

bootVars == <<pc, waitStates, oscillators, dfllReady, cpuSources, runStandby,
              busClocks, coreClocks, initialised, rtc, nvic>>

Boot == INSTANCE StartUp

TimerRuns == Boot!TC4 \in initialised /\ pc # "halted"

BootThenTimeInit == Boot!Init /\ Init

BootThenTimeNext ==
  \/ Boot!Next /\ UNCHANGED vars
  \/ TimerRuns /\ Count /\ UNCHANGED bootVars
  \/ pc = "ready" /\ NowMs /\ UNCHANGED bootVars

BootThenTime == BootThenTimeInit /\ [][BootThenTimeNext]_<<vars, bootVars>>

Observed == total <= MaxTotal

\* While the start-up changes the processor's clock, there always is one, and never
\* one faster than the flash.
CpuKeepsItsClock == Boot!CpuKeepsItsClock

\* The start-up enables no interrupt before its driver and leaves none waiting from
\* before the reset.
StartsInOrder == Boot!StartsInOrder
================================================================================
