-------------------------------- MODULE AppTime --------------------------------
(***************************************************************************)
(* The active-time millisecond counter (app/app_time.h): LORA_APP_TIME_    *)
(* NowMs turns the counts of a hardware counter that wraps into            *)
(* milliseconds that wrap, and carries the fraction to the next call.      *)
(*                                                                         *)
(* total is history: all counts since the start, which do not wrap, and    *)
(* lastTotal their number at the last call.                                *)
(***************************************************************************)
EXTENDS Integers

CONSTANTS
  CountMod,         \* the hardware counter counts modulo this (2^32)
  MsMod,            \* the millisecond counter counts modulo this (2^32)
  MsPerSecond,      \* 1000
  CountsPerSecond   \* CPU_CLOCK_FREQUENCY / 1024

ASSUME TimeAssumption ==
  /\ CountMod \in Nat \ {0} /\ MsMod \in Nat \ {0}
  /\ MsPerSecond \in Nat \ {0} /\ CountsPerSecond \in Nat \ {0}

VARIABLES
  count,                                           \* TC_COUNT
  loraTimeLastCount, loraTimeMs, loraTimeRemainder,
  total, lastTotal
timeVars == <<loraTimeLastCount, loraTimeMs, loraTimeRemainder, lastTotal>>
vars == <<count, total, timeVars>>

TypeOK ==
  /\ count \in 0..(CountMod - 1) /\ loraTimeLastCount \in 0..(CountMod - 1)
  /\ loraTimeMs \in 0..(MsMod - 1)
  /\ loraTimeRemainder \in 0..(CountsPerSecond - 1)
  /\ total \in Nat /\ lastTotal \in 0..total

\* LORA_APP_TIME_Initialize; the counter has run a little since it was enabled.
Init ==
  /\ count \in 0..(CountMod - 1) /\ loraTimeLastCount = count
  /\ loraTimeMs = 0 /\ loraTimeRemainder = 0
  /\ total = 0 /\ lastTotal = 0

Elapsed == (count - loraTimeLastCount) % CountMod

\* Faulty variant: the fraction of the last call is forgotten.
ScaledAnew == Elapsed * MsPerSecond

Scaled == Elapsed * MsPerSecond + loraTimeRemainder

NowMs ==
  /\ loraTimeLastCount' = count
  /\ loraTimeMs' = (loraTimeMs + Scaled \div CountsPerSecond) % MsMod
  /\ loraTimeRemainder' = Scaled % CountsPerSecond
  /\ lastTotal' = total
  /\ UNCHANGED <<count, total>>

\* The callers poll at least once per wrap of the hardware counter.
Count ==
  /\ total - lastTotal < CountMod - 1
  /\ count' = (count + 1) % CountMod /\ total' = total + 1
  /\ UNCHANGED timeVars

Next == NowMs \/ Count

Spec == Init /\ [][Next]_vars
--------------------------------------------------------------------------------
(* Correctness.                                                            *)

\* However often the time is asked for, and whatever wraps in between, the answer
\* is the exact time in whole milliseconds: rounding never accumulates.
TimeIsExact ==
  /\ loraTimeMs = ((lastTotal * MsPerSecond) \div CountsPerSecond) % MsMod
  /\ loraTimeRemainder = (lastTotal * MsPerSecond) % CountsPerSecond

\* The hardware counter's own wrap loses nothing between two calls.
CountFollowsTotal ==
  /\ total - lastTotal < CountMod
  /\ Elapsed = total - lastTotal

IndInv == TypeOK /\ CountFollowsTotal /\ TimeIsExact
================================================================================
