---------------------------- MODULE NodePowerProofs ----------------------------
(***************************************************************************)
(* Proofs about NodePower: the timing and the wake-up of a sleep for every *)
(* set of intervals, every clock rate and every counter width.             *)
(***************************************************************************)
EXTENDS NodePower, TLAPS

\* From the enabling of the counter to the return from the waiting loop.
Waiting == {"check", "mask", "recheck", "standby", "restore", "woken"}
Active  == {"started"} \cup Waiting

--------------------------------------------------------------------------------
(* The inductive invariant.                                                *)

\* The code that stops and arms the counter is not interrupted, and neither is the
\* second look at the flag.
InterruptsHeld ==
  pc \in Arming \cup {"recheck", "standby", "restore"}
    \/ (pc \in Stopping /\ ret # "abort")
  => primask /\ isr = NoCause

\* What the stop has achieved so far.
CounterStops ==
  /\ pc \in {"stopped", "clear"} => ~enable /\ ~intenset
  /\ pc = "clear" => ~running

\* An interval that does not fit is refused before anything is stopped.
IntervalFits ==
  pc \in {"prepare"} \cup Arming \cup Active \/ (pc \in Stopping /\ ret = "arm")
  => Ticks(interval_ms) \in 1..MaxCount

\* The counter is armed while it stands still, with nothing left of earlier sleeps.
ArmsFromQuiet ==
  /\ pc \in {"count", "comp", "enable"} =>
       /\ ~enable /\ ~running
       /\ ~intflag /\ ~pending /\ ~rtcWakePending
  /\ pc \in {"comp", "enable"} => count = 0
  /\ pc = "enable" => comp = Ticks(interval_ms)

\* Before the match nothing claims that it has come ...
BeforeMatch ==
  /\ slept = count /\ isr = NoCause
  /\ ~pending /\ ~intflag /\ ~rtcWakePending

\* ... and afterwards the news is somewhere in the chain from the flag to the callback.
AfterMatch ==
  rtcWakePending \/ isr = CompareMatch \/ (pending /\ intflag)

CounterTells ==
  pc \in Active =>
    /\ comp = Ticks(interval_ms) /\ intenset /\ enable
    /\ slept <= comp => BeforeMatch
    /\ slept > comp => AfterMatch
    /\ isr = OtherCause => rtcWakePending

LoopReads ==
  /\ pc = "woken" => rtcWakePending
  /\ pc = "standby" => ~rtcWakePending

\* Stopping the counter does not undo the sleep.
SleptEnough ==
  pc = "awake" \/ (pc \in Stopping /\ ret = "return")
  => slept > Ticks(interval_ms)

IndInv ==
  /\ TypeOK /\ InterruptsHeld /\ CounterStops /\ IntervalFits /\ ArmsFromQuiet
  /\ CounterTells /\ LoopReads /\ SleptEnough /\ StoppedIsQuiet

--------------------------------------------------------------------------------
(* The conversion.                                                         *)

\* Rounding up loses nothing.
LEMMA TicksRoundsUp ==
  ASSUME NEW ms \in Intervals
  PROVE  Ticks(ms) \in Nat /\ Ticks(ms) * 1000 >= ms * ClockHz
<1>1. ms * ClockHz \in Nat
  BY PowerAssumption
<1> DEFINE product == ms * ClockHz
<1>2. (product + 999) \div 1000 \in Nat /\ ((product + 999) \div 1000) * 1000 >= product
  <2> HIDE DEF product
  <2>1. product \in Nat
    BY <1>1 DEF product
  <2> QED BY <2>1
<1> QED BY <1>2 DEF Ticks

--------------------------------------------------------------------------------
(* The invariant holds initially and every step keeps it.                  *)

\* After RTC_Initialize no sleep is under way.
LEMMA InitInv == Init => IndInv
<1> USE PowerAssumption
  DEF Init, Stopping, Arming, Active, Waiting, NoCause, CompareMatch, OtherCause
<1>1. Init => TypeOK
  <2> SUFFICES ASSUME Init PROVE TypeOK
    OBVIOUS
  <2>1. pc \in Locations /\ isr \in {NoCause, CompareMatch, OtherCause}
    BY DEF Locations
  <2>2. /\ comp \in 0..MaxCount \cup {InitialComp} /\ count \in 0..comp
        /\ slept \in 0..SleptCap
    OBVIOUS
  <2> QED BY ONLY Init, <2>1, <2>2 DEF Init, TypeOK
<1>2. Init => InterruptsHeld
  BY DEF InterruptsHeld
<1>3. Init => CounterStops
  BY DEF CounterStops
<1>4. Init => IntervalFits
  BY DEF IntervalFits
<1>5. Init => ArmsFromQuiet
  BY DEF ArmsFromQuiet
<1>6. Init => CounterTells
  BY DEF CounterTells, BeforeMatch, AfterMatch
<1>7. Init => LoopReads
  BY DEF LoopReads
<1>8. Init => SleptEnough
  BY DEF SleptEnough
<1>9. Init => StoppedIsQuiet
  BY DEF StoppedIsQuiet
<1> QED BY <1>1, <1>2, <1>3, <1>4, <1>5, <1>6, <1>7, <1>8, <1>9 DEF IndInv

\* No step of the program, of the handler or of the counter breaks it.
LEMMA NextInv == IndInv /\ [Next]_vars => IndInv'
<1> SUFFICES ASSUME IndInv, [Next]_vars PROVE IndInv'
  OBVIOUS
<1> USE PowerAssumption, TicksRoundsUp
  DEF Stopping, Arming, Active, Waiting, NoCause, CompareMatch, OtherCause,
      vars, codeVars, sleepVars, rtcVars,
      IndInv, TypeOK, Locations, InterruptsHeld, CounterStops, IntervalFits,
      ArmsFromQuiet, BeforeMatch, AfterMatch, CounterTells, LoopReads, SleptEnough,
      StoppedIsQuiet
<1>1. CASE Boot
  BY <1>1 DEF Boot, Running, Goto
<1>2. CASE StopWaits
  BY <1>2 DEF StopWaits, Running, Goto, SyncOk
<1>3. CASE StopDisables
  BY <1>3 DEF StopDisables, Running, Goto
<1>4. CASE StopSettles
  BY <1>4 DEF StopSettles, Running, Goto, SyncOk
<1>5. CASE StopClears
  <2> USE <1>5 DEF StopClears, Running, Goto, StopReturns
  <2>1. TypeOK'
    <3>1. /\ (comp \in 0..MaxCount \cup {InitialComp} /\ count \in 0..comp)'
          /\ (slept \in 0..SleptCap)'
      OBVIOUS
    <3>2. (pc \in Locations)'
      OBVIOUS
    <3> QED BY ONLY <1>5, <3>1, <3>2, IndInv
           DEF IndInv, TypeOK, NoCause, CompareMatch, OtherCause, vars, codeVars,
               sleepVars, rtcVars, StopClears, Running, Goto, StopReturns
  <2>2. InterruptsHeld'
    OBVIOUS
  <2>3. CounterStops'
    OBVIOUS
  <2>4. IntervalFits'
    OBVIOUS
  <2>5. ArmsFromQuiet'
    OBVIOUS
  <2>6. CounterTells'
    OBVIOUS
  <2>7. LoopReads'
    OBVIOUS
  <2>8. SleptEnough'
    OBVIOUS
  <2>9. StoppedIsQuiet'
    OBVIOUS
  <2> QED BY <2>1, <2>2, <2>3, <2>4, <2>5, <2>6, <2>7, <2>8, <2>9
<1>6. CASE StopFails
  <2> USE <1>6 DEF StopFails, Running, Goto, SyncFail, StopReturns
  <2>1. TypeOK'
    <3>1. /\ (comp \in 0..MaxCount \cup {InitialComp} /\ count \in 0..comp)'
          /\ (slept \in 0..SleptCap)'
      OBVIOUS
    <3>2. (pc \in Locations)'
      OBVIOUS
    <3> QED BY ONLY <1>6, <3>1, <3>2, IndInv
           DEF IndInv, TypeOK, NoCause, CompareMatch, OtherCause, vars, codeVars,
               sleepVars, rtcVars, StopFails, Running, Goto, SyncFail, StopReturns
  <2>2. InterruptsHeld'
    OBVIOUS
  <2>3. CounterStops'
    OBVIOUS
  <2>4. IntervalFits'
    OBVIOUS
  <2>5. ArmsFromQuiet'
    OBVIOUS
  <2>6. CounterTells'
    OBVIOUS
  <2>7. LoopReads'
    OBVIOUS
  <2>8. SleptEnough'
    OBVIOUS
  <2>9. StoppedIsQuiet'
    OBVIOUS
  <2> QED BY <2>1, <2>2, <2>3, <2>4, <2>5, <2>6, <2>7, <2>8, <2>9
<1>7. CASE Sleep
  BY <1>7 DEF Sleep, Running, Goto
<1>8. CASE Prepare
  <2> USE <1>8 DEF Prepare, Running, Goto
  <2>1. TypeOK'
    <3>1. /\ (comp \in 0..MaxCount \cup {InitialComp} /\ count \in 0..comp)'
          /\ (slept \in 0..SleptCap)'
      OBVIOUS
    <3>2. (pc \in Locations)'
      OBVIOUS
    <3> QED BY ONLY <1>8, <3>1, <3>2, IndInv
           DEF IndInv, TypeOK, NoCause, CompareMatch, OtherCause, vars, codeVars,
               sleepVars, rtcVars, Prepare, Running, Goto
  <2>2. InterruptsHeld'
    OBVIOUS
  <2>3. CounterStops'
    OBVIOUS
  <2>4. IntervalFits'
    OBVIOUS
  <2>5. ArmsFromQuiet'
    OBVIOUS
  <2>6. CounterTells'
    OBVIOUS
  <2>7. LoopReads'
    OBVIOUS
  <2>8. SleptEnough'
    OBVIOUS
  <2>9. StoppedIsQuiet'
    OBVIOUS
  <2> QED BY <2>1, <2>2, <2>3, <2>4, <2>5, <2>6, <2>7, <2>8, <2>9
<1>9. CASE ResetCount
  BY <1>9 DEF ResetCount, Running, Goto
<1>10. CASE SetCompare
  BY <1>10 DEF SetCompare, Running, Goto, SyncOk
<1>11. CASE Enable
  BY <1>11 DEF Enable, Running, Goto, SyncOk
<1>12. CASE Started
  BY <1>12 DEF Started, Running, Goto, SyncOk
<1>13. CASE ArmFails
  BY <1>13 DEF ArmFails, Running, Goto, SyncFail
<1>14. CASE Check
  BY <1>14 DEF Check, Running, Goto
<1>15. CASE Mask
  BY <1>15 DEF Mask, Running, Goto
<1>16. CASE Recheck
  BY <1>16 DEF Recheck, Running, Goto
<1>17. CASE WakeUp
  BY <1>17 DEF WakeUp, Goto
<1>18. CASE Restore
  BY <1>18 DEF Restore, Running, Goto
<1>19. CASE Woken
  BY <1>19 DEF Woken, Running, Goto
<1>20. CASE Work
  BY <1>20 DEF Work, Running, Goto
<1>21. CASE IsrReads
  <2> USE <1>21 DEF IsrReads
  <2>1. TypeOK'
    <3>1. /\ (comp \in 0..MaxCount \cup {InitialComp} /\ count \in 0..comp)'
          /\ (slept \in 0..SleptCap)'
      OBVIOUS
    <3>2. (pc \in Locations)'
      OBVIOUS
    <3> QED BY ONLY <1>21, <3>1, <3>2, IndInv
           DEF IndInv, TypeOK, NoCause, CompareMatch, OtherCause, vars, codeVars,
               sleepVars, rtcVars, IsrReads
  <2>2. InterruptsHeld'
    OBVIOUS
  <2>3. CounterStops'
    OBVIOUS
  <2>4. IntervalFits'
    OBVIOUS
  <2>5. ArmsFromQuiet'
    OBVIOUS
  <2>6. CounterTells'
    OBVIOUS
  <2>7. LoopReads'
    OBVIOUS
  <2>8. SleptEnough'
    OBVIOUS
  <2>9. StoppedIsQuiet'
    OBVIOUS
  <2> QED BY <2>1, <2>2, <2>3, <2>4, <2>5, <2>6, <2>7, <2>8, <2>9
<1>22. CASE IsrClears
  <2> USE <1>22 DEF IsrClears
  <2>1. TypeOK'
    <3>1. /\ (comp \in 0..MaxCount \cup {InitialComp} /\ count \in 0..comp)'
          /\ (slept \in 0..SleptCap)'
      OBVIOUS
    <3>2. (pc \in Locations)'
      OBVIOUS
    <3> QED BY ONLY <1>22, <3>1, <3>2, IndInv
           DEF IndInv, TypeOK, NoCause, CompareMatch, OtherCause, vars, codeVars,
               sleepVars, rtcVars, IsrClears
  <2>2. InterruptsHeld'
    OBVIOUS
  <2>3. CounterStops'
    OBVIOUS
  <2>4. IntervalFits'
    OBVIOUS
  <2>5. ArmsFromQuiet'
    OBVIOUS
  <2>6. CounterTells'
    OBVIOUS
  <2>7. LoopReads'
    OBVIOUS
  <2>8. SleptEnough'
    OBVIOUS
  <2>9. StoppedIsQuiet'
    OBVIOUS
  <2> QED BY <2>1, <2>2, <2>3, <2>4, <2>5, <2>6, <2>7, <2>8, <2>9
<1>23. CASE WakeUpEarly
  BY <1>23 DEF WakeUpEarly, Goto
<1>24. CASE RtcTick
  <2> USE <1>24 DEF RtcTick
  <2>1. TypeOK'
    <3>1. /\ (comp \in 0..MaxCount \cup {InitialComp} /\ count \in 0..comp)'
          /\ (slept \in 0..SleptCap)'
      OBVIOUS
    <3>2. (pc \in Locations)'
      OBVIOUS
    <3>3. (intflag \in BOOLEAN /\ pending \in BOOLEAN)'
      BY ONLY <1>24, IndInv, Zenon DEF RtcTick, IndInv, TypeOK
    <3> QED BY ONLY <1>24, <3>1, <3>2, <3>3, IndInv
           DEF IndInv, TypeOK, NoCause, CompareMatch, OtherCause, vars, codeVars,
               sleepVars, rtcVars, RtcTick
  <2>2. InterruptsHeld'
    OBVIOUS
  <2>3. CounterStops'
    OBVIOUS
  <2>4. IntervalFits'
    OBVIOUS
  <2>5. ArmsFromQuiet'
    OBVIOUS
  <2>6. CounterTells'
    OBVIOUS
  <2>7. LoopReads'
    OBVIOUS
  <2>8. SleptEnough'
    OBVIOUS
  <2>9. StoppedIsQuiet'
    OBVIOUS
  <2> QED BY <2>1, <2>2, <2>3, <2>4, <2>5, <2>6, <2>7, <2>8, <2>9
<1>25. CASE UNCHANGED vars
  BY <1>25
<1> QED BY <1>1, <1>2, <1>3, <1>4, <1>5, <1>6, <1>7, <1>8, <1>9, <1>10, <1>11,
           <1>12, <1>13, <1>14, <1>15, <1>16, <1>17, <1>18, <1>19, <1>20, <1>21,
           <1>22, <1>23, <1>24, <1>25 DEF Next, Program, Interrupt, Halted

\* IndInv is an invariant of every execution.
THEOREM PowerInvariance == Spec => []IndInv
  BY InitInv, NextInv, PTL DEF Spec

--------------------------------------------------------------------------------
(* What the invariant gives.                                               *)

\* The code, the counter and the handler keep their ranges; COUNT never passes COMP.
THEOREM PowerTypes == Spec => []TypeOK
<1>1. IndInv => TypeOK
  BY DEF IndInv
<1> QED BY <1>1, PowerInvariance, PTL

\* A sleep that reports success was as long as asked for, whatever the interval, the
\* clock and the width of the counter.
THEOREM SleepIsNeverShort == Spec => []NeverEarly
<1>1. IndInv => NeverEarly
  <2> SUFFICES ASSUME IndInv, pc = "awake"
               PROVE  (slept - 1) * 1000 >= interval_ms * ClockHz
    BY DEF NeverEarly
  <2> DEFINE ticks == Ticks(interval_ms)
             product == interval_ms * ClockHz
  <2>1. ticks \in Nat /\ ticks * 1000 >= product
    BY TicksRoundsUp DEF IndInv, TypeOK
  <2>2. slept > ticks /\ slept \in Nat
    BY PowerAssumption DEF IndInv, TypeOK, SleptEnough
  <2>3. product \in Nat
    BY PowerAssumption DEF IndInv, TypeOK
  <2> HIDE DEF ticks, product
  <2>4. (slept - 1) * 1000 >= product
    BY <2>1, <2>2, <2>3
  <2> QED BY <2>4 DEF product
<1> QED BY <1>1, PowerInvariance, PTL

\* Wherever the interrupt strikes, WFI is not reached or returns.
THEOREM WakeupIsNeverLost == Spec => []NoLostWakeup
<1>1. IndInv => NoLostWakeup
  BY PowerAssumption
  DEF IndInv, TypeOK, NoLostWakeup, CounterTells, AfterMatch, LoopReads,
      InterruptsHeld, Active, Waiting, NoCause, CompareMatch
<1> QED BY <1>1, PowerInvariance, PTL

\* No tick, flag or pending interrupt of one sleep is left for the next.
THEOREM CounterIsQuietBetweenSleeps == Spec => []StoppedIsQuiet
<1>1. IndInv => StoppedIsQuiet
  BY DEF IndInv
<1> QED BY <1>1, PowerInvariance, PTL
================================================================================
