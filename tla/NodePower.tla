------------------------------- MODULE NodePower -------------------------------
(***************************************************************************)
(* The RTC-timed sleep (app/node_power.c): the code of NODE_POWER_Sleep,   *)
(* one step per register access that another party can see, the RTC        *)
(* counter, the NVIC and the RTC interrupt handler that preempts the code. *)
(*                                                                         *)
(* pc is the next step of the main program and ret the place NODE_POWER_   *)
(* StopRtc was called from.  A write to CTRL takes effect some time before *)
(* the synchronisation wait that follows it ends: enable is the bit that   *)
(* was written, running the state of the counter, and the counter may tick *)
(* while either is set.  A wait that never ends is a clock that stopped.   *)
(*                                                                         *)
(* slept is history: the ticks of the counter since it was last enabled.   *)
(***************************************************************************)
EXTENDS Integers

CONSTANTS
  Intervals,    \* the intervals, in milliseconds, the caller may ask for
  ClockHz,      \* NODE_POWER_CLOCK_HZ
  MaxCount,     \* UINT32_MAX
  InitialComp,  \* RTC_Initialize leaves this in COMP
  SleptCap      \* slept counts no further than this

ASSUME PowerAssumption ==
  /\ Intervals \subseteq Nat /\ ClockHz \in Nat
  /\ MaxCount \in Nat /\ InitialComp \in Nat /\ SleptCap \in Nat
  /\ MaxCount < SleptCap

VARIABLES
  pc, ret, powerReady,
  interval_ms,                         \* the interval asked for
  rtcWakePending,
  primask,                             \* interrupts are masked
  enable, running, count, comp,        \* the RTC: CTRL.ENABLE, COUNT, COMP
  intenset, intflag,                   \* compare-match interrupt
  pending,                             \* the NVIC's pending bit of the RTC
  isr,                                 \* what the handler is about
  slept

sleepVars == <<powerReady, interval_ms, rtcWakePending>>
codeVars  == <<pc, ret, sleepVars, primask>>
rtcVars   == <<enable, running, count, comp, intenset, intflag, pending>>
vars      == <<codeVars, rtcVars, isr, slept>>

Stopping  == {"stop", "disable", "stopped", "clear"}
Arming    == {"count", "comp", "enable", "started"}
Locations ==
  Stopping \cup Arming \cup {"boot", "idle", "prepare", "check", "mask", "recheck",
                             "standby", "restore", "woken", "awake", "failed"}

NoCause      == "none"
CompareMatch == "compare"
OtherCause   == "nothing"

TypeOK ==
  /\ pc \in Locations /\ ret \in {"boot", "arm", "abort", "return"}
  /\ powerReady \in BOOLEAN /\ interval_ms \in Intervals
  /\ rtcWakePending \in BOOLEAN /\ primask \in BOOLEAN
  /\ enable \in BOOLEAN /\ running \in BOOLEAN
  /\ comp \in 0..MaxCount \cup {InitialComp} /\ count \in 0..comp
  /\ intenset \in BOOLEAN /\ intflag \in BOOLEAN /\ pending \in BOOLEAN
  /\ isr \in {NoCause, CompareMatch, OtherCause}
  /\ slept \in 0..SleptCap

\* After RTC_Initialize; NODE_POWER_Initialize comes next.
Init ==
  /\ pc = "boot" /\ ret = "boot" /\ powerReady = FALSE
  /\ interval_ms \in Intervals /\ rtcWakePending = FALSE /\ primask = FALSE
  /\ enable = FALSE /\ running = FALSE /\ count = 0 /\ comp = InitialComp
  /\ intenset = TRUE /\ intflag = FALSE /\ pending = FALSE
  /\ isr = NoCause /\ slept = 0

--------------------------------------------------------------------------------
(* The main program.                                                       *)

\* The core takes a pending interrupt before the next step, unless masked.
Running(location) ==
  pc = location /\ isr = NoCause /\ (primask \/ ~pending)

Goto(location) == pc' = location

\* NODE_POWER_WaitRtcSync: the synchronisation ends, or the attempts run out.
SyncOk   == running' = enable
SyncFail == running' = running

\* NODE_POWER_Initialize masks the interrupts and stops the counter.
Boot ==
  /\ Running("boot") /\ Goto("stop") /\ ret' = "boot" /\ primask' = TRUE
  /\ UNCHANGED <<sleepVars, rtcVars, isr, slept>>

\* NODE_POWER_StopRtc, from its first wait to its return.
StopWaits ==
  /\ Running("stop") /\ SyncOk /\ Goto("disable")
  /\ UNCHANGED <<ret, sleepVars, primask, enable, count,
                 comp, intenset, intflag, pending, isr, slept>>

StopDisables ==
  /\ Running("disable") /\ Goto("stopped")
  /\ intenset' = FALSE /\ enable' = FALSE
  /\ UNCHANGED <<ret, sleepVars, primask, running, count,
                 comp, intflag, pending, isr, slept>>

StopSettles ==
  /\ Running("stopped") /\ SyncOk /\ Goto("clear")
  /\ UNCHANGED <<ret, sleepVars, primask, enable, count,
                 comp, intenset, intflag, pending, isr, slept>>

\* NODE_POWER_StopRtc has returned ok to ret: its caller goes on.
StopReturns(ok) ==
  /\ powerReady' = (ok /\ ret # "abort")
  /\ rtcWakePending' = IF ret \in {"boot", "arm"} THEN FALSE ELSE rtcWakePending
  /\ primask' = (ok /\ ret = "arm")
  /\ \/ ret = "arm" /\ ~ok /\ Goto("stop") /\ ret' = "abort"
     \/ (ret = "abort" \/ (ret # "arm" /\ ~ok)) /\ Goto("failed") /\ ret' = ret
     \/ ret = "boot" /\ ok /\ Goto("idle") /\ ret' = ret
     \/ ret = "arm" /\ ok /\ Goto("count") /\ ret' = ret
     \/ ret = "return" /\ ok /\ Goto("awake") /\ ret' = ret

\* Faulty variant: only the NVIC's bit is cleared.
StopClearsPending ==
  /\ Running("clear") /\ pending' = FALSE
  /\ StopReturns(TRUE)
  /\ UNCHANGED <<interval_ms, enable, running, count, comp, intenset, intflag,
                 isr, slept>>

StopClears ==
  /\ Running("clear") /\ intflag' = FALSE /\ pending' = FALSE
  /\ StopReturns(TRUE)
  /\ UNCHANGED <<interval_ms, enable, running, count, comp, intenset, isr, slept>>

\* Either wait of NODE_POWER_StopRtc runs out; it writes nothing more.
StopFails ==
  /\ Running("stop") \/ Running("stopped")
  /\ SyncFail /\ StopReturns(FALSE)
  /\ UNCHANGED <<interval_ms, enable, count, comp, intenset, intflag, pending,
                 isr, slept>>

\* Faulty variant: the conversion rounds down.
TicksRoundedDown(ms) == (ms * ClockHz) \div 1000

\* Milliseconds in RTC ticks, rounded up.
Ticks(ms) == (ms * ClockHz + 999) \div 1000

\* NODE_POWER_Sleep is called from the idle application.
Sleep ==
  /\ Running("idle") /\ interval_ms' \in Intervals
  /\ Goto(IF powerReady /\ Ticks(interval_ms') \in 1..MaxCount
          THEN "prepare" ELSE "failed")
  /\ UNCHANGED <<ret, powerReady, rtcWakePending, primask, rtcVars, isr, slept>>

\* The UART is drained and the radio sleeps, or one of them does not.
Prepare ==
  /\ Running("prepare")
  /\ \/ Goto("stop") /\ ret' = "arm" /\ primask' = TRUE /\ UNCHANGED powerReady
     \/ Goto("failed") /\ powerReady' = FALSE /\ UNCHANGED <<ret, primask>>
  /\ UNCHANGED <<interval_ms, rtcWakePending, rtcVars, isr, slept>>

\* Faulty variant: the count is not reset.
KeepCount ==
  /\ Running("count") /\ Goto("comp")
  /\ UNCHANGED <<ret, sleepVars, primask, rtcVars, isr, slept>>

ResetCount ==
  /\ Running("count") /\ count' = 0 /\ Goto("comp")
  /\ UNCHANGED <<ret, sleepVars, primask, enable, running,
                 comp, intenset, intflag, pending, isr, slept>>

SetCompare ==
  /\ Running("comp") /\ SyncOk /\ comp' = Ticks(interval_ms) /\ Goto("enable")
  /\ UNCHANGED <<ret, sleepVars, primask, enable, count,
                 intenset, intflag, pending, isr, slept>>

\* Faulty variant: the interrupt, disabled by the stop, is not enabled again.
EnableWithoutInterrupt ==
  /\ Running("enable") /\ SyncOk /\ Goto("started")
  /\ enable' = TRUE /\ slept' = 0
  /\ UNCHANGED <<ret, sleepVars, primask, count, comp,
                 intenset, intflag, pending, isr>>

\* INTENSET and CTRL.ENABLE; a compare flag that is already up fires at once.
Enable ==
  /\ Running("enable") /\ SyncOk /\ Goto("started")
  /\ intenset' = TRUE /\ enable' = TRUE /\ slept' = 0
  /\ pending' = (pending \/ intflag)
  /\ UNCHANGED <<ret, sleepVars, primask, count, comp,
                 intflag, isr>>

\* The last wait of the arming, then NVIC_INT_Restore.
Started ==
  /\ Running("started") /\ SyncOk /\ Goto("check") /\ primask' = FALSE
  /\ UNCHANGED <<ret, sleepVars, enable, count, comp,
                 intenset, intflag, pending, isr, slept>>

\* One of the three waits of the arming runs out: interrupts on, one more stop.
ArmFails ==
  /\ \E location \in {"comp", "enable", "started"} : Running(location)
  /\ SyncFail /\ powerReady' = FALSE /\ primask' = FALSE
  /\ Goto("stop") /\ ret' = "abort"
  /\ UNCHANGED <<interval_ms, rtcWakePending, enable, count, comp, intenset, intflag,
                 pending, isr, slept>>

\* while (!rtcWakePending), with interrupts on ...
Check ==
  /\ Running("check") /\ Goto(IF rtcWakePending THEN "woken" ELSE "mask")
  /\ UNCHANGED <<ret, sleepVars, primask, rtcVars, isr, slept>>

Mask ==
  /\ Running("mask") /\ Goto("recheck") /\ primask' = TRUE
  /\ UNCHANGED <<ret, sleepVars, rtcVars, isr, slept>>

\* Faulty variant: the masked second look at the flag is left out.
SleepAtOnce ==
  /\ Running("recheck") /\ Goto("standby")
  /\ UNCHANGED <<ret, sleepVars, primask, rtcVars, isr, slept>>

\* ... and once more with interrupts off, before WFI.
Recheck ==
  /\ Running("recheck")
  /\ Goto(IF rtcWakePending THEN "restore" ELSE "standby")
  /\ UNCHANGED <<ret, sleepVars, primask, rtcVars, isr, slept>>

\* WFI ends when the RTC interrupt is pending, masked or not.
WakeUp ==
  /\ pc = "standby" /\ pending /\ Goto("restore")
  /\ UNCHANGED <<ret, sleepVars, primask, rtcVars, isr, slept>>

\* Another interrupt ends it as well.
WakeUpEarly ==
  /\ pc = "standby" /\ Goto("restore")
  /\ UNCHANGED <<ret, sleepVars, primask, rtcVars, isr, slept>>

Restore ==
  /\ Running("restore") /\ Goto("check") /\ primask' = FALSE
  /\ UNCHANGED <<ret, sleepVars, rtcVars, isr, slept>>

\* The compare match was seen: the counter is stopped for good.
Woken ==
  /\ Running("woken") /\ Goto("stop") /\ ret' = "return" /\ primask' = TRUE
  /\ UNCHANGED <<sleepVars, rtcVars, isr, slept>>

\* Sleep has returned true: a transaction runs, then the next sleep.
Work ==
  /\ Running("awake") /\ Goto("idle")
  /\ UNCHANGED <<ret, sleepVars, primask, rtcVars, isr, slept>>

--------------------------------------------------------------------------------
(* The counter and its interrupt.                                          *)

\* A clock edge: one after the match, COUNT is cleared and the flag goes up.
RtcTick ==
  /\ enable \/ running
  /\ slept' = IF slept < SleptCap THEN slept + 1 ELSE slept
  /\ \/ count # comp /\ count' = count + 1 /\ UNCHANGED <<intflag, pending>>
     \/ count = comp /\ count' = 0 /\ intflag' = TRUE
        /\ pending' = (pending \/ intenset)
  /\ UNCHANGED <<codeVars, enable, running, comp, intenset, isr>>

\* RTC_InterruptHandler: the cause is read ...
IsrReads ==
  /\ isr = NoCause /\ pending /\ ~primask
  /\ isr' = IF intflag THEN CompareMatch ELSE OtherCause
  /\ pending' = FALSE
  /\ UNCHANGED <<codeVars, enable, running, count, comp, intenset, intflag, slept>>

\* ... the flags are cleared, and NODE_POWER_RtcCallback looks at the cause.
IsrClears ==
  /\ isr # NoCause /\ isr' = NoCause
  /\ intflag' = FALSE
  /\ rtcWakePending' = (rtcWakePending \/ isr = CompareMatch)
  /\ UNCHANGED <<pc, ret, powerReady, interval_ms, primask, enable, running, count,
                 comp, intenset, pending, slept>>

--------------------------------------------------------------------------------
Program ==
  \/ Boot \/ StopWaits \/ StopDisables \/ StopSettles \/ StopClears \/ StopFails
  \/ Sleep \/ Prepare \/ ResetCount \/ SetCompare \/ Enable \/ Started \/ ArmFails
  \/ Check \/ Mask \/ Recheck \/ WakeUp \/ Restore \/ Woken \/ Work

Interrupt == IsrReads \/ IsrClears

\* After a failure LORA_APP_Tasks stops the node.
Halted == pc = "failed" /\ UNCHANGED vars

Next == Program \/ Interrupt \/ WakeUpEarly \/ RtcTick \/ Halted

\* The core executes and takes its interrupts; an enabled counter counts.  A tick
\* lasts thousands of core cycles, so the handler is not re-entered for ever and
\* cannot starve the program.
Fairness ==
  /\ SF_vars(Program) /\ WF_vars(Interrupt) /\ WF_vars(RtcTick)
  /\ []<>(isr = NoCause /\ (primask \/ ~pending))

Spec == Init /\ [][Next]_vars /\ Fairness
--------------------------------------------------------------------------------
(* Correctness.                                                            *)

\* A sleep that reports success lasted as long as was asked for, the first tick not
\* counted because it may come at once: no rounding, no compare match,
\* pending interrupt or flag of an earlier sleep, and no interrupt of another
\* device, ends it early.
NeverEarly ==
  pc = "awake" => (slept - 1) * 1000 >= interval_ms * ClockHz

\* The core never enters Standby when the compare match it waits for has come and
\* gone: whenever the interrupt strikes, WFI either is not reached or returns.
NoLostWakeup ==
  pc = "standby" => ~rtcWakePending /\ (pending \/ slept <= comp)

\* Between two sleeps the counter stands still and nothing is left that could
\* interrupt the transaction or be taken for the next wake-up.
StoppedIsQuiet ==
  pc \in {"awake", "idle", "prepare"} =>
    /\ ~enable /\ ~running /\ ~intenset
    /\ ~intflag /\ ~pending /\ isr = NoCause

\* Every sleep that begins ends, by its compare match or by a failure.
EverySleepEnds == pc = "prepare" ~> pc \in {"awake", "failed"}
================================================================================
