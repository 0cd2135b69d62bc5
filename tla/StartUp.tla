-------------------------------- MODULE StartUp --------------------------------
(***************************************************************************)
(* From reset to the main loop: SYS_Initialize with the generated register *)
(* writes it calls (config/default), then LORA_APP_Initialize.             *)
(*                                                                         *)
(* What can go wrong is the order.  The processor runs from the clock it   *)
(* is changing, and from a flash that needs wait states at high speed.     *)
(* Writes to a peripheral without its clocks are lost.  An interrupt that  *)
(* is enabled too early finds a driver that is not initialised.  The RTC   *)
(* is on after any reset but that of the power supply: it may still run    *)
(* and flag a compare match of before.                                     *)
(***************************************************************************)
EXTENDS Integers

VARIABLES
  pc,                 \* the next step of the start-up
  waitStates,         \* NVMCTRL_CTRLB.RWS
  oscillators,        \* those that are enabled
  dfllReady,          \* PCLKSR.DFLLRDY
  cpuSources,         \* what may clock the processor: two while switching
  runStandby,         \* generator 1, of the RTC, goes on in Standby
  busClocks, coreClocks, initialised,   \* sets of peripherals
  rtc,                \* the RTC: running, compare flag, interrupt enabled
  nvic                \* the interrupts that are enabled
clockVars == <<oscillators, dfllReady, cpuSources, runStandby>>
gateVars  == <<busClocks, coreClocks>>
vars == <<pc, waitStates, clockVars, gateVars, initialised, rtc, nvic>>

OSC8M   == "OSC8M"
DFLL    == "DFLL48M"
RTC     == "RTC"
SERCOM1 == "SERCOM1"
SERCOM5 == "SERCOM5"
TC4     == "TC4"

Step(from, to) == pc = from /\ pc' = to

\* The registers of the peripheral do what is written to them.
Clocked(peripheral) == peripheral \in busClocks \cap coreClocks
Initialise(peripheral) ==
  initialised' = IF Clocked(peripheral) THEN initialised \cup {peripheral}
                                        ELSE initialised

--------------------------------------------------------------------------------
(* After a reset the processor runs on OSC8M, divided to 1 MHz.            *)

Init ==
  /\ pc = "flash" /\ waitStates = 0
  /\ oscillators = {OSC8M} /\ dfllReady = FALSE /\ cpuSources = {OSC8M}
  /\ runStandby = FALSE /\ busClocks = {RTC} /\ coreClocks = {} /\ initialised = {}
  /\ rtc \in [running : BOOLEAN, flag : BOOLEAN, interrupt : BOOLEAN]
  /\ nvic = {}

SetWaitStates(n, from, to) ==
  /\ Step(from, to) /\ waitStates' = n
  /\ UNCHANGED <<clockVars, gateVars, initialised, rtc, nvic>>

FlashForStartUp == SetWaitStates(3, "flash", "onDemand")

\* DFLL_Initialize: three times the ready flag is waited for.
DfllWrite(from, to) ==
  /\ Step(from, to) /\ dfllReady' = FALSE
  /\ oscillators' = IF from = "enable" THEN oscillators \cup {DFLL} ELSE oscillators
  /\ UNCHANGED <<waitStates, cpuSources, runStandby, gateVars, initialised, rtc, nvic>>

DfllWait(from, to) ==
  /\ Step(from, to) /\ dfllReady
  /\ UNCHANGED <<waitStates, clockVars, gateVars, initialised, rtc, nvic>>

\* Faulty variant: the processor is switched over without waiting for the DFLL.
DfllUnawaited ==
  \/ DfllWrite("onDemand", "awake")        \/ DfllWait("awake", "calibrate")
  \/ DfllWrite("calibrate", "calibrated")  \/ DfllWait("calibrated", "enable")
  \/ DfllWrite("enable", "generator1")

DfllInitialize ==
  \/ DfllWrite("onDemand", "awake")        \/ DfllWait("awake", "calibrate")
  \/ DfllWrite("calibrate", "calibrated")  \/ DfllWait("calibrated", "enable")
  \/ DfllWrite("enable", "enabled")        \/ DfllWait("enabled", "generator1")

\* GCLK1_Initialize: the RTC's clock, from the oscillator that is always on.
Generator1 ==
  /\ Step("generator1", "generator0") /\ runStandby' = TRUE
  /\ UNCHANGED <<waitStates, oscillators, dfllReady, cpuSources, gateVars,
                 initialised, rtc, nvic>>

\* GCLK0_Initialize: while the generator synchronises, either source may drive it.
Generator0 ==
  /\ Step("generator0", "synchronising") /\ cpuSources' = cpuSources \cup {DFLL}
  /\ UNCHANGED <<waitStates, oscillators, dfllReady, runStandby, gateVars,
                 initialised, rtc, nvic>>

Generator0Synchronised ==
  /\ Step("synchronising", "gates") /\ cpuSources' = {DFLL}
  /\ UNCHANGED <<waitStates, oscillators, dfllReady, runStandby, gateVars,
                 initialised, rtc, nvic>>

\* CLOCK_Initialize: the clocks of the peripherals; PM_APBCMASK is overwritten.
OpenGates ==
  /\ Step("gates", "osc8m")
  /\ coreClocks' = {RTC, SERCOM1, SERCOM5} /\ busClocks' = {RTC, SERCOM1, SERCOM5}
  /\ UNCHANGED <<waitStates, clockVars, initialised, rtc, nvic>>

DisableOsc8M ==
  /\ Step("osc8m", "nvmctrl") /\ oscillators' = oscillators \ {OSC8M}
  /\ UNCHANGED <<waitStates, dfllReady, cpuSources, runStandby, gateVars,
                 initialised, rtc, nvic>>

\* NVMCTRL_Initialize
FlashForRunning == SetWaitStates(1, "nvmctrl", "sercom1")

--------------------------------------------------------------------------------
(* The drivers and the interrupts.                                         *)

SercomInitialize(peripheral, from, to) ==
  /\ Step(from, to) /\ Initialise(peripheral)
  /\ UNCHANGED <<waitStates, clockVars, gateVars, rtc, nvic>>

\* Faulty variant: the mode is set without the software reset before it.
RtcConfigureOnly ==
  /\ Step("rtcReset", "rtcConfigure")
  /\ UNCHANGED <<waitStates, clockVars, gateVars, initialised, rtc, nvic>>

\* RTC_Initialize: a software reset ends what ran before ...
RtcReset ==
  /\ Step("rtcReset", "rtcConfigure")
  /\ rtc' = IF Clocked(RTC)
            THEN [running |-> FALSE, flag |-> FALSE, interrupt |-> FALSE] ELSE rtc
  /\ UNCHANGED <<waitStates, clockVars, gateVars, initialised, nvic>>

\* ... then mode, compare value and interrupt, with the counter off.
RtcConfigure ==
  /\ Step("rtcConfigure", "nvic") /\ Initialise(RTC)
  /\ rtc' = [rtc EXCEPT !.interrupt = TRUE]
  /\ UNCHANGED <<waitStates, clockVars, gateVars, nvic>>

NvicInitialize ==
  /\ Step("nvic", "timer") /\ nvic' = {RTC, SERCOM1, SERCOM5}
  /\ UNCHANGED <<waitStates, clockVars, gateVars, initialised, rtc>>

\* LORA_APP_TIME_Initialize: every wait of its own may run out.
TimerInitialize ==
  /\ pc = "timer"
  /\ busClocks' = busClocks \cup {TC4} /\ coreClocks' = coreClocks \cup {TC4}
  /\ \/ pc' = "power" /\ initialised' = initialised \cup {TC4}
     \/ pc' = "failed" /\ UNCHANGED initialised
  /\ UNCHANGED <<waitStates, clockVars, rtc, nvic>>

\* NODE_POWER_Initialize asks that NVIC_Initialize has enabled the RTC's interrupt
\* and stops the counter; a clock that does not synchronise fails it before or after.
PowerInitialize ==
  /\ pc = "power"
  /\ LET stopped == [rtc EXCEPT !.running = FALSE, !.interrupt = FALSE]
     IN \/ RTC \in nvic /\ pc' = "radio" /\ rtc' = [stopped EXCEPT !.flag = FALSE]
        \/ pc' = "failed" /\ rtc' \in {rtc, stopped}
  /\ UNCHANGED <<waitStates, clockVars, gateVars, initialised, nvic>>

\* The radio answers with its version, or does not.
RadioInitialize ==
  /\ pc = "radio" /\ pc' \in {"ready", "failed"}
  /\ UNCHANGED <<waitStates, clockVars, gateVars, initialised, rtc, nvic>>

\* LORA_APP_Tasks after a failure: Standby, with nothing left to end it.
Halt ==
  /\ Step("failed", "halted") /\ nvic' = {}
  /\ UNCHANGED <<waitStates, clockVars, gateVars, initialised, rtc>>

Ended == pc \in {"ready", "halted"} /\ UNCHANGED vars

--------------------------------------------------------------------------------
(* The oscillator settles; a running RTC reaches its compare value.        *)

DfllSettles ==
  /\ ~dfllReady /\ dfllReady' = TRUE
  /\ UNCHANGED <<pc, waitStates, oscillators, cpuSources, runStandby, gateVars,
                 initialised, rtc, nvic>>

RtcMatches ==
  /\ rtc.running /\ ~rtc.flag /\ rtc' = [rtc EXCEPT !.flag = TRUE]
  /\ UNCHANGED <<pc, waitStates, clockVars, gateVars, initialised, nvic>>

Next ==
  \/ FlashForStartUp \/ DfllInitialize \/ Generator1 \/ Generator0
  \/ Generator0Synchronised \/ OpenGates \/ DisableOsc8M \/ FlashForRunning
  \/ SercomInitialize(SERCOM1, "sercom1", "sercom5")
  \/ SercomInitialize(SERCOM5, "sercom5", "rtcReset")
  \/ RtcReset \/ RtcConfigure \/ NvicInitialize
  \/ TimerInitialize \/ PowerInitialize \/ RadioInitialize \/ Halt \/ Ended
  \/ DfllSettles \/ RtcMatches

Spec == Init /\ [][Next]_vars
--------------------------------------------------------------------------------
(* Correctness.                                                            *)

\* At no moment of the switch is the processor without a clock, or faster than the
\* flash: none needs to wait at 1 MHz, one wait state is needed at 48 MHz.
CpuKeepsItsClock ==
  \A source \in cpuSources :
    /\ source \in oscillators
    /\ source = DFLL => dfllReady /\ waitStates >= 1

\* No interrupt is enabled whose driver is not initialised, nor is one waiting that
\* was caused before the reset; and a node that goes to work can time, send, log and
\* wake up again.
StartsInOrder ==
  /\ nvic \subseteq initialised
  /\ RTC \in nvic => ~rtc.flag
  /\ pc = "ready" => /\ initialised = {RTC, SERCOM1, SERCOM5, TC4} /\ runStandby
                     /\ nvic = {RTC, SERCOM1, SERCOM5}
================================================================================
