----------------------------- MODULE AppTimeProofs -----------------------------
(***************************************************************************)
(* Proofs that the active-time milliseconds are exact for every counter    *)
(* width and every rate, and of the order of the start-up before them.     *)
(***************************************************************************)
EXTENDS MCAppTime, TLAPS

--------------------------------------------------------------------------------
(* Quotients and remainders.                                               *)

\* What a quotient and a remainder add up to.
LEMMA Division ==
  ASSUME NEW m \in Nat \ {0}, NEW a \in Nat
  PROVE  /\ a \div m \in Nat /\ a % m \in 0..(m - 1)
         /\ a = m * (a \div m) + (a % m)
  OBVIOUS

\* A decomposition with a remainder in range is the division.
LEMMA DivisionIsUnique ==
  ASSUME NEW m \in Nat \ {0}, NEW n \in Nat, NEW q \in Nat, NEW r \in 0..(m - 1),
         n = m * q + r
  PROVE  n \div m = q /\ n % m = r
  OBVIOUS

\* One call of NowMs: the time a up to the last call and the time e since then, in
\* units of 1/m, divide like their sum if the remainder of a is carried over.
LEMMA CarriedDivision ==
  ASSUME NEW m \in Nat \ {0}, NEW a \in Nat, NEW e \in Nat
  PROVE  /\ (a + e) \div m = (a \div m) + ((e + (a % m)) \div m)
         /\ (a + e) % m = (e + (a % m)) % m
<1>1. PICK q \in Nat, r \in 0..(m - 1) :
        q = a \div m /\ r = a % m /\ a = m * q + r
  BY Division
<1>2. e + r \in Nat
  OBVIOUS
<1>3. PICK p \in Nat, s \in 0..(m - 1) :
        p = (e + r) \div m /\ s = (e + r) % m /\ e + r = m * p + s
  BY <1>2, Division
<1>4. a + e = m * (q + p) + s
  <2>1. m * (q + p) = m * q + m * p /\ m * q \in Nat /\ m * p \in Nat
    OBVIOUS
  <2>2. a = m * q + r /\ e + r = m * p + s
    BY <1>1, <1>3
  <2> DEFINE x == m * q
             y == m * p
             z == m * (q + p)
  <2>3. z = x + y /\ x \in Nat /\ y \in Nat /\ a = x + r /\ e + r = y + s
    BY <2>1, <2>2
  <2>4. a + e = z + s
    <3> HIDE DEF x, y, z
    <3> QED BY <2>3
  <2> QED BY <2>4
<1>5. a + e \in Nat /\ q + p \in Nat
  OBVIOUS
<1>6. (a + e) \div m = q + p /\ (a + e) % m = s
  BY <1>4, <1>5, DivisionIsUnique
<1> QED BY <1>1, <1>3, <1>6

\* The remainder of a sum needs only the remainder of a summand.
LEMMA RemainderOfSum ==
  ASSUME NEW m \in Nat \ {0}, NEW a \in Nat, NEW b \in Nat
  PROVE  ((a % m) + b) % m = (a + b) % m
<1>1. (a + b) % m = (b + (a % m)) % m
  BY CarriedDivision
<1>2. b + (a % m) = (a % m) + b
  BY Division
<1> QED BY <1>1, <1>2

--------------------------------------------------------------------------------
(* The invariant.                                                          *)

\* The counter starts with nothing counted and no time elapsed.
LEMMA Initially == Init => IndInv
<1> SUFFICES ASSUME Init PROVE IndInv
  OBVIOUS
<1> USE TimeAssumption
<1>1. TypeOK
  BY DEF Init, TypeOK
<1>2. CountFollowsTotal
  BY DEF Init, CountFollowsTotal, Elapsed
<1>3. TimeIsExact
  <2>1. 0 * MsPerSecond = 0
    OBVIOUS
  <2>2. 0 \div CountsPerSecond = 0 /\ 0 % CountsPerSecond = 0 /\ 0 % MsMod = 0
    OBVIOUS
  <2> QED BY <2>1, <2>2 DEF Init, TimeIsExact
<1> QED BY <1>1, <1>2, <1>3 DEF IndInv

\* A count of the hardware counter, wrapping or not.
LEMMA CountKeeps == IndInv /\ Count => IndInv'
<1> SUFFICES ASSUME IndInv, Count PROVE IndInv'
  OBVIOUS
<1> USE TimeAssumption
<1>1. TypeOK'
  BY DEF IndInv, TypeOK, Count, timeVars
<1>2. CountFollowsTotal'
  <2>1. Elapsed = IF count >= loraTimeLastCount THEN count - loraTimeLastCount
                  ELSE count - loraTimeLastCount + CountMod
    BY DEF IndInv, TypeOK, Elapsed
  <2>2. count' = IF count = CountMod - 1 THEN 0 ELSE count + 1
    BY DEF IndInv, TypeOK, Count
  <2>3. Elapsed' = IF count' >= loraTimeLastCount THEN count' - loraTimeLastCount
                   ELSE count' - loraTimeLastCount + CountMod
    BY <1>1 DEF IndInv, TypeOK, Elapsed, Count, timeVars
  <2> QED
    BY <2>1, <2>2, <2>3 DEF IndInv, TypeOK, Count, timeVars, CountFollowsTotal
<1>3. TimeIsExact'
  BY DEF IndInv, Count, timeVars, TimeIsExact
<1> QED BY <1>1, <1>2, <1>3 DEF IndInv

\* A call of LORA_APP_TIME_NowMs.
LEMMA NowMsKeeps == IndInv /\ NowMs => IndInv'
<1> SUFFICES ASSUME IndInv, NowMs PROVE IndInv'
  OBVIOUS
<1> USE TimeAssumption
<1> DEFINE a == lastTotal * MsPerSecond
           e == Elapsed * MsPerSecond
<1>1. /\ lastTotal \in Nat /\ total \in Nat
      /\ Elapsed \in Nat /\ total = lastTotal + Elapsed
  BY DEF IndInv, TypeOK, CountFollowsTotal
<1>2. a \in Nat /\ e \in Nat /\ total * MsPerSecond = a + e
  BY <1>1
<1>3. Scaled = e + (a % CountsPerSecond)
  BY <1>2 DEF IndInv, TimeIsExact, Scaled
<1>4. /\ Scaled \in Nat /\ Scaled \div CountsPerSecond \in Nat
      /\ Scaled % CountsPerSecond \in 0..(CountsPerSecond - 1)
  <2>1. a % CountsPerSecond \in Nat
    BY <1>2, Division
  <2>2. Scaled \in Nat
    BY <1>2, <1>3, <2>1
  <2> QED BY <2>2, Division
<1>5. /\ (a + e) \div CountsPerSecond
           = (a \div CountsPerSecond) + (Scaled \div CountsPerSecond)
      /\ (a + e) % CountsPerSecond = Scaled % CountsPerSecond
  <2> HIDE DEF a, e
  <2> QED BY <1>2, <1>3, CarriedDivision
<1>6. a \div CountsPerSecond \in Nat
  BY <1>2, Division
<1>7. (loraTimeMs + Scaled \div CountsPerSecond) % MsMod
        = ((a + e) \div CountsPerSecond) % MsMod
  <2>1. loraTimeMs = (a \div CountsPerSecond) % MsMod
    BY DEF IndInv, TimeIsExact
  <2> HIDE DEF a, e
  <2> QED BY <2>1, <1>4, <1>5, <1>6, RemainderOfSum
<1>8. TimeIsExact'
  BY <1>2, <1>5, <1>7 DEF NowMs, TimeIsExact
<1>9. TypeOK'
  <2>1. loraTimeMs' \in 0..(MsMod - 1)
    BY <1>4 DEF NowMs, IndInv, TypeOK
  <2>2. loraTimeRemainder' \in 0..(CountsPerSecond - 1)
    BY <1>4 DEF NowMs
  <2> QED BY <1>1, <2>1, <2>2 DEF NowMs, IndInv, TypeOK
<1>10. CountFollowsTotal'
  BY <1>1 DEF NowMs, IndInv, TypeOK, CountFollowsTotal, Elapsed
<1> QED BY <1>8, <1>9, <1>10 DEF IndInv

\* A step of either, or none.
LEMMA NextKeeps == IndInv /\ [Next]_vars => IndInv'
<1> SUFFICES ASSUME IndInv, [Next]_vars PROVE IndInv'
  OBVIOUS
<1>1. CASE NowMs
  BY <1>1, NowMsKeeps
<1>2. CASE Count
  BY <1>2, CountKeeps
<1>3. CASE UNCHANGED vars
  BY <1>3
     DEF vars, timeVars, IndInv, TypeOK, CountFollowsTotal, Elapsed, TimeIsExact
<1> QED BY <1>1, <1>2, <1>3 DEF Next

\* The invariant holds in every reachable state.
THEOREM TimeInvariance == Spec => []IndInv
  BY Initially, NextKeeps, PTL DEF Spec

\* For every width of the two counters and every rate, the milliseconds that
\* LORA_APP_TIME_NowMs returns are the exact elapsed time rounded down.
THEOREM TimeNeverDrifts == Spec => []TimeIsExact
BY TimeInvariance, PTL DEF IndInv

\* For every width, the wrap of the hardware counter between two calls is harmless.
THEOREM WrapIsHarmless == Spec => []CountFollowsTotal
BY TimeInvariance, PTL DEF IndInv

--------------------------------------------------------------------------------
(* The start-up: its inductive invariant.                                  *)

\* The steps while the processor runs on OSC8M, those after the DFLL has settled,
\* those after the gates are open and those after the RTC has been reset.
OnOsc8M ==
  {"flash", "onDemand", "awake", "calibrate", "calibrated", "enable", "enabled",
   "generator1", "generator0"}
AfterReset ==
  {"rtcConfigure", "nvic", "timer", "power", "radio", "ready", "failed", "halted"}
Gated   == {"osc8m", "nvmctrl", "sercom1", "sercom5", "rtcReset"} \cup AfterReset
Settled == {"generator1", "generator0", "synchronising", "gates"} \cup Gated

\* The flash waits from the first step on; each source is on while it is used.
ClocksInOrder ==
  /\ pc \in OnOsc8M \cup Settled
  /\ waitStates \in Nat
  /\ pc # "flash" => waitStates >= 1
  /\ pc \in OnOsc8M \cup {"synchronising", "gates", "osc8m"}
       => Boot!OSC8M \in oscillators
  /\ pc \in Settled \cup {"enabled"} => Boot!DFLL \in oscillators
  /\ pc \in Settled => dfllReady
  /\ pc \in OnOsc8M => cpuSources = {Boot!OSC8M}
  /\ pc = "synchronising" => cpuSources \subseteq {Boot!OSC8M, Boot!DFLL}
  /\ pc \in Gated \cup {"gates"} => cpuSources = {Boot!DFLL}
  /\ pc \in Settled \ {"generator1"} => runStandby

\* A driver is initialised with its clocks running, and before its interrupt.
DriversInOrder ==
  /\ pc \in Gated
       => {Boot!RTC, Boot!SERCOM1, Boot!SERCOM5} \subseteq busClocks \cap coreClocks
  /\ initialised \subseteq {Boot!RTC, Boot!SERCOM1, Boot!SERCOM5, Boot!TC4}
  /\ pc \in {"sercom5", "rtcReset"} \cup AfterReset => Boot!SERCOM1 \in initialised
  /\ pc \in {"rtcReset"} \cup AfterReset => Boot!SERCOM5 \in initialised
  /\ pc \in AfterReset \ {"rtcConfigure"} => Boot!RTC \in initialised
  /\ pc \in {"power", "radio", "ready"} => Boot!TC4 \in initialised
  /\ nvic = IF pc \in {"timer", "power", "radio", "ready", "failed"}
            THEN {Boot!RTC, Boot!SERCOM1, Boot!SERCOM5} ELSE {}

\* After its reset the RTC neither runs nor has anything to tell.
RtcIsReset ==
  /\ rtc \in [running : BOOLEAN, flag : BOOLEAN, interrupt : BOOLEAN]
  /\ pc \in AfterReset => ~rtc.running /\ ~rtc.flag

BootInv == ClocksInOrder /\ DriversInOrder /\ RtcIsReset

\* After a reset the processor runs on OSC8M and no interrupt is enabled.
LEMMA BootInitially == Boot!Init => BootInv
  BY DEF Boot!Init, BootInv, ClocksInOrder, DriversInOrder, RtcIsReset, OnOsc8M,
         Settled, Gated, AfterReset, Boot!OSC8M, Boot!DFLL, Boot!RTC, Boot!SERCOM1,
         Boot!SERCOM5, Boot!TC4

\* No step of the start-up, of the oscillator or of the RTC breaks it.
LEMMA BootKeeps == BootInv /\ [Boot!Next]_bootVars => BootInv'
<1> SUFFICES ASSUME BootInv, [Boot!Next]_bootVars PROVE BootInv'
  OBVIOUS
<1> USE DEF BootInv, ClocksInOrder, DriversInOrder, RtcIsReset, OnOsc8M, Settled, Gated,
            AfterReset, Boot!OSC8M, Boot!DFLL, Boot!RTC, Boot!SERCOM1, Boot!SERCOM5,
            Boot!TC4, Boot!clockVars, Boot!gateVars, Boot!Step
<1>1. CASE Boot!FlashForStartUp
  <2> USE <1>1 DEF Boot!FlashForStartUp, Boot!SetWaitStates
  <2>1. ClocksInOrder'
    OBVIOUS
  <2>2. DriversInOrder'
    OBVIOUS
  <2>3. RtcIsReset'
    OBVIOUS
  <2> QED BY <2>1, <2>2, <2>3
<1>2. CASE Boot!DfllInitialize
  <2> USE <1>2 DEF Boot!DfllInitialize, Boot!DfllWrite, Boot!DfllWait
  <2>1. ClocksInOrder'
    OBVIOUS
  <2>2. DriversInOrder'
    OBVIOUS
  <2>3. RtcIsReset'
    OBVIOUS
  <2> QED BY <2>1, <2>2, <2>3
<1>3. CASE Boot!Generator1
  <2> USE <1>3 DEF Boot!Generator1
  <2>1. ClocksInOrder'
    OBVIOUS
  <2>2. DriversInOrder'
    OBVIOUS
  <2>3. RtcIsReset'
    OBVIOUS
  <2> QED BY <2>1, <2>2, <2>3
<1>4. CASE Boot!Generator0
  <2> USE <1>4 DEF Boot!Generator0
  <2>1. ClocksInOrder'
    OBVIOUS
  <2>2. DriversInOrder'
    OBVIOUS
  <2>3. RtcIsReset'
    OBVIOUS
  <2> QED BY <2>1, <2>2, <2>3
<1>5. CASE Boot!Generator0Synchronised
  <2> USE <1>5 DEF Boot!Generator0Synchronised
  <2>1. ClocksInOrder'
    OBVIOUS
  <2>2. DriversInOrder'
    OBVIOUS
  <2>3. RtcIsReset'
    OBVIOUS
  <2> QED BY <2>1, <2>2, <2>3
<1>6. CASE Boot!OpenGates
  <2> USE <1>6 DEF Boot!OpenGates
  <2>1. ClocksInOrder'
    OBVIOUS
  <2>2. DriversInOrder'
    OBVIOUS
  <2>3. RtcIsReset'
    OBVIOUS
  <2> QED BY <2>1, <2>2, <2>3
<1>7. CASE Boot!DisableOsc8M
  <2> USE <1>7 DEF Boot!DisableOsc8M
  <2>1. ClocksInOrder'
    OBVIOUS
  <2>2. DriversInOrder'
    OBVIOUS
  <2>3. RtcIsReset'
    OBVIOUS
  <2> QED BY <2>1, <2>2, <2>3
<1>8. CASE Boot!FlashForRunning
  <2> USE <1>8 DEF Boot!FlashForRunning, Boot!SetWaitStates
  <2>1. ClocksInOrder'
    OBVIOUS
  <2>2. DriversInOrder'
    OBVIOUS
  <2>3. RtcIsReset'
    OBVIOUS
  <2> QED BY <2>1, <2>2, <2>3
<1>9. CASE Boot!SercomInitialize(Boot!SERCOM1, "sercom1", "sercom5")
  <2> USE <1>9 DEF Boot!SercomInitialize, Boot!Initialise, Boot!Clocked
  <2>1. ClocksInOrder'
    OBVIOUS
  <2>2. DriversInOrder'
    OBVIOUS
  <2>3. RtcIsReset'
    OBVIOUS
  <2> QED BY <2>1, <2>2, <2>3
<1>10. CASE Boot!SercomInitialize(Boot!SERCOM5, "sercom5", "rtcReset")
  <2> USE <1>10 DEF Boot!SercomInitialize, Boot!Initialise, Boot!Clocked
  <2>1. ClocksInOrder'
    OBVIOUS
  <2>2. DriversInOrder'
    OBVIOUS
  <2>3. RtcIsReset'
    OBVIOUS
  <2> QED BY <2>1, <2>2, <2>3
<1>11. CASE Boot!RtcReset
  <2> USE <1>11 DEF Boot!RtcReset, Boot!Clocked
  <2>1. ClocksInOrder'
    OBVIOUS
  <2>2. DriversInOrder'
    OBVIOUS
  <2>3. RtcIsReset'
    OBVIOUS
  <2> QED BY <2>1, <2>2, <2>3
<1>12. CASE Boot!RtcConfigure
  <2> USE <1>12 DEF Boot!RtcConfigure, Boot!Initialise, Boot!Clocked
  <2>1. ClocksInOrder'
    OBVIOUS
  <2>2. DriversInOrder'
    OBVIOUS
  <2>3. RtcIsReset'
    OBVIOUS
  <2> QED BY <2>1, <2>2, <2>3
<1>13. CASE Boot!NvicInitialize
  <2> USE <1>13 DEF Boot!NvicInitialize
  <2>1. ClocksInOrder'
    OBVIOUS
  <2>2. DriversInOrder'
    OBVIOUS
  <2>3. RtcIsReset'
    OBVIOUS
  <2> QED BY <2>1, <2>2, <2>3
<1>14. CASE Boot!TimerInitialize
  <2> USE <1>14 DEF Boot!TimerInitialize
  <2>1. ClocksInOrder'
    OBVIOUS
  <2>2. DriversInOrder'
    OBVIOUS
  <2>3. RtcIsReset'
    OBVIOUS
  <2> QED BY <2>1, <2>2, <2>3
<1>15. CASE Boot!PowerInitialize
  <2> USE <1>15 DEF Boot!PowerInitialize
  <2>1. ClocksInOrder'
    OBVIOUS
  <2>2. DriversInOrder'
    OBVIOUS
  <2>3. RtcIsReset'
    OBVIOUS
  <2> QED BY <2>1, <2>2, <2>3
<1>16. CASE Boot!RadioInitialize
  <2> USE <1>16 DEF Boot!RadioInitialize
  <2>1. ClocksInOrder'
    OBVIOUS
  <2>2. DriversInOrder'
    OBVIOUS
  <2>3. RtcIsReset'
    OBVIOUS
  <2> QED BY <2>1, <2>2, <2>3
<1>17. CASE Boot!Halt
  <2> USE <1>17 DEF Boot!Halt
  <2>1. ClocksInOrder'
    OBVIOUS
  <2>2. DriversInOrder'
    OBVIOUS
  <2>3. RtcIsReset'
    OBVIOUS
  <2> QED BY <2>1, <2>2, <2>3
<1>18. CASE Boot!DfllSettles
  <2> USE <1>18 DEF Boot!DfllSettles
  <2>1. ClocksInOrder'
    OBVIOUS
  <2>2. DriversInOrder'
    OBVIOUS
  <2>3. RtcIsReset'
    OBVIOUS
  <2> QED BY <2>1, <2>2, <2>3
<1>19. CASE Boot!RtcMatches
  <2> USE <1>19 DEF Boot!RtcMatches
  <2>1. ClocksInOrder'
    OBVIOUS
  <2>2. DriversInOrder'
    OBVIOUS
  <2>3. RtcIsReset'
    OBVIOUS
  <2> QED BY <2>1, <2>2, <2>3
<1>20. CASE UNCHANGED bootVars
  BY <1>20 DEF bootVars
<1>21. CASE Boot!Ended
  BY <1>21 DEF Boot!Ended, Boot!vars
<1> QED BY <1>1, <1>2, <1>3, <1>4, <1>5, <1>6, <1>7, <1>8, <1>9, <1>10, <1>11,
           <1>12, <1>13, <1>14, <1>15, <1>16, <1>17, <1>18, <1>19, <1>20,
           <1>21 DEF Boot!Next

\* The start-up's invariant and that of the time, from reset on.
THEOREM BootInvariance == BootThenTime => [](BootInv /\ IndInv)
<1>1. BootThenTimeInit => BootInv /\ IndInv
  BY BootInitially, Initially DEF BootThenTimeInit
<1>2. BootInv /\ IndInv /\ [BootThenTimeNext]_<<vars, bootVars>> => (BootInv /\ IndInv)'
  <2> SUFFICES ASSUME BootInv, IndInv, [BootThenTimeNext]_<<vars, bootVars>>
               PROVE  BootInv' /\ IndInv'
    OBVIOUS
  <2>1. [Boot!Next]_bootVars /\ [Next]_vars
    BY DEF BootThenTimeNext, Next
  <2> QED BY <2>1, BootKeeps, NextKeeps
<1> QED BY <1>1, <1>2, PTL DEF BootThenTime

\* The processor is never without a clock and never outruns its flash.
THEOREM ClockIsNeverLost == BootThenTime => []CpuKeepsItsClock
<1>1. BootInv => CpuKeepsItsClock
  <2> SUFFICES ASSUME BootInv, NEW source \in cpuSources
               PROVE  /\ source \in oscillators
                      /\ source = Boot!DFLL => dfllReady /\ waitStates >= 1
    BY DEF CpuKeepsItsClock, Boot!CpuKeepsItsClock
  <2> USE DEF BootInv, ClocksInOrder, OnOsc8M, Settled, Gated, AfterReset, Boot!OSC8M,
              Boot!DFLL
  <2>1. CASE pc \in OnOsc8M
    BY <2>1
  <2>2. CASE pc \in Settled /\ pc \notin OnOsc8M
    <3>1. Boot!DFLL \in oscillators /\ dfllReady /\ waitStates >= 1
      BY <2>2
    <3>2. \/ source = Boot!DFLL
          \/ source = Boot!OSC8M /\ Boot!OSC8M \in oscillators
      BY <2>2
    <3> QED BY ONLY <3>1, <3>2 DEF Boot!OSC8M, Boot!DFLL
  <2> QED BY <2>1, <2>2
<1> QED BY <1>1, BootInvariance, PTL

\* No interrupt comes before its driver, and none is left over from before a reset.
THEOREM InterruptsStartInOrder == BootThenTime => []StartsInOrder
<1>1. BootInv => StartsInOrder
  <2> SUFFICES ASSUME BootInv PROVE Boot!StartsInOrder
    BY DEF StartsInOrder
  <2> USE DEF BootInv, DriversInOrder, AfterReset
  <2>1. nvic \subseteq initialised
    OBVIOUS
  <2>2. Boot!RTC \in nvic => ~rtc.flag
    BY DEF RtcIsReset
  <2>3. pc = "ready" =>
          /\ initialised = {Boot!RTC, Boot!SERCOM1, Boot!SERCOM5, Boot!TC4} /\ runStandby
          /\ nvic = {Boot!RTC, Boot!SERCOM1, Boot!SERCOM5}
    BY DEF ClocksInOrder, Settled, Gated
  <2> QED BY <2>1, <2>2, <2>3 DEF Boot!StartsInOrder
<1> QED BY <1>1, BootInvariance, PTL

\* The milliseconds are exact from reset on.
THEOREM TimeIsExactFromBoot == BootThenTime => []TimeIsExact
<1>1. IndInv => TimeIsExact
  BY DEF IndInv
<1> QED BY <1>1, BootInvariance, PTL
================================================================================
