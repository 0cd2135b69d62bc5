------------------------------ MODULE SampleProofs ------------------------------
(***************************************************************************)
(* Proofs about the way of a sample: Dht11, which reads it from the        *)
(* sensor, for every timing that meets the assumptions, and NodePacket,    *)
(* which carries it to the gateway, for every message and every damage     *)
(* that a CRC notices.                                                     *)
(***************************************************************************)
EXTENDS Dht11, NodePacket, SequenceTheorems, FiniteSetTheorems, WellFoundedInduction, TLAPS

--------------------------------------------------------------------------------
(* Induction and recursion.  A definition by recursion is a CHOOSE: that it has *)
(* the values its equations say is a theorem.                                   *)

\* A set of numbers has a least one.
LEMMA LeastNat ==
  ASSUME NEW S, S \subseteq Nat, S # {}
  PROVE  \E n \in S : \A m \in S : n <= m
<1>1. PICK n \in S : \A m \in S : <<m, n>> \notin OpToRel(<, Nat)
  BY WFMin, NatLessThanWellFounded
<1>2. \A m \in S : ~(m < n)
  BY <1>1, Zenon DEF OpToRel
<1>3. n \in Nat /\ \A m \in S : m \in Nat
  OBVIOUS
<1>4. \A m \in S : n <= m
  BY <1>2, <1>3
<1> QED
  BY <1>4

\* Induction over the members of a set: S is what the step keeps true.
LEMMA Induction ==
  ASSUME NEW S, 0 \in S, \A n \in Nat : n \in S => n + 1 \in S
  PROVE  \A n \in Nat : n \in S
<1> SUFFICES ASSUME Nat \ S # {} PROVE FALSE
  OBVIOUS
<1>1. PICK n \in Nat \ S : \A m \in Nat \ S : n <= m
  BY LeastNat
<1>2. n # 0 /\ n \in Nat
  OBVIOUS
<1>3. n - 1 \in Nat /\ ~(n <= n - 1) /\ (n - 1) + 1 = n
  BY <1>2
<1>4. n - 1 \in S
  BY <1>1, <1>3
<1>5. (n - 1) + 1 \in S
  BY <1>3, <1>4
<1> QED
  BY <1>3, <1>5

\* The N steps of a recursion through S, each told its number, and the function
\* that they compute.
Steps(N, S) == [(1..N) \X S -> S]

Follows(f, N, S, start, step) ==
  /\ f \in [0..N -> S] /\ f[0] = start
  /\ \A n \in 1..N : f[n] = step[<<n, f[n - 1]>>]

\* There is such a function.
LEMMA Recursion ==
  ASSUME NEW N \in Nat, NEW S, NEW start \in S, NEW step \in Steps(N, S)
  PROVE  \E f : Follows(f, N, S, start, step)
<1> USE DEF Steps
<1> DEFINE Defined(k, f) ==
      \A n \in 0..k : f[n] = IF n = 0 THEN start ELSE step[<<n, f[n - 1]>>]
    D == { k \in Nat : k <= N => \E f \in [0..k -> S] : Defined(k, f) }
<1>1. 0 \in D
  <2>1. Defined(0, [n \in 0..0 |-> start])
    OBVIOUS
  <2> QED
    BY <2>1
<1>2. ASSUME NEW k \in Nat, k \in D PROVE k + 1 \in D
  <2> SUFFICES ASSUME k + 1 <= N PROVE \E f \in [0..(k + 1) -> S] : Defined(k + 1, f)
    OBVIOUS
  <2>1. PICK f \in [0..k -> S] : Defined(k, f)
    BY <1>2
  <2>2. k + 1 \in 1..N /\ f[k] \in S
    OBVIOUS
  <2> DEFINE g == [n \in 0..(k + 1) |-> IF n = k + 1 THEN step[<<k + 1, f[k]>>] ELSE f[n]]
  <2>3. g \in [0..(k + 1) -> S]
    BY <2>2
  <2>4. \A n \in 0..k : g[n] = f[n]
    OBVIOUS
  <2>5. g[k + 1] = step[<<k + 1, f[k]>>]
    OBVIOUS
  <2> HIDE DEF g
  <2>6. ASSUME NEW n \in 0..(k + 1)
        PROVE  g[n] = IF n = 0 THEN start ELSE step[<<n, g[n - 1]>>]
    <3>1. CASE n = k + 1
      BY <2>4, <2>5, <3>1
    <3>2. CASE n # k + 1
      <4>1. n \in 0..k /\ (n # 0 => n - 1 \in 0..k)
        BY <3>2
      <4>2. f[n] = IF n = 0 THEN start ELSE step[<<n, f[n - 1]>>]
        BY <2>1, <4>1
      <4> QED
        BY <2>4, <4>1, <4>2
    <3> QED
      BY <3>1, <3>2
  <2> QED
    BY <2>3, <2>6
<1> HIDE DEF D
<1>3. N \in D
  BY <1>1, <1>2, Induction
<1>4. PICK f \in [0..N -> S] : Defined(N, f)
  BY <1>3 DEF D
<1>5. f[0] = start
  <2>1. 0 \in 0..N
    OBVIOUS
  <2> QED
    BY <1>4, <2>1
<1>6. ASSUME NEW n \in 1..N PROVE f[n] = step[<<n, f[n - 1]>>]
  <2>1. n \in 0..N /\ n # 0
    OBVIOUS
  <2> QED
    BY <1>4, <2>1
<1> QED
  BY <1>5, <1>6 DEF Follows

\* A recursion stays in a set that its steps do not leave.
LEMMA StaysIn ==
  ASSUME NEW N \in Nat, NEW S, NEW f, f[0] \in S,
         \A n \in 1..N : f[n - 1] \in S => f[n] \in S
  PROVE  \A n \in 0..N : f[n] \in S
<1> DEFINE Fine == { n \in Nat : n <= N => f[n] \in S }
<1>1. 0 \in Fine
  OBVIOUS
<1>2. ASSUME NEW n \in Nat, n \in Fine PROVE n + 1 \in Fine
  <2> SUFFICES ASSUME n + 1 <= N PROVE f[n + 1] \in S
    OBVIOUS
  <2>1. n + 1 \in 1..N /\ (n + 1) - 1 = n /\ f[n] \in S
    BY <1>2
  <2> QED
    BY <2>1
<1> HIDE DEF Fine
<1>3. \A n \in Nat : n \in Fine
  BY <1>1, <1>2, Induction
<1> QED
  BY <1>3 DEF Fine

--------------------------------------------------------------------------------
(* A reading of the sensor: the inductive invariant.                       *)

Phases == {"delay", "responseLow", "responseHigh", "low", "high", "last", "off"}

ReadingTypeOK ==
  /\ pc \in {"idle", "started", "sample", "done"} \cup Waits /\ phase \in Phases
  /\ delay \in Nat /\ timeout_cnt \in Nat /\ left \in Nat
  /\ bits \in Seq(0..1) /\ bitsSent \in 0..TotalBits /\ word \in Words
  /\ alive \in BOOLEAN

\* Bits come after the response, and there are so many of them.
BitsInOrder ==
  /\ phase \in {"delay", "responseLow", "responseHigh"} => bitsSent = 0
  /\ phase \in {"low", "high"} => bitsSent < TotalBits

\* The loops' own bounds: a round at most, and counted from nothing.
LoopsBounded ==
  /\ pc \in Waits => delay <= Round
  /\ pc \notin Waits => timeout_cnt = 0

\* The line will be looked at while the present pulse, of this length at most, lasts.
SeenInTime(length) == delay < left /\ left <= length

\* A loop has waited since this pulse began, and no longer.
Counted(length) == timeout_cnt + left <= length + delay

Pulses(bit) == IF bit = 1 THEN {OnePulse} ELSE ZeroPulses

AfterBit == phase = IF bitsSent = TotalBits THEN "last" ELSE "low"

InTimeStarted ==
  \/ /\ phase = "delay" /\ delay < left + ResponsePulse
     /\ \E d \in ResponseDelays : left <= d
  \/ phase = "responseLow" /\ SeenInTime(ResponsePulse)

InTimeLow ==
  \/ phase = "delay" /\ \E d \in ResponseDelays : Counted(d)
  \/ /\ phase = "responseLow" /\ SeenInTime(ResponsePulse)
     /\ timeout_cnt < RESPONSE_WAIT

InTimeResponse ==
  \/ phase = "responseLow" /\ Counted(ResponsePulse)
  \/ phase = "responseHigh" /\ SeenInTime(ResponsePulse) /\ timeout_cnt <= ResponsePulse + Round

InTimePulse ==
  \/ phase = "responseHigh" /\ Counted(ResponsePulse)
  \/ phase = "low" /\ SeenInTime(BitLow) /\ timeout_cnt <= ResponsePulse + Round

InTimeBitLow ==
  /\ bitsSent = Len(bits) /\ Len(bits) < TotalBits
  /\ \/ phase = "low" /\ Counted(BitLow)
     \/ /\ phase = "high" /\ timeout_cnt <= BitLow + Round
        /\ \E length \in Pulses(word[bitsSent + 1]) :
             left <= length /\ length + delay <= left + Round

InTimeSample ==
  \/ /\ phase = "high" /\ bitsSent = Len(bits) /\ Len(bits) < TotalBits
     /\ \/ word[bitsSent + 1] = 1 /\ SeenInTime(OnePulse)
        \/ word[bitsSent + 1] = 0 /\ left < delay /\ delay < left + BitLow
  \/ /\ AfterBit /\ bitsSent = Len(bits) + 1 /\ word[bitsSent] = 0 /\ SeenInTime(BitLow)

InTimeBitHigh ==
  \/ phase = "high" /\ bitsSent + 1 = Len(bits) /\ Counted(OnePulse)
  \/ /\ AfterBit /\ bitsSent = Len(bits) /\ SeenInTime(BitLow)
     /\ timeout_cnt <= OnePulse + Round

\* Where a sensor that keeps its timing is, seen from the driver.
InTime ==
  /\ pc \in {"started", "low", "response", "pulse"} => bits = << >> /\ bitsSent = 0
  /\ pc = "started" => InTimeStarted
  /\ pc = "low" => InTimeLow
  /\ pc = "response" => InTimeResponse
  /\ pc = "pulse" => InTimePulse
  /\ pc = "bitLow" => InTimeBitLow
  /\ pc = "sample" => InTimeSample
  /\ pc = "bitHigh" => InTimeBitHigh

Right == Len(bits) <= TotalBits /\ \A i \in 1..Len(bits) : bits[i] = word[i]

\* The bits are the sensor's.  A line frozen high may have spoiled the last one, but
\* then the loop that follows runs out.
BitsRight ==
  /\ alive => Right
  /\ pc = "sample" /\ ~LineIsHigh => Right /\ Len(bits) < TotalBits /\ word[Len(bits) + 1] = 0
  /\ pc = "bitHigh" /\ ~LineIsHigh => Right

\* How a reading ended.
Concluded ==
  pc = "done" =>
    \/ ~alive /\ result = ReadFailed
    \/ /\ data = ParseData(word)
       /\ result = IF data.is_valid THEN Converted(data) ELSE ReadFailed

ReadingInv ==
  ReadingTypeOK /\ BitsInOrder /\ LoopsBounded /\ (alive => InTime) /\ BitsRight /\ Concluded

--------------------------------------------------------------------------------
(* The constants.                                                          *)

LEMMA Times ==
  /\ Round \in Nat /\ 1 <= Round /\ Jitter \in Nat /\ Round = 1 + Jitter
  /\ START_HIGH \in Nat /\ BIT_THRESHOLD \in Nat /\ RESPONSE_WAIT \in Nat
  /\ TIMEOUT \in Nat
  /\ ResponsePulse \in Nat /\ Round < ResponsePulse /\ ResponsePulse + Round < TIMEOUT
  /\ BitLow \in Nat /\ Round < BitLow /\ BitLow + Round < TIMEOUT
  /\ OnePulse \in Nat /\ Round < OnePulse /\ OnePulse + Round < TIMEOUT
  /\ Round + BIT_THRESHOLD + Jitter < OnePulse
<1>1. Round \in Nat /\ 1 <= Round /\ Jitter \in Nat /\ Round = 1 + Jitter
  BY SensorAssumption DEF Round
<1>2. {ResponsePulse, BitLow, OnePulse} \subseteq Nat
  BY SensorAssumption
<1> QED
  BY <1>1, <1>2, SensorAssumption, TimingAssumption DEF TimesFit

LEMMA DelayTimes ==
  \A d \in ResponseDelays :
    d \in Nat /\ START_HIGH + Jitter < d + ResponsePulse /\ d + Round < RESPONSE_WAIT
BY SensorAssumption, TimingAssumption DEF TimesFit

LEMMA ZeroTimes ==
  \A z \in ZeroPulses :
    /\ z \in Nat /\ Round < z /\ z < BIT_THRESHOLD
    /\ Round + BIT_THRESHOLD + Jitter < z + BitLow
BY SensorAssumption, TimingAssumption DEF TimesFit

LEMMA BitCount == TotalBits \in Nat /\ 1 <= TotalBits /\ TotalBits = 5 * ByteBits
BY SensorAssumption DEF TotalBits

LEMMA WordBits ==
  ASSUME NEW w \in Words
  PROVE  w \in [1..TotalBits -> 0..1] /\ \A i \in 1..TotalBits : w[i] = 0 \/ w[i] = 1
<1>1. w \in [1..TotalBits -> 0..1]
  BY SensorAssumption
<1> QED
  BY <1>1

--------------------------------------------------------------------------------
(* The steps of the sensor.                                                *)

LEMMA ReadingInitInv == ReadingInit => ReadingInv
<1> SUFFICES ASSUME ReadingInit PROVE ReadingInv
  OBVIOUS
<1>1. ReadingTypeOK
  BY BitCount DEF ReadingInit, ReadingTypeOK, Phases
<1>2. LoopsBounded /\ Concluded /\ BitsInOrder
  BY DEF BitsInOrder, ReadingInit, LoopsBounded, Waits, Concluded
<1>3. InTime
  BY DEF ReadingInit, InTime
<1>4. BitsRight
  BY BitCount DEF ReadingInit, BitsRight, Right
<1> QED
  BY <1>1, <1>2, <1>3, <1>4 DEF ReadingInv

LEMMA DieKeepsInv == ReadingInv /\ Die => ReadingInv'
<1> SUFFICES ASSUME ReadingInv, Die PROVE ReadingInv'
  OBVIOUS
<1> USE DEF Die, driverVars
<1>1. ReadingTypeOK'
  BY DEF ReadingInv, ReadingTypeOK
<1>2. LoopsBounded' /\ BitsInOrder'
  BY DEF ReadingInv, LoopsBounded, BitsInOrder
<1>3. ~alive' /\ alive
  OBVIOUS
<1>4. BitsRight'
  BY <1>3 DEF ReadingInv, BitsRight, Right, LineIsHigh
<1>5. Concluded'
  BY <1>3 DEF ReadingInv, Concluded, ParseData, Converted
<1> QED
  BY <1>1, <1>2, <1>3, <1>4, <1>5 DEF ReadingInv

\* What a pulse does, with the strings out of the way.
LEMMA PulseKeepsInTime ==
  ASSUME ReadingInv, Pulse
  PROVE  InTime'
<1> USE DEF Pulse, Begin, driverVars
<1>1. /\ alive /\ left = 0 /\ delay \in Nat /\ timeout_cnt \in Nat /\ InTime
      /\ bits \in Seq(0..1) /\ bitsSent \in 0..TotalBits
      /\ UNCHANGED <<pc, delay, timeout_cnt, bits, word>>
  BY DEF ReadingInv, ReadingTypeOK
<1>2. pc \in Waits => delay <= Round
  BY DEF ReadingInv, LoopsBounded
<1>3. ~SeenInTime(ResponsePulse) /\ ~SeenInTime(BitLow) /\ ~SeenInTime(OnePulse)
  BY <1>1 DEF SeenInTime
<1>4. CASE pc = "started"
  <2>1. phase = "delay" /\ phase' = "responseLow" /\ left' = ResponsePulse
    BY <1>1, <1>3, <1>4 DEF InTime, InTimeStarted
  <2>2. InTimeStarted'
    BY <1>1, <1>3, <1>4, <2>1, Times DEF InTime, InTimeStarted, SeenInTime
  <2> QED
    BY <1>1, <1>4, <2>1, <2>2 DEF InTime
<1>5. CASE pc = "low"
  <2>1. phase = "delay" /\ phase' = "responseLow" /\ left' = ResponsePulse
    BY <1>1, <1>3, <1>5 DEF InTime, InTimeLow
  <2>2. PICK d \in ResponseDelays : Counted(d)
    BY <1>1, <1>3, <1>5, <2>1 DEF InTime, InTimeLow
  <2>3. timeout_cnt < RESPONSE_WAIT /\ delay <= Round
    BY <1>1, <1>2, <1>5, <2>2, DelayTimes, Times DEF Counted, Waits
  <2>4. InTimeLow'
    BY <1>1, <2>1, <2>3, Times DEF InTimeLow, SeenInTime
  <2> QED
    BY <1>1, <1>5, <2>1, <2>4 DEF InTime
<1>6. CASE pc = "response"
  <2>1. phase = "responseLow" /\ phase' = "responseHigh" /\ left' = ResponsePulse
    BY <1>1, <1>3, <1>6 DEF InTime, InTimeResponse
  <2>2. Counted(ResponsePulse) /\ delay <= Round
    BY <1>1, <1>2, <1>6, <2>1 DEF InTime, InTimeResponse, Waits
  <2>3. InTimeResponse'
    BY <1>1, <2>1, <2>2, Times DEF InTimeResponse, SeenInTime, Counted
  <2> QED
    BY <1>1, <1>6, <2>1, <2>3 DEF InTime
<1>7. CASE pc = "pulse"
  <2>1. phase = "responseHigh" /\ phase' = "low" /\ left' = BitLow
    BY <1>1, <1>3, <1>7 DEF InTime, InTimePulse
  <2>2. Counted(ResponsePulse) /\ delay <= Round
    BY <1>1, <1>2, <1>7, <2>1 DEF InTime, InTimePulse, Waits
  <2>3. InTimePulse'
    BY <1>1, <2>1, <2>2, Times DEF InTimePulse, SeenInTime, Counted
  <2> QED
    BY <1>1, <1>7, <2>1, <2>3 DEF InTime
<1>8. CASE pc = "bitLow"
  <2>1. delay <= Round
    BY <1>2, <1>8 DEF Waits
  <2>2. ASSUME NEW length \in Pulses(word[bitsSent + 1]), length + delay <= left + Round
        PROVE  FALSE
    <3>1. length \in Nat /\ Round < length
      BY Times, ZeroTimes DEF Pulses
    <3> QED
      BY <1>1, <2>2, <3>1, Times
  <2>3. phase = "low" /\ Counted(BitLow) /\ InTimeBitLow
    BY <1>1, <1>8, <2>2 DEF InTime, InTimeBitLow
  <2>4. PICK length \in Pulses(word[bitsSent + 1]) :
          phase' = "high" /\ left' = length /\ bitsSent' = bitsSent
    BY <1>8, <2>3 DEF Pulses
  <2>5. length \in Nat
    BY Times, ZeroTimes DEF Pulses
  <2>6. timeout_cnt <= BitLow + Round /\ left' <= length /\ length + delay <= left' + Round
    BY <1>1, <2>1, <2>3, <2>4, <2>5, Times DEF Counted
  <2>7. InTimeBitLow'
    BY <1>1, <2>3, <2>4, <2>6 DEF InTimeBitLow
  <2> QED
    BY <1>1, <1>8, <2>7 DEF InTime
<1>9. CASE pc = "sample"
  <2>1. /\ phase = "high" /\ bitsSent = Len(bits) /\ Len(bits) < TotalBits
        /\ word[bitsSent + 1] = 0 /\ delay < left + BitLow
    BY <1>1, <1>3, <1>9 DEF InTime, InTimeSample
  <2>2. /\ bitsSent' = bitsSent + 1 /\ left' = BitLow
        /\ phase' = IF bitsSent' = TotalBits THEN "last" ELSE "low"
    BY <2>1
  <2>3. SeenInTime(BitLow)'
    BY <1>1, <2>1, <2>2, Times DEF SeenInTime
  <2>4. InTimeSample'
    BY <1>1, <2>1, <2>2, <2>3 DEF InTimeSample, AfterBit
  <2> QED
    BY <1>1, <1>9, <2>4 DEF InTime
<1>10. CASE pc = "bitHigh"
  <2>1. phase = "high" /\ bitsSent + 1 = Len(bits) /\ Counted(OnePulse)
    BY <1>1, <1>3, <1>10 DEF InTime, InTimeBitHigh
  <2>2. /\ bitsSent' = bitsSent + 1 /\ left' = BitLow
        /\ phase' = IF bitsSent' = TotalBits THEN "last" ELSE "low"
    BY <2>1
  <2>3. delay <= Round
    BY <1>2, <1>10 DEF Waits
  <2>4. SeenInTime(BitLow)' /\ timeout_cnt <= OnePulse + Round
    BY <1>1, <2>1, <2>2, <2>3, Times DEF SeenInTime, Counted
  <2>5. InTimeBitHigh'
    BY <1>1, <2>1, <2>2, <2>4 DEF InTimeBitHigh, AfterBit
  <2> QED
    BY <1>1, <1>10, <2>5 DEF InTime
<1>11. CASE pc \in {"idle", "done"}
  BY <1>1, <1>11 DEF InTime
<1> QED
  BY <1>4, <1>5, <1>6, <1>7, <1>8, <1>9, <1>10, <1>11 DEF ReadingInv, ReadingTypeOK, Waits

LEMMA PulseKeepsType ==
  ASSUME ReadingInv, Pulse
  PROVE  ReadingTypeOK'
<1> USE DEF Pulse, Begin, driverVars
<1>1. UNCHANGED <<pc, delay, timeout_cnt, bits, word, alive>>
  OBVIOUS
<1>2. ReadingTypeOK /\ alive /\ left = 0 /\ InTime
  BY DEF ReadingInv
<1>3. phase' \in Phases
  BY DEF Phases
<1>4. left' \in Nat
  BY Times, ZeroTimes
<1>5. bitsSent' \in 0..TotalBits
  BY <1>2, BitCount DEF ReadingInv, ReadingTypeOK, BitsInOrder
<1> QED
  BY <1>1, <1>2, <1>3, <1>4, <1>5 DEF ReadingTypeOK

LEMMA BitsFromTime == ReadingTypeOK /\ alive /\ InTime /\ Right => BitsRight
<1> SUFFICES ASSUME ReadingTypeOK, alive, InTime, Right PROVE BitsRight
  OBVIOUS
<1>1. ASSUME pc = "sample", ~LineIsHigh
      PROVE  Len(bits) < TotalBits /\ word[Len(bits) + 1] = 0
  <2>1. bitsSent = Len(bits) + 1 /\ word[bitsSent] = 0
    BY <1>1 DEF InTime, InTimeSample, LineIsHigh
  <2> QED
    BY <2>1, BitCount DEF ReadingTypeOK
<1> QED
  BY <1>1 DEF BitsRight

LEMMA PulseKeepsInv == ReadingInv /\ Pulse => ReadingInv'
<1> SUFFICES ASSUME ReadingInv, Pulse PROVE ReadingInv'
  OBVIOUS
<1>1. InTime' /\ ReadingTypeOK'
  BY PulseKeepsInTime, PulseKeepsType
<1>2. UNCHANGED <<pc, delay, timeout_cnt, bits, data, result, word, alive>> /\ alive
  BY DEF Pulse, driverVars
<1>3. BitsInOrder'
  <2>1. BitsInOrder /\ bitsSent \in 0..TotalBits
    BY DEF ReadingInv, ReadingTypeOK
  <2> QED
    BY <2>1, BitCount DEF BitsInOrder, Pulse, Begin
<1>4. LoopsBounded' /\ Concluded'
  BY <1>2 DEF ReadingInv, LoopsBounded, Concluded, ParseData, Converted
<1>5. Right'
  BY <1>2 DEF ReadingInv, BitsRight, Right
<1>6. alive'
  BY <1>2
<1>7. BitsRight'
  BY <1>1, <1>5, <1>6, BitsFromTime, PTL
<1> QED
  BY <1>1, <1>3, <1>4, <1>7 DEF ReadingInv

\* Where time passes, what the two have left shrinks by the same.
LEMMA TickKeepsInTime ==
  ASSUME ReadingInv, Tick, alive
  PROVE  InTime'
<1>1. /\ delay \in Nat /\ timeout_cnt \in Nat /\ left \in Nat /\ InTime
      /\ bits \in Seq(0..1) /\ bitsSent \in 0..TotalBits
      /\ UNCHANGED <<pc, phase, timeout_cnt, bits, bitsSent, word>>
      /\ delay > 0 /\ delay' = delay - 1
  BY DEF ReadingInv, ReadingTypeOK, Tick
<1>2. CASE phase = "off"
  BY <1>1, <1>2 DEF InTime, InTimeStarted, InTimeLow, InTimeResponse, InTimePulse,
       InTimeBitLow, InTimeSample, InTimeBitHigh, AfterBit
<1>3. CASE phase # "off"
  <2>1. left > 0 /\ left' = left - 1
    BY <1>1, <1>3 DEF Tick
  <2>2. \A length \in Nat : SeenInTime(length) => SeenInTime(length)'
    BY <1>1, <2>1 DEF SeenInTime
  <2>3. \A length \in Nat : Counted(length) => Counted(length)'
    BY <1>1, <2>1 DEF Counted
  <2>4. InTimeStarted => InTimeStarted'
    BY <1>1, <2>1, <2>2, Times, DelayTimes DEF InTimeStarted
  <2>5. InTimeLow => InTimeLow'
    BY <1>1, <2>2, <2>3, Times, DelayTimes DEF InTimeLow
  <2>6. (InTimeResponse => InTimeResponse') /\ (InTimePulse => InTimePulse')
    BY <1>1, <2>2, <2>3, Times DEF InTimeResponse, InTimePulse
  <2>7. InTimeBitLow => InTimeBitLow'
    <3>1. \A length \in Pulses(word[bitsSent + 1]) : length \in Nat
      BY Times, ZeroTimes DEF Pulses
    <3> QED
      BY <1>1, <2>1, <2>3, <3>1, Times DEF InTimeBitLow
  <2>8. InTimeSample => InTimeSample'
    BY <1>1, <2>1, <2>2, Times DEF InTimeSample, AfterBit
  <2>9. InTimeBitHigh => InTimeBitHigh'
    BY <1>1, <2>2, <2>3, Times DEF InTimeBitHigh, AfterBit
  <2> QED
    BY <1>1, <2>4, <2>5, <2>6, <2>7, <2>8, <2>9 DEF InTime
<1> QED
  BY <1>2, <1>3

LEMMA TickKeepsInv == ReadingInv /\ Tick => ReadingInv'
<1> SUFFICES ASSUME ReadingInv, Tick PROVE ReadingInv'
  OBVIOUS
<1>1. UNCHANGED <<pc, timeout_cnt, bits, data, result, phase, bitsSent, word, alive>>
  BY DEF Tick
<1>2. ReadingTypeOK'
  <2>1. delay \in Nat /\ left \in Nat
    BY DEF ReadingInv, ReadingTypeOK
  <2>2. delay' \in Nat /\ left' \in Nat
    BY <2>1 DEF Tick
  <2> QED
    BY <1>1, <2>2 DEF ReadingInv, ReadingTypeOK
<1>3. LoopsBounded'
  <2>1. delay \in Nat /\ delay' = delay - 1
    BY DEF ReadingInv, ReadingTypeOK, Tick
  <2> QED
    BY <1>1, <2>1, Times DEF ReadingInv, LoopsBounded
<1>4. BitsInOrder' /\ Concluded'
  BY <1>1 DEF ReadingInv, BitsInOrder, Concluded, ParseData, Converted
<1>5. alive' => InTime'
  BY <1>1, TickKeepsInTime
<1>6. BitsRight'
  BY <1>1 DEF ReadingInv, BitsRight, Right, LineIsHigh
<1> QED
  BY <1>2, <1>3, <1>4, <1>5, <1>6 DEF ReadingInv

--------------------------------------------------------------------------------
(* The steps of the driver.                                                *)

\* The rest of the state of a driver's step.
LEMMA DriverKeepsOrder ==
  BitsInOrder /\ UNCHANGED sensorVars => BitsInOrder'
BY DEF BitsInOrder, sensorVars

LEMMA SendStartSignalKeepsInv == ReadingInv /\ SendStartSignal => ReadingInv'
<1> SUFFICES ASSUME ReadingInv, SendStartSignal PROVE ReadingInv'
  OBVIOUS
<1>1. /\ pc' = "started" /\ bits' = << >> /\ bitsSent' = 0 /\ UNCHANGED timeout_cnt
      /\ pc \in {"idle", "done"} /\ alive' \in BOOLEAN /\ word' \in Words
  BY DEF SendStartSignal
<1>2. delay' \in Nat /\ delay' <= START_HIGH + Jitter
  BY Times DEF SendStartSignal, Delay
<1>3. timeout_cnt' = 0
  BY <1>1 DEF ReadingInv, LoopsBounded, Waits
<1>4. left' \in Nat /\ phase' \in {"delay", "off", "last"}
  BY DelayTimes DEF SendStartSignal, Begin
<1>5. ReadingTypeOK' /\ LoopsBounded'
  <2>1. ReadingTypeOK'
    BY <1>1, <1>2, <1>3, <1>4, BitCount DEF ReadingTypeOK, Phases
  <2> QED
    BY <1>1, <1>3, <2>1 DEF LoopsBounded, Waits
<1>6. BitsInOrder' /\ Concluded'
  BY <1>1, <1>4 DEF BitsInOrder, Concluded
<1>7. ASSUME alive' PROVE InTime'
  <2>1. PICK d \in ResponseDelays : phase' = "delay" /\ left' = d
    BY <1>7 DEF SendStartSignal, Begin
  <2>2. InTimeStarted'
    BY <1>2, <2>1, DelayTimes, Times DEF InTimeStarted
  <2> QED
    BY <1>1, <2>2 DEF InTime
<1>8. BitsRight'
  <2>1. Right'
    BY <1>1, BitCount DEF Right
  <2> QED
    BY <1>1, <2>1 DEF BitsRight
<1> QED
  BY <1>5, <1>6, <1>7, <1>8 DEF ReadingInv

LEMMA StartedKeepsInv == ReadingInv /\ Started => ReadingInv'
<1> SUFFICES ASSUME ReadingInv, Started PROVE ReadingInv'
  OBVIOUS
<1> USE DEF Started, sensorVars
<1>1. timeout_cnt = 0 /\ delay = 0 /\ delay <= Round
  BY Times DEF ReadingInv, LoopsBounded, Waits
<1>2. ReadingTypeOK'
  BY DEF ReadingInv, ReadingTypeOK, Waits
<1>3. LoopsBounded' /\ Concluded' /\ BitsInOrder'
  BY <1>1, DriverKeepsOrder DEF ReadingInv, LoopsBounded, Concluded, Waits
<1>4. ASSUME alive' PROVE InTime'
  <2>1. InTimeStarted /\ bits = << >> /\ bitsSent = 0 /\ left \in Nat
    BY <1>4 DEF ReadingInv, ReadingTypeOK, InTime
  <2>2. InTimeLow'
    <3>1. CASE phase = "delay"
      BY <1>1, <2>1, <3>1, DelayTimes DEF InTimeStarted, InTimeLow, Counted
    <3>2. CASE phase # "delay"
      <4>1. phase = "responseLow" /\ SeenInTime(ResponsePulse)
        BY <2>1, <3>2 DEF InTimeStarted
      <4> QED
        BY <1>1, <4>1, SensorAssumption DEF InTimeLow, SeenInTime
    <3> QED
      BY <3>1, <3>2
  <2> QED
    BY <2>1, <2>2 DEF InTime
<1>5. BitsRight'
  BY DEF ReadingInv, BitsRight, Right
<1> QED
  BY <1>2, <1>3, <1>4, <1>5 DEF ReadingInv

\* While the sensor keeps its timing no loop gives up.
LEMMA NeverTimesOut ==
  ASSUME ReadingInv, alive, pc \in Waits, delay = 0
  PROVE  ~TimedOut
<1>1. timeout_cnt \in Nat /\ left \in Nat /\ InTime
  BY DEF ReadingInv, ReadingTypeOK
<1>2. \A length \in Nat : Counted(length) => timeout_cnt <= length
  BY <1>1 DEF Counted
<1>3. CASE pc = "low"
  <2>1. timeout_cnt < RESPONSE_WAIT
    BY <1>1, <1>2, <1>3, DelayTimes, Times DEF InTime, InTimeLow
  <2> QED
    BY <1>1, <1>3, <2>1, Times DEF TimedOut
<1>4. CASE pc # "low"
  <2>1. timeout_cnt < TIMEOUT
    <3>1. CASE pc = "response"
      BY <1>1, <1>2, <3>1, Times DEF InTime, InTimeResponse
    <3>2. CASE pc = "pulse"
      BY <1>1, <1>2, <3>2, Times DEF InTime, InTimePulse
    <3>3. CASE pc = "bitLow"
      BY <1>1, <1>2, <3>3, Times DEF InTime, InTimeBitLow
    <3>4. CASE pc = "bitHigh"
      BY <1>1, <1>2, <3>4, Times DEF InTime, InTimeBitHigh
    <3> QED
      BY <1>4, <3>1, <3>2, <3>3, <3>4 DEF Waits
  <2> QED
    BY <1>1, <1>4, <2>1, Times DEF TimedOut
<1> QED
  BY <1>3, <1>4

\* The level that ends the wait of each loop.
WaitsWhile(level) ==
  /\ pc \in Waits /\ level \in BOOLEAN
  /\ level <=> pc \in {"low", "pulse", "bitHigh"}

LEMMA FailKeepsInv ==
  ASSUME ReadingInv, ~alive, Fail, UNCHANGED sensorVars
  PROVE  ReadingInv'
<1> USE DEF Fail, sensorVars
<1>1. ReadingTypeOK'
  BY DEF ReadingInv, ReadingTypeOK
<1>2. LoopsBounded' /\ BitsInOrder'
  BY DriverKeepsOrder DEF ReadingInv, LoopsBounded, Waits
<1>3. ~alive' /\ Concluded' /\ BitsRight'
  BY DEF Concluded, BitsRight, ReadFailed
<1> QED
  BY <1>1, <1>2, <1>3 DEF ReadingInv

\* One more round of a loop, the line not having changed.
LEMMA RoundKeepsInv ==
  ASSUME ReadingInv, NEW level, WaitsWhile(level), delay = 0, LineIsHigh = level,
         timeout_cnt' = timeout_cnt + 1, Delay(1),
         UNCHANGED <<pc, bits, data, result>>, UNCHANGED sensorVars
  PROVE  ReadingInv'
<1> USE DEF sensorVars
<1>1. /\ timeout_cnt \in Nat /\ left \in Nat /\ pc \in Waits
      /\ delay' \in Nat /\ 1 <= delay' /\ delay' <= Round
  BY Times DEF ReadingInv, ReadingTypeOK, WaitsWhile, Delay
<1>2. ReadingTypeOK'
  BY <1>1 DEF ReadingInv, ReadingTypeOK
<1>3. LoopsBounded' /\ BitsInOrder' /\ Concluded'
  BY <1>1, DriverKeepsOrder DEF ReadingInv, LoopsBounded, Waits, Concluded
<1>4. BitsRight'
  BY DEF ReadingInv, BitsRight, Right, LineIsHigh
<1>5. ASSUME alive' PROVE InTime'
  <2>1. InTime
    BY <1>5 DEF ReadingInv
  <2> HIDE DEF sensorVars
  <2>0. UNCHANGED <<phase, left, bitsSent, word, bits, pc>>
    BY DEF sensorVars
  <2>2. \A length \in Nat : Counted(length) => Counted(length)'
    <3>1. delay = 0 /\ timeout_cnt' = timeout_cnt + 1 /\ left' = left
      BY <2>0
    <3>2. PICK longer \in Nat : delay' = longer /\ 1 <= longer
      BY <1>1
    <3> QED
      BY ONLY <1>1, <3>1, <3>2 DEF Counted
  <2>3. CASE pc = "low"
    <3>1. phase = "delay"
      BY <2>1, <2>3 DEF InTime, InTimeLow, WaitsWhile, LineIsHigh
    <3>2. InTimeLow'
      BY <2>0, <2>1, <2>2, <2>3, <3>1, DelayTimes DEF InTime, InTimeLow
    <3> QED
      BY <2>0, <2>1, <2>3, <3>2 DEF InTime
  <2>4. CASE pc = "response"
    <3>1. phase = "responseLow"
      BY <2>1, <2>4 DEF InTime, InTimeResponse, WaitsWhile, LineIsHigh
    <3>2. InTimeResponse'
      BY <2>0, <2>1, <2>2, <2>4, <3>1, Times DEF InTime, InTimeResponse
    <3> QED
      BY <2>0, <2>1, <2>4, <3>2 DEF InTime
  <2>5. CASE pc = "pulse"
    <3>1. phase = "responseHigh"
      BY <2>1, <2>5 DEF InTime, InTimePulse, WaitsWhile, LineIsHigh
    <3>2. InTimePulse'
      BY <2>0, <2>1, <2>2, <2>5, <3>1, Times DEF InTime, InTimePulse
    <3> QED
      BY <2>0, <2>1, <2>5, <3>2 DEF InTime
  <2>6. CASE pc = "bitLow"
    <3>1. phase = "low"
      BY <2>1, <2>6 DEF InTime, InTimeBitLow, WaitsWhile, LineIsHigh
    <3>2. InTimeBitLow'
      BY <2>0, <2>1, <2>2, <2>6, <3>1, Times DEF InTime, InTimeBitLow
    <3> QED
      BY <2>0, <2>1, <2>6, <3>2 DEF InTime
  <2>7. CASE pc = "bitHigh"
    <3>1. phase = "high"
      BY <2>1, <2>7 DEF InTime, InTimeBitHigh, WaitsWhile, LineIsHigh, AfterBit
    <3>2. bitsSent + 1 = Len(bits) /\ Counted(OnePulse)
      BY <2>1, <2>7, <3>1 DEF InTime, InTimeBitHigh, AfterBit
    <3>3. Counted(OnePulse)'
      BY <2>2, <3>2, Times
    <3>4. InTimeBitHigh'
      BY <2>0, <3>1, <3>2, <3>3 DEF InTimeBitHigh
    <3> QED
      BY <2>0, <2>1, <2>7, <3>4 DEF InTime
  <2> QED
    BY <1>1, <2>3, <2>4, <2>5, <2>6, <2>7 DEF Waits
<1> QED
  BY <1>2, <1>3, <1>4, <1>5 DEF ReadingInv

LEMMA WaitKeepsInv ==
  ASSUME ReadingInv, NEW level, WaitsWhile(level), Wait(level)
  PROVE  ReadingInv'
<1>1. delay = 0 /\ UNCHANGED sensorVars
  BY DEF Wait
<1>2. CASE TimedOut /\ Fail
  <2>1. ~alive
    BY <1>1, <1>2, NeverTimesOut DEF WaitsWhile
  <2> QED
    BY <1>1, <1>2, <2>1, FailKeepsInv
<1>3. CASE ~(TimedOut /\ Fail)
  <2>1. /\ LineIsHigh = level /\ timeout_cnt' = timeout_cnt + 1 /\ Delay(1)
        /\ UNCHANGED <<pc, bits, data, result>>
    BY <1>3 DEF Wait
  <2> QED
    BY <1>1, <2>1, RoundKeepsInv
<1> QED
  BY <1>2, <1>3

LEMMA LoopsKeepInv == ReadingInv /\ (WaitResponse \/ WaitBit) => ReadingInv'
<1> SUFFICES ASSUME ReadingInv, WaitResponse \/ WaitBit PROVE ReadingInv'
  OBVIOUS
<1>1. \E level \in BOOLEAN : WaitsWhile(level) /\ Wait(level)
  BY DEF WaitResponse, WaitBit, WaitsWhile, Waits
<1> QED
  BY <1>1, WaitKeepsInv

LEMMA LevelIsHigh == ASSUME LineIsHigh # FALSE PROVE LineIsHigh
<1>1. LineIsHigh \in BOOLEAN
  BY DEF LineIsHigh
<1> QED
  BY <1>1

LEMMA ResponseSeenKeepsInv == ReadingInv /\ ResponseSeen => ReadingInv'
<1> SUFFICES ASSUME ReadingInv, ResponseSeen PROVE ReadingInv'
  OBVIOUS
<1>1. /\ delay = 0 /\ timeout_cnt' = 0 /\ pc \in {"low", "response", "pulse"}
      /\ UNCHANGED <<delay, bits, data, result>> /\ UNCHANGED sensorVars
      /\ pc' \in {"response", "pulse", "bitLow"}
  BY DEF ResponseSeen, Ended
<1>2. UNCHANGED <<phase, left, bitsSent, word, alive>>
  BY <1>1 DEF sensorVars
<1>3. ReadingTypeOK'
  BY <1>1, <1>2 DEF ReadingInv, ReadingTypeOK, Waits
<1>4. LoopsBounded' /\ BitsInOrder' /\ Concluded' /\ BitsRight'
  BY <1>1, <1>2, Times DEF ReadingInv, LoopsBounded, Waits, BitsInOrder, Concluded,
     BitsRight, Right
<1>5. ASSUME alive' PROVE InTime'
  <2>1. InTime /\ left \in Nat /\ bits = << >> /\ bitsSent = 0
    BY <1>1, <1>2, <1>5 DEF ReadingInv, ReadingTypeOK, InTime
  <2>2. SeenInTime(ResponsePulse) => Counted(ResponsePulse)'
    BY <1>1, <1>2, <2>1, Times DEF SeenInTime, Counted
  <2>3. SeenInTime(BitLow) => Counted(BitLow)'
    BY <1>1, <1>2, <2>1, Times DEF SeenInTime, Counted
  <2>4. CASE pc = "low"
    <3>1. pc' = "response" /\ phase = "responseLow" /\ SeenInTime(ResponsePulse)
      BY <2>1, <2>4 DEF InTime, InTimeLow, ResponseSeen, Ended, LineIsHigh
    <3> QED
      BY <1>1, <1>2, <2>1, <2>2, <3>1 DEF InTime, InTimeResponse
  <2>5. CASE pc = "response"
    <3>1. pc' = "pulse" /\ phase = "responseHigh" /\ SeenInTime(ResponsePulse)
      <4>1. pc' = "pulse" /\ LineIsHigh
        BY <2>5, LevelIsHigh DEF ResponseSeen, Ended
      <4> QED
        BY <2>1, <2>5, <4>1 DEF InTime, InTimeResponse, LineIsHigh
    <3> QED
      BY <1>1, <1>2, <2>1, <2>2, <3>1 DEF InTime, InTimePulse
  <2>6. CASE pc = "pulse"
    <3>1. pc' = "bitLow" /\ phase = "low" /\ SeenInTime(BitLow)
      BY <2>1, <2>6 DEF InTime, InTimePulse, ResponseSeen, Ended, LineIsHigh
    <3> QED
      BY <1>1, <1>2, <2>1, <2>3, <3>1, BitCount DEF InTime, InTimeBitLow
  <2> QED
    BY <1>1, <2>4, <2>5, <2>6
<1> QED
  BY <1>3, <1>4, <1>5 DEF ReadingInv

LEMMA BitRisesKeepsInv == ReadingInv /\ BitRises => ReadingInv'
<1> SUFFICES ASSUME ReadingInv, BitRises PROVE ReadingInv'
  OBVIOUS
<1>1. /\ delay = 0 /\ timeout_cnt' = 0 /\ pc = "bitLow" /\ pc' = "sample" /\ LineIsHigh
      /\ UNCHANGED <<bits, data, result>> /\ UNCHANGED sensorVars
  BY LevelIsHigh DEF BitRises, Ended
<1>2. UNCHANGED <<phase, left, bitsSent, word, alive>>
  BY <1>1 DEF sensorVars
<1>3. PICK d \in Nat : delay' = d /\ BIT_THRESHOLD <= d /\ d <= BIT_THRESHOLD + Jitter
  BY Times DEF BitRises, Delay
<1>4. ReadingTypeOK'
  BY <1>1, <1>2, <1>3 DEF ReadingInv, ReadingTypeOK
<1>5. LoopsBounded' /\ BitsInOrder' /\ Concluded'
  BY <1>1, <1>2 DEF ReadingInv, LoopsBounded, Waits, BitsInOrder, Concluded
<1>6. BitsRight'
  BY <1>1, <1>2 DEF ReadingInv, BitsRight, Right, LineIsHigh
<1>7. ASSUME alive' PROVE InTime'
  <2>1. InTimeBitLow /\ left \in Nat
    BY <1>1, <1>2, <1>7 DEF ReadingInv, ReadingTypeOK, InTime
  <2>2. /\ phase = "high" /\ bitsSent = Len(bits) /\ Len(bits) < TotalBits
    BY <1>1, <2>1 DEF InTimeBitLow, LineIsHigh
  <2>3. PICK length \in Pulses(word[bitsSent + 1]) :
          left <= length /\ length + delay <= left + Round
    BY <2>1, <2>2 DEF InTimeBitLow
  <2>4. bitsSent + 1 \in 1..TotalBits
    BY <2>2, BitCount DEF ReadingInv, ReadingTypeOK
  <2>5. word[bitsSent + 1] = 0 \/ word[bitsSent + 1] = 1
    BY <2>4, WordBits DEF ReadingInv, ReadingTypeOK
  <2>6. CASE word[bitsSent + 1] = 1
    <3>1. length = OnePulse
      BY <2>6 DEF Pulses
    <3>2. d < left /\ left <= OnePulse
      BY <1>1, <1>3, <2>1, <2>3, <3>1, Times
    <3>3. InTimeSample'
      BY <1>1, <1>2, <1>3, <2>2, <2>6, <3>2 DEF InTimeSample, SeenInTime
    <3> QED
      BY <1>1, <3>3 DEF InTime
  <2>7. CASE word[bitsSent + 1] = 0
    <3>1. /\ length \in Nat /\ length < BIT_THRESHOLD
          /\ Round + BIT_THRESHOLD + Jitter < length + BitLow
      BY <2>7, ZeroTimes DEF Pulses
    <3>2. left < d /\ d < left + BitLow
      BY <1>1, <1>3, <2>1, <2>3, <3>1, Times
    <3>3. InTimeSample'
      BY <1>1, <1>2, <1>3, <2>2, <2>7, <3>2 DEF InTimeSample
    <3> QED
      BY <1>1, <3>3 DEF InTime
  <2> QED
    BY <2>5, <2>6, <2>7
<1> QED
  BY <1>4, <1>5, <1>6, <1>7 DEF ReadingInv

LEMMA SampleBitKeepsInv == ReadingInv /\ SampleBit => ReadingInv'
<1> SUFFICES ASSUME ReadingInv, SampleBit PROVE ReadingInv'
  OBVIOUS
<1> DEFINE bit == IF LineIsHigh THEN 1 ELSE 0
<1>1. /\ delay = 0 /\ pc = "sample" /\ pc' = "bitHigh" /\ bits' = Append(bits, bit)
      /\ UNCHANGED <<delay, timeout_cnt, data, result>>
      /\ UNCHANGED <<phase, left, bitsSent, word, alive>>
  BY DEF SampleBit, sensorVars
<1>2. timeout_cnt = 0 /\ left \in Nat /\ bits \in Seq(0..1)
  BY <1>1 DEF ReadingInv, ReadingTypeOK, LoopsBounded, Waits
<1>3. /\ bits' \in Seq(0..1) /\ Len(bits') = Len(bits) + 1 /\ bits'[Len(bits) + 1] = bit
      /\ \A i \in 1..Len(bits) : bits'[i] = bits[i]
  BY <1>1, <1>2
<1>4. ReadingTypeOK'
  BY <1>1, <1>3 DEF ReadingInv, ReadingTypeOK, Waits
<1>5. LoopsBounded' /\ BitsInOrder' /\ Concluded'
  BY <1>1, <1>2, Times DEF ReadingInv, LoopsBounded, Waits, BitsInOrder, Concluded
<1>6. ASSUME Right, Len(bits) < TotalBits, word[Len(bits) + 1] = bit
      PROVE  Right'
  BY <1>1, <1>2, <1>3, <1>6, BitCount DEF Right
<1>7. ASSUME alive
      PROVE  InTime' /\ Right'
  <2>1. InTimeSample /\ Right
    BY <1>1, <1>7 DEF ReadingInv, InTime, BitsRight
  <2>2. CASE LineIsHigh
    <3>1. /\ phase = "high" /\ bitsSent = Len(bits) /\ Len(bits) < TotalBits
          /\ word[bitsSent + 1] = 1 /\ SeenInTime(OnePulse)
      BY <1>1, <1>2, <2>1, <2>2 DEF InTimeSample, LineIsHigh, AfterBit
    <3>2. Counted(OnePulse)'
      BY <1>1, <1>2, <3>1, Times DEF SeenInTime, Counted
    <3>3. InTimeBitHigh'
      BY <1>1, <1>3, <3>1, <3>2 DEF InTimeBitHigh
    <3> QED
      BY <1>1, <1>6, <2>1, <2>2, <3>1, <3>3 DEF InTime
  <2>3. CASE ~LineIsHigh
    <3>1. /\ AfterBit /\ bitsSent = Len(bits) + 1 /\ word[bitsSent] = 0 /\ SeenInTime(BitLow)
      BY <2>1, <2>3 DEF InTimeSample, LineIsHigh
    <3>2. Len(bits) < TotalBits
      BY <1>2, <3>1, BitCount DEF ReadingInv, ReadingTypeOK
    <3>3. SeenInTime(BitLow)' /\ AfterBit' /\ timeout_cnt' <= OnePulse + Round
      BY <1>1, <1>2, <3>1, Times DEF SeenInTime, AfterBit
    <3>4. InTimeBitHigh'
      BY <1>1, <1>3, <3>1, <3>3 DEF InTimeBitHigh
    <3> QED
      BY <1>1, <1>6, <2>1, <2>3, <3>1, <3>2, <3>4 DEF InTime
  <2> QED
    BY <2>2, <2>3
<1>8. ASSUME ~LineIsHigh PROVE Right'
  BY <1>1, <1>6, <1>8 DEF ReadingInv, BitsRight
<1>9. BitsRight'
  BY <1>1, <1>7, <1>8 DEF BitsRight, LineIsHigh
<1> QED
  BY <1>1, <1>4, <1>5, <1>7, <1>9 DEF ReadingInv

LEMMA BitFallsKeepsInv == ReadingInv /\ BitFalls => ReadingInv'
<1> SUFFICES ASSUME ReadingInv, BitFalls PROVE ReadingInv'
  OBVIOUS
<1>1. /\ delay = 0 /\ timeout_cnt' = 0 /\ pc = "bitHigh" /\ pc' = "bitLow" /\ ~LineIsHigh
      /\ Len(bits) < TotalBits
      /\ UNCHANGED <<delay, bits, data, result>>
      /\ UNCHANGED <<phase, left, bitsSent, word, alive>>
  BY DEF BitFalls, Ended, sensorVars, LineIsHigh
<1>2. ReadingTypeOK'
  BY <1>1 DEF ReadingInv, ReadingTypeOK, Waits
<1>3. LoopsBounded' /\ BitsInOrder' /\ Concluded' /\ BitsRight'
  BY <1>1, Times DEF ReadingInv, LoopsBounded, Waits, BitsInOrder, Concluded,
     BitsRight, Right
<1>4. ASSUME alive' PROVE InTime'
  <2>1. InTimeBitHigh /\ left \in Nat
    BY <1>1, <1>4 DEF ReadingInv, ReadingTypeOK, InTime
  <2>2. AfterBit /\ bitsSent = Len(bits) /\ SeenInTime(BitLow)
    BY <1>1, <2>1 DEF InTimeBitHigh, LineIsHigh
  <2>3. Counted(BitLow)'
    BY <1>1, <2>1, <2>2, Times DEF SeenInTime, Counted
  <2>4. phase = "low"
    BY <1>1, <2>2 DEF AfterBit, ReadingInv, ReadingTypeOK
  <2>5. InTimeBitLow'
    BY <1>1, <2>2, <2>3, <2>4 DEF InTimeBitLow
  <2> QED
    BY <1>1, <2>5 DEF InTime
<1> QED
  BY <1>2, <1>3, <1>4 DEF ReadingInv

\* All the bits, and the right ones, are the word.
LEMMA AllBits ==
  ASSUME ReadingTypeOK, Right, Len(bits) = TotalBits
  PROVE  bits = word
<1>1. bits = [i \in 1..Len(bits) |-> bits[i]]
  BY LenProperties DEF ReadingTypeOK
<1>2. word = [i \in 1..TotalBits |-> word[i]]
  BY WordBits DEF ReadingTypeOK
<1>3. \A i \in 1..TotalBits : bits[i] = word[i]
  BY DEF Right
<1> QED
  BY <1>1, <1>2, <1>3

LEMMA FinishKeepsInv == ReadingInv /\ Finish => ReadingInv'
<1> SUFFICES ASSUME ReadingInv, Finish PROVE ReadingInv'
  OBVIOUS
<1>1. /\ timeout_cnt' = 0 /\ pc = "bitHigh" /\ pc' = "done" /\ ~LineIsHigh
      /\ Len(bits) = TotalBits /\ UNCHANGED <<delay, bits>>
      /\ UNCHANGED <<phase, left, bitsSent, word, alive>>
      /\ data' = ParseData(bits)
      /\ result' = IF data'.is_valid THEN Converted(data') ELSE ReadFailed
  BY DEF Finish, Ended, sensorVars, LineIsHigh
<1>2. ReadingTypeOK'
  BY <1>1 DEF ReadingInv, ReadingTypeOK
<1>3. LoopsBounded' /\ BitsInOrder' /\ BitsRight' /\ InTime'
  BY <1>1 DEF ReadingInv, LoopsBounded, Waits, BitsInOrder, BitsRight, Right, InTime
<1>4. Concluded'
  <2>1. bits = word
    BY <1>1, AllBits DEF ReadingInv, BitsRight
  <2> HIDE DEF ParseData, Converted, ReadFailed
  <2>2. data' = ParseData(word') 
    BY <1>1, <2>1
  <2> QED
    BY <1>1, <2>2 DEF Concluded, ParseData, Converted, ReadFailed, VerifyChecksum, NoData,
       Tenths, Byte
<1> QED
  BY <1>2, <1>3, <1>4 DEF ReadingInv

LEMMA StutterKeepsInv == ReadingInv /\ UNCHANGED readingVars => ReadingInv'
<1> SUFFICES ASSUME ReadingInv, UNCHANGED readingVars PROVE ReadingInv'
  OBVIOUS
<1>1. /\ UNCHANGED <<pc, delay, timeout_cnt, bits, data, result>>
      /\ UNCHANGED <<phase, left, bitsSent, word, alive>>
  BY DEF readingVars, driverVars, sensorVars
<1>2. ReadingTypeOK' /\ BitsInOrder' /\ LoopsBounded'
  BY <1>1 DEF ReadingInv, ReadingTypeOK, BitsInOrder, LoopsBounded
<1>3. BitsRight' /\ Concluded'
  BY <1>1 DEF ReadingInv, BitsRight, Right, LineIsHigh, Concluded
<1>4. alive' => InTime'
  BY <1>1 DEF ReadingInv, InTime, InTimeStarted, InTimeLow, InTimeResponse,
     InTimePulse, InTimeBitLow, InTimeSample, InTimeBitHigh, AfterBit, SeenInTime, Counted
<1> QED
  BY <1>2, <1>3, <1>4 DEF ReadingInv

\* The invariant of a reading: a sensor that keeps its timing stays in step with the
\* driver's polling loops (DHT11_Read), which therefore read its word.
THEOREM ReadingInvariant == ReadingSpec => []ReadingInv
<1>1. ReadingInit => ReadingInv
  BY ReadingInitInv
<1>2. ReadingInv /\ [ReadingNext]_readingVars => ReadingInv'
  <2> SUFFICES ASSUME ReadingInv, [ReadingNext]_readingVars PROVE ReadingInv'
    OBVIOUS
  <2>1. CASE SendStartSignal
    BY <2>1, SendStartSignalKeepsInv
  <2>2. CASE Started
    BY <2>2, StartedKeepsInv
  <2>3. CASE WaitResponse \/ WaitBit
    BY <2>3, LoopsKeepInv
  <2>4. CASE ResponseSeen
    BY <2>4, ResponseSeenKeepsInv
  <2>5. CASE BitRises
    BY <2>5, BitRisesKeepsInv
  <2>6. CASE SampleBit
    BY <2>6, SampleBitKeepsInv
  <2>7. CASE BitFalls
    BY <2>7, BitFallsKeepsInv
  <2>8. CASE Finish
    BY <2>8, FinishKeepsInv
  <2>9. CASE Pulse
    BY <2>9, PulseKeepsInv
  <2>10. CASE Die
    BY <2>10, DieKeepsInv
  <2>11. CASE Tick
    BY <2>11, TickKeepsInv
  <2>12. CASE UNCHANGED readingVars
    BY <2>12, StutterKeepsInv
  <2> QED
    BY <2>1, <2>2, <2>3, <2>4, <2>5, <2>6, <2>7, <2>8, <2>9, <2>10, <2>11, <2>12
       DEF ReadingNext, Driver
<1> QED
  BY <1>1, <1>2, PTL DEF ReadingSpec

--------------------------------------------------------------------------------
(* What the recursive definitions of a reading compute.                    *)

LEMMA ValueUnfolds ==
  ASSUME NEW n \in Nat, NEW b \in [1..n -> 0..1], Len(b) = n
  PROVE  \E u \in [0..n -> Nat] :
           /\ u[0] = 0 /\ \A k \in 1..n : u[k] = 2 * u[k - 1] + b[k]
           /\ Value(b) = u[n]
<1> DEFINE upTo == CHOOSE f : f = [k \in 0..Len(b) |-> IF k = 0 THEN 0 ELSE 2 * f[k - 1] + b[k]]
    step == [p \in (1..n) \X Nat |-> 2 * p[2] + b[p[1]]]
<1>1. Value(b) = upTo[n]
  BY DEF Value
<1>2. step \in Steps(n, Nat)
  BY DEF Steps
<1> HIDE DEF step
<1>3. PICK u : Follows(u, n, Nat, 0, step)
  <2>1. 0 \in Nat
    OBVIOUS
  <2> QED
    BY <1>2, <2>1, Recursion, Zenon
<1>0. u \in [0..n -> Nat] /\ u[0] = 0 /\ \A k \in 1..n : u[k] = step[<<k, u[k - 1]>>]
  BY <1>3, Zenon DEF Follows
<1>4. ASSUME NEW k \in 1..n PROVE u[k] = 2 * u[k - 1] + b[k]
  <2>1. u[k - 1] \in Nat /\ <<k, u[k - 1]>> \in (1..n) \X Nat
    <3>1. k - 1 \in 0..n
      OBVIOUS
    <3> QED
      BY <1>0, <3>1
  <2>2. step[<<k, u[k - 1]>>] = 2 * u[k - 1] + b[k]
    BY <2>1 DEF step
  <2> QED
    BY <1>0, <2>2
<1>5. upTo = [k \in 0..n |-> IF k = 0 THEN 0 ELSE 2 * upTo[k - 1] + b[k]]
  <2>1. \E f : f = [k \in 0..Len(b) |-> IF k = 0 THEN 0 ELSE 2 * f[k - 1] + b[k]]
    <3>1. u = [k \in 0..n |-> IF k = 0 THEN 0 ELSE 2 * u[k - 1] + b[k]]
      <4>1. u = [k \in 0..n |-> u[k]]
        BY <1>0
      <4>2. \A k \in 0..n : u[k] = IF k = 0 THEN 0 ELSE 2 * u[k - 1] + b[k]
        BY <1>0, <1>4
      <4> QED
        BY <4>1, <4>2
    <3> QED
      BY <3>1
  <2> QED
    BY <2>1, Zenon
<1> HIDE DEF upTo
<1>6. upTo[0] = 0 /\ \A k \in 1..n : upTo[k] = 2 * upTo[k - 1] + b[k]
  BY <1>5
<1> DEFINE Same == { k \in Nat : k <= n => upTo[k] = u[k] }
<1>7. 0 \in Same
  BY <1>0, <1>6
<1>8. ASSUME NEW k \in Nat, k \in Same PROVE k + 1 \in Same
  <2> SUFFICES ASSUME k + 1 <= n PROVE upTo[k + 1] = u[k + 1]
    OBVIOUS
  <2>1. k + 1 \in 1..n /\ (k + 1) - 1 = k /\ upTo[k] = u[k]
    BY <1>8
  <2>2. upTo[k + 1] = 2 * upTo[k] + b[k + 1]
    BY <1>6, <2>1
  <2>3. u[k + 1] = 2 * u[k] + b[k + 1]
    BY <1>4, <2>1
  <2> QED
    BY <2>1, <2>2, <2>3
<1> HIDE DEF Same
<1>9. n \in Same
  BY <1>7, <1>8, Induction
<1>10. Value(b) = u[n]
  BY <1>1, <1>9 DEF Same
<1> QED
  BY <1>0, <1>4, <1>10

LEMMA ByteValuesUnfolds ==
  \E p \in [0..ByteBits -> Nat] :
    /\ p[0] = 1 /\ \A k \in 1..ByteBits : p[k] = 2 * p[k - 1]
    /\ ByteValues = p[ByteBits]
<1> DEFINE n == ByteBits
    power == CHOOSE f : f = [k \in 0..ByteBits |-> IF k = 0 THEN 1 ELSE 2 * f[k - 1]]
    step == [p \in (1..n) \X Nat |-> 2 * p[2]]
<1> n \in Nat /\ 0 \in 0..n
  BY SensorAssumption
<1>1. ByteValues = power[n]
  BY DEF ByteValues
<1>2. step \in Steps(n, Nat)
  BY DEF Steps
<1> HIDE DEF step
<1>3. PICK p : Follows(p, n, Nat, 1, step)
  <2>1. 1 \in Nat
    OBVIOUS
  <2> QED
    BY <1>2, <2>1, Recursion, Zenon
<1>4. p \in [0..n -> Nat] /\ p[0] = 1 /\ \A k \in 1..n : p[k] = step[<<k, p[k - 1]>>]
  BY <1>3, Zenon DEF Follows
<1>5. ASSUME NEW k \in 1..n PROVE p[k] = 2 * p[k - 1]
  <2>1. p[k - 1] \in Nat /\ <<k, p[k - 1]>> \in (1..n) \X Nat
    <3>1. k - 1 \in 0..n
      OBVIOUS
    <3> QED
      BY <1>4, <3>1
  <2>2. step[<<k, p[k - 1]>>] = 2 * p[k - 1]
    BY <2>1 DEF step
  <2> QED
    BY <1>4, <2>2
<1>6. power = [k \in 0..n |-> IF k = 0 THEN 1 ELSE 2 * power[k - 1]]
  <2>1. \E f : f = [k \in 0..ByteBits |-> IF k = 0 THEN 1 ELSE 2 * f[k - 1]]
    <3>1. p = [k \in 0..n |-> IF k = 0 THEN 1 ELSE 2 * p[k - 1]]
      <4>1. p = [k \in 0..n |-> p[k]]
        BY <1>4
      <4>2. ASSUME NEW k \in 0..n PROVE p[k] = IF k = 0 THEN 1 ELSE 2 * p[k - 1]
        <5>1. k = 0 \/ k \in 1..n
          OBVIOUS
        <5> QED
          BY <1>4, <1>5, <5>1
      <4> QED
        BY <4>1, <4>2
    <3> QED
      BY <3>1
  <2> QED
    BY <2>1, Zenon
<1> HIDE DEF power
<1>7. power[0] = 1 /\ \A k \in 1..n : power[k] = 2 * power[k - 1]
  <2>1. \A k \in 1..n : k \in 0..n /\ k # 0
    OBVIOUS
  <2>2. \A k \in 0..n : power[k] = IF k = 0 THEN 1 ELSE 2 * power[k - 1]
    BY <1>6, Zenon
  <2> QED
    BY <2>1, <2>2
<1> DEFINE Same == { k \in Nat : k <= n => power[k] = p[k] }
<1>8. 0 \in Same
  BY <1>4, <1>7
<1>9. ASSUME NEW k \in Nat, k \in Same PROVE k + 1 \in Same
  <2> SUFFICES ASSUME k + 1 <= n PROVE power[k + 1] = p[k + 1]
    OBVIOUS
  <2>1. k + 1 \in 1..n /\ (k + 1) - 1 = k /\ power[k] = p[k]
    BY <1>9
  <2>2. power[k + 1] = 2 * power[k]
    BY <1>7, <2>1
  <2>3. p[k + 1] = 2 * p[k]
    BY <1>5, <2>1
  <2> QED
    BY <2>1, <2>2, <2>3
<1> HIDE DEF Same
<1>10. n \in Same
  BY <1>8, <1>9, Induction
<1>11. ByteValues = p[ByteBits]
  BY <1>1, <1>10 DEF Same
<1> QED
  BY <1>4, <1>5, <1>11

\* The bits of a byte spell a value of a byte.
LEMMA ValueOfByte ==
  ASSUME NEW b \in [1..ByteBits -> 0..1], Len(b) = ByteBits
  PROVE  Value(b) \in Nat /\ ByteValues \in Nat /\ Value(b) < ByteValues
<1> ByteBits \in Nat
  BY SensorAssumption
<1>1. PICK u \in [0..ByteBits -> Nat] :
        /\ u[0] = 0 /\ \A k \in 1..ByteBits : u[k] = 2 * u[k - 1] + b[k]
        /\ Value(b) = u[ByteBits]
  BY ValueUnfolds
<1>2. PICK p \in [0..ByteBits -> Nat] :
        /\ p[0] = 1 /\ \A k \in 1..ByteBits : p[k] = 2 * p[k - 1]
        /\ ByteValues = p[ByteBits]
  BY ByteValuesUnfolds
<1> DEFINE Below == { k \in Nat : k <= ByteBits => u[k] < p[k] }
<1>3. 0 \in Below
  BY <1>1, <1>2
<1>4. ASSUME NEW k \in Nat, k \in Below PROVE k + 1 \in Below
  <2> SUFFICES ASSUME k + 1 <= ByteBits PROVE u[k + 1] < p[k + 1]
    OBVIOUS
  <2>1. k + 1 \in 1..ByteBits /\ (k + 1) - 1 = k /\ k \in 0..ByteBits /\ u[k] < p[k]
    BY <1>4
  <2>2. u[k + 1] = 2 * u[k] + b[k + 1] /\ p[k + 1] = 2 * p[k]
    BY <1>1, <1>2, <2>1
  <2>3. b[k + 1] \in 0..1 /\ u[k] \in Nat /\ p[k] \in Nat
    BY <2>1
  <2> QED
    BY <2>1, <2>2, <2>3
<1> HIDE DEF Below
<1>5. ByteBits \in Below
  BY <1>3, <1>4, Induction
<1>6. ByteBits \in 0..ByteBits
  OBVIOUS
<1> QED
  BY <1>1, <1>2, <1>5, <1>6 DEF Below

LEMMA BytesAreBytes ==
  ASSUME NEW w \in Words, NEW i \in 0..4
  PROVE  Byte(w, i) \in Nat /\ ByteValues \in Nat /\ Byte(w, i) < ByteValues
<1> DEFINE first == i * ByteBits + 1
           final == (i + 1) * ByteBits
           b == SubSeq(w, first, final)
<1>1. ByteBits \in Nat /\ 1 <= ByteBits /\ TotalBits = 5 * ByteBits /\ w \in [1..TotalBits -> 0..1]
  BY SensorAssumption DEF TotalBits
<1>2. first \in Nat /\ final \in Nat /\ 1 <= first /\ first <= final + 1
      /\ final <= TotalBits /\ final - first + 1 = ByteBits
  <2>1. i = 0 \/ i = 1 \/ i = 2 \/ i = 3 \/ i = 4
    OBVIOUS
  <2> QED
    BY <1>1, <2>1
<1>3. w \in Seq(0..1) /\ Len(w) = TotalBits
  BY <1>1, LenProperties
<1> HIDE DEF first, final
<1>4. b = [k \in 1..(final - first + 1) |-> w[first + k - 1]]
  BY <1>1, <1>2, <1>3 
<1>5. b \in [1..ByteBits -> 0..1] /\ Len(b) = ByteBits
  BY <1>1, <1>2, <1>3, <1>4
<1> HIDE DEF b
<1>6. Value(b) \in Nat /\ ByteValues \in Nat /\ Value(b) < ByteValues
  BY <1>5, ValueOfByte
<1> QED
  BY <1>6 DEF Byte, b, first, final

\* What the driver checks is the sensor's own rule.
LEMMA ChecksumIsTheSensors ==
  ASSUME NEW w \in Words PROVE VerifyChecksum(w) <=> Intact(w)
<1> DEFINE sum == Byte(w, 0) + Byte(w, 1) + Byte(w, 2) + Byte(w, 3)
           check == Byte(w, 4)
           V == ByteValues
<1>1. sum \in Nat /\ check \in Nat /\ V \in Nat /\ check < V /\ sum < 4 * V
  BY BytesAreBytes
<1>2. VerifyChecksum(w) <=> sum % V = check
  BY DEF VerifyChecksum
<1>3. Intact(w) <=> \E carry \in 0..3 : sum = carry * V + check
  BY DEF Intact
<1> HIDE DEF sum, check, V
<1>4. ASSUME sum % V = check PROVE \E carry \in 0..3 : sum = carry * V + check
  <2>1. sum = V * (sum \div V) + check /\ sum \div V \in Nat
    BY <1>1, <1>4
  <2>2. sum \div V < 4
    BY <1>1, <2>1
  <2> QED
    BY <1>1, <2>1, <2>2
<1>5. ASSUME NEW carry \in 0..3, sum = carry * V + check PROVE sum % V = check
  BY <1>1, <1>5
<1> QED
  BY <1>2, <1>3, <1>4, <1>5

--------------------------------------------------------------------------------
(* What a reading promises.                                                *)

\* LORA_APP_ReadSensor hands out the sample of this reading, with a good checksum.
THEOREM SampleFresh == ReadingSpec => []SampleIsFresh
<1>1. ReadingInv => SampleIsFresh
  <2> SUFFICES ASSUME ReadingInv, pc = "done", result.status = "SENSOR_OK"
               PROVE  /\ Intact(word)
                      /\ result.humidity_x10 = Tenths(word, 0)
                      /\ result.humidity_x10 <= 10 * MaxHumidity
                      /\ result.temperature_x10 = Tenths(word, 2)
    BY DEF SampleIsFresh
  <2>1. result # ReadFailed
    BY DEF ReadFailed
  <2>2. data = ParseData(word) /\ data.is_valid /\ result = Converted(data) /\ word \in Words
    BY <2>1 DEF ReadingInv, Concluded, ReadingTypeOK
  <2>3. VerifyChecksum(word)
    BY <2>2 DEF ParseData, NoData
  <2>4. data.humidity_x10 = Tenths(word, 0) /\ data.temperature_x10 = Tenths(word, 2)
    BY <2>2, <2>3 DEF ParseData
  <2>5. ~(data.humidity_x10 > 10 * MaxHumidity)
    BY <2>2 DEF Converted
  <2>6. result.humidity_x10 = data.humidity_x10 /\ result.temperature_x10 = data.temperature_x10
    BY <2>2, <2>5 DEF Converted
  <2>7. data.humidity_x10 \in Nat /\ MaxHumidity \in Nat
    BY <2>2, <2>4, BytesAreBytes, SensorAssumption DEF Tenths
  <2>8. result.humidity_x10 <= 10 * MaxHumidity
    BY <2>5, <2>6, <2>7
  <2> QED
    BY <2>2, <2>3, <2>4, <2>6, <2>8, ChecksumIsTheSensors
<1> QED
  BY <1>1, ReadingInvariant, PTL

\* DHT11_Read does not fail on a sensor that kept its timing and sent a good word:
\* no loop times out on it, no bit is taken for another.
THEOREM GoodReadingNeverFails == ReadingSpec => []GoodReadingSucceeds
<1>1. ReadingInv => GoodReadingSucceeds
  <2> SUFFICES ASSUME ReadingInv, pc = "done", alive, Intact(word)
               PROVE  result.status # "SENSOR_READ_FAILED"
    BY DEF GoodReadingSucceeds
  <2>1. word \in Words /\ data = ParseData(word)
        /\ result = IF data.is_valid THEN Converted(data) ELSE ReadFailed
    BY DEF ReadingInv, Concluded, ReadingTypeOK
  <2>2. VerifyChecksum(word)
    BY <2>1, ChecksumIsTheSensors
  <2>3. data.is_valid
    BY <2>1, <2>2 DEF ParseData
  <2> QED
    BY <2>1, <2>3 DEF Converted
<1> QED
  BY <1>1, ReadingInvariant, PTL

--------------------------------------------------------------------------------
(* What the recursive definitions of the codec compute.                    *)

LEMMA DividedUnfolds ==
  ASSUME NEW terms \in SUBSET Int, NEW N \in Nat
  PROVE  \E r \in [0..N -> SUBSET Int] :
           /\ r[0] = terms /\ \A n \in 1..N : r[n] = Divide(r[n - 1], n)
           /\ Divided(terms, N) = r[N]
<1> DEFINE rest == CHOOSE f : f = [k \in 0..N |-> IF k = 0 THEN terms ELSE Divide(f[k - 1], k)]
           step == [p \in (1..N) \X SUBSET Int |-> Divide(p[2], p[1])]
<1>1. Divided(terms, N) = rest[N]
  BY DEF Divided
<1>2. \A n \in 1..N, s \in SUBSET Int : Divide(s, n) \in SUBSET Int
  BY DEF Divide, Xor
<1>3. step \in Steps(N, SUBSET Int)
  BY <1>2 DEF Steps
<1>4. \A n \in 1..N, s \in SUBSET Int : step[<<n, s>>] = Divide(s, n)
  OBVIOUS
<1> HIDE DEF step
<1>5. PICK u : Follows(u, N, SUBSET Int, terms, step)
  BY <1>3, Recursion, Zenon
<1>6. /\ u \in [0..N -> SUBSET Int] /\ u[0] = terms
      /\ \A n \in 1..N : u[n] = step[<<n, u[n - 1]>>]
  BY <1>5, Zenon DEF Follows
<1>7. ASSUME NEW n \in 0..N PROVE u[n] = IF n = 0 THEN terms ELSE Divide(u[n - 1], n)
  <2>1. CASE n = 0
    BY <1>6, <2>1
  <2>2. CASE n # 0
    <3>1. n \in 1..N /\ n - 1 \in 0..N
      BY <2>2
    <3> QED
      BY <1>4, <1>6, <2>2, <3>1
  <2> QED
    BY <2>1, <2>2
<1>8. u = [k \in 0..N |-> IF k = 0 THEN terms ELSE Divide(u[k - 1], k)]
  <2>1. u = [k \in 0..N |-> u[k]]
    BY <1>6
  <2> QED
    BY <1>7, <2>1
<1>9. rest = [k \in 0..N |-> IF k = 0 THEN terms ELSE Divide(rest[k - 1], k)]
  BY <1>8, Zenon
<1> HIDE DEF rest
<1>10. ASSUME NEW n \in 0..N PROVE rest[n] = IF n = 0 THEN terms ELSE Divide(rest[n - 1], n)
  BY <1>9, Zenon
<1>11. rest[0] = terms /\ \A n \in 1..N : n # 0 /\ n \in 0..N
  BY <1>10
<1>12. \A n \in 1..N : rest[n] = Divide(rest[n - 1], n)
  BY <1>10, <1>11, Zenon
<1>13. \A n \in 0..N : rest[n] \in SUBSET Int
  <2>1. rest[0] \in SUBSET Int
    BY <1>11
  <2>2. \A n \in 1..N : rest[n - 1] \in SUBSET Int => rest[n] \in SUBSET Int
    BY <1>2, <1>12, Zenon
  <2> QED
    BY <2>1, <2>2, StaysIn, Zenon
<1>14. rest \in [0..N -> SUBSET Int]
  BY <1>9, <1>13
<1> QED
  BY <1>1, <1>11, <1>12, <1>14

Registers == SUBSET (0..15)

LEMMA ShiftBitIsRegister == \A value \in Registers : ShiftBit(value) \in Registers
  BY DEF Registers, ShiftBit, ShiftLeft, Xor

LEMMA AddByteUnfolds ==
  ASSUME NEW value \in Registers, NEW byte
  PROVE  \E r \in [0..8 -> Registers] :
           /\ r[0] = Xor(value, { k + 8 : k \in BitsOf(byte) }) /\ \A n \in 1..8 : r[n] = ShiftBit(r[n - 1])
           /\ AddByte(value, byte) = r[8]
<1> DEFINE after == CHOOSE f : f = [n \in 0..8 |-> IF n = 0 THEN Xor(value, { k + 8 : k \in BitsOf(byte) }) ELSE ShiftBit(f[n - 1])]
           step == [p \in (1..8) \X Registers |-> ShiftBit(p[2])]
<1> 8 \in Nat
  OBVIOUS
<1>1. AddByte(value, byte) = after[8]
  BY DEF AddByte
<1>2. Xor(value, { k + 8 : k \in BitsOf(byte) }) \in Registers /\ \A n \in 1..8, s \in Registers : ShiftBit(s) \in Registers
  <2>1. { k + 8 : k \in BitsOf(byte) } \subseteq 0..15
    BY DEF BitsOf
  <2>2. \A s \in SUBSET (0..15) : Xor(value, s) \in Registers
    BY DEF Registers, Xor
  <2> QED
    BY <2>1, <2>2, ShiftBitIsRegister
<1>3. step \in Steps(8, Registers)
  BY <1>2 DEF Steps
<1>4. \A n \in 1..8, s \in Registers : step[<<n, s>>] = ShiftBit(s)
  OBVIOUS
<1> HIDE DEF step
<1>5. PICK u : Follows(u, 8, Registers, Xor(value, { k + 8 : k \in BitsOf(byte) }), step)
  BY <1>2, <1>3, Recursion, Zenon
<1>6. /\ u \in [0..8 -> Registers] /\ u[0] = Xor(value, { k + 8 : k \in BitsOf(byte) })
      /\ \A n \in 1..8 : u[n] = step[<<n, u[n - 1]>>]
  BY <1>5, Zenon DEF Follows
<1>7. ASSUME NEW n \in 0..8 PROVE u[n] = IF n = 0 THEN Xor(value, { k + 8 : k \in BitsOf(byte) }) ELSE ShiftBit(u[n - 1])
  <2>1. CASE n = 0
    BY <1>6, <2>1
  <2>2. CASE n # 0
    <3>1. n \in 1..8 /\ n - 1 \in 0..8
      BY <2>2
    <3> QED
      BY <1>4, <1>6, <2>2, <3>1
  <2> QED
    BY <2>1, <2>2
<1>8. u = [n \in 0..8 |-> IF n = 0 THEN Xor(value, { k + 8 : k \in BitsOf(byte) }) ELSE ShiftBit(u[n - 1])]
  <2>1. u = [n \in 0..8 |-> u[n]]
    BY <1>6
  <2> QED
    BY <1>7, <2>1
<1>9. after = [n \in 0..8 |-> IF n = 0 THEN Xor(value, { k + 8 : k \in BitsOf(byte) }) ELSE ShiftBit(after[n - 1])]
  BY <1>8, Zenon
<1> HIDE DEF after
<1>10. \A n \in 0..8 : after[n] = IF n = 0 THEN Xor(value, { k + 8 : k \in BitsOf(byte) }) ELSE ShiftBit(after[n - 1])
  BY <1>9, Zenon
<1>11. after[0] = Xor(value, { k + 8 : k \in BitsOf(byte) }) /\ \A n \in 1..8 : n # 0 /\ n \in 0..8
  BY <1>10
<1>12. \A n \in 1..8 : after[n] = ShiftBit(after[n - 1])
  BY <1>10, <1>11, Zenon
<1>13. \A n \in 0..8 : after[n] \in Registers
  <2>1. after[0] \in Registers
    BY <1>2, <1>11
  <2>2. \A n \in 1..8 : after[n - 1] \in Registers => after[n] \in Registers
    BY <1>2, <1>12, Zenon
  <2> QED
    BY <2>1, <2>2, StaysIn, Zenon
<1>14. after \in [0..8 -> Registers]
  BY <1>9, <1>13
<1> QED
  BY <1>1, <1>11, <1>12, <1>14

LEMMA AddByteIsRegister ==
  ASSUME NEW value \in Registers, NEW byte PROVE AddByte(value, byte) \in Registers
  <1>1. 8 \in 0..8
    OBVIOUS
  <1>2. PICK r \in [0..8 -> Registers] : AddByte(value, byte) = r[8]
    BY AddByteUnfolds, Zenon
  <1> QED
    BY <1>1, <1>2

\* v: the register before each byte, and the last one.
CrcRun(v, bytes) ==
  /\ v \in [0..Len(bytes) -> Registers] /\ v[0] = 0..15
  /\ \A n \in 1..Len(bytes) : v[n] = AddByte(v[n - 1], bytes[n])
  /\ CalculateCcittFalse(bytes) = v[Len(bytes)]

LEMMA CrcUnfolds ==
  ASSUME NEW bytes, Len(bytes) \in Nat
  PROVE  \E v : CrcRun(v, bytes)
<1> DEFINE N == Len(bytes)
<1> DEFINE value == CHOOSE f : f = [n \in 0..N |-> IF n = 0 THEN 0..15 ELSE AddByte(f[n - 1], bytes[n])]
           step == [p \in (1..N) \X Registers |-> AddByte(p[2], bytes[p[1]])]
<1>1. CalculateCcittFalse(bytes) = value[N]
  BY DEF CalculateCcittFalse
<1>0. N = Len(bytes)
  OBVIOUS
<1> N \in Nat
  OBVIOUS
<1> HIDE DEF N
<1>2. 0..15 \in Registers /\ \A n \in 1..N, s \in Registers : AddByte(s, bytes[n]) \in Registers
  BY AddByteIsRegister DEF Registers
<1>3. step \in Steps(N, Registers)
  BY <1>2 DEF Steps
<1>4. \A n \in 1..N, s \in Registers : step[<<n, s>>] = AddByte(s, bytes[n])
  OBVIOUS
<1> HIDE DEF step
<1>5. PICK u : Follows(u, N, Registers, 0..15, step)
  BY <1>2, <1>3, Recursion, Zenon
<1>6. /\ u \in [0..N -> Registers] /\ u[0] = 0..15
      /\ \A n \in 1..N : u[n] = step[<<n, u[n - 1]>>]
  BY <1>5, Zenon DEF Follows
<1>7. ASSUME NEW n \in 0..N PROVE u[n] = IF n = 0 THEN 0..15 ELSE AddByte(u[n - 1], bytes[n])
  <2>1. CASE n = 0
    BY <1>6, <2>1
  <2>2. CASE n # 0
    <3>1. n \in 1..N /\ n - 1 \in 0..N
      BY <2>2
    <3> QED
      BY <1>4, <1>6, <2>2, <3>1
  <2> QED
    BY <2>1, <2>2
<1>8. u = [n \in 0..N |-> IF n = 0 THEN 0..15 ELSE AddByte(u[n - 1], bytes[n])]
  <2>1. u = [n \in 0..N |-> u[n]]
    BY <1>6
  <2> QED
    BY <1>7, <2>1
<1>9. value = [n \in 0..N |-> IF n = 0 THEN 0..15 ELSE AddByte(value[n - 1], bytes[n])]
  BY <1>8, Zenon
<1> HIDE DEF value
<1>10. \A n \in 0..N : value[n] = IF n = 0 THEN 0..15 ELSE AddByte(value[n - 1], bytes[n])
  BY <1>9, Zenon
<1>11. value[0] = 0..15 /\ \A n \in 1..N : n # 0 /\ n \in 0..N
  BY <1>10
<1>12. \A n \in 1..N : value[n] = AddByte(value[n - 1], bytes[n])
  BY <1>10, <1>11, Zenon
<1>13. \A n \in 0..N : value[n] \in Registers
  <2>1. value[0] \in Registers
    BY <1>2, <1>11
  <2>2. \A n \in 1..N : value[n - 1] \in Registers => value[n] \in Registers
    BY <1>2, <1>12, Zenon
  <2> QED
    BY <2>1, <2>2, StaysIn, Zenon
<1>14. value \in [0..N -> Registers]
  BY <1>9, <1>13
<1> QED
  BY <1>0, <1>1, <1>11, <1>12, <1>14 DEF CrcRun

LEMMA NumberUnfolds ==
  ASSUME NEW register
  PROVE  \E r \in [0..16 -> Nat] :
           /\ r[0] = 0 /\ \A n \in 1..16 : r[n] = 2 * r[n - 1] + (IF 16 - n \in register THEN 1 ELSE 0)
           /\ NumberOf(register) = r[16]
<1> DEFINE upTo == CHOOSE f : f = [n \in 0..16 |-> IF n = 0 THEN 0 ELSE 2 * f[n - 1] + (IF 16 - n \in register THEN 1 ELSE 0)]
           step == [p \in (1..16) \X Nat |-> 2 * p[2] + (IF 16 - p[1] \in register THEN 1 ELSE 0)]
<1> 16 \in Nat
  OBVIOUS
<1>1. NumberOf(register) = upTo[16]
  BY DEF NumberOf
<1>2. 0 \in Nat /\ \A n \in 1..16, s \in Nat : 2 * s + (IF 16 - n \in register THEN 1 ELSE 0) \in Nat
  OBVIOUS
<1>3. step \in Steps(16, Nat)
  BY <1>2 DEF Steps
<1>4. \A n \in 1..16, s \in Nat : step[<<n, s>>] = 2 * s + (IF 16 - n \in register THEN 1 ELSE 0)
  OBVIOUS
<1> HIDE DEF step
<1>5. PICK u : Follows(u, 16, Nat, 0, step)
  BY <1>2, <1>3, Recursion, Zenon
<1>6. /\ u \in [0..16 -> Nat] /\ u[0] = 0
      /\ \A n \in 1..16 : u[n] = step[<<n, u[n - 1]>>]
  BY <1>5, Zenon DEF Follows
<1>7. ASSUME NEW n \in 0..16 PROVE u[n] = IF n = 0 THEN 0 ELSE 2 * u[n - 1] + (IF 16 - n \in register THEN 1 ELSE 0)
  <2>1. CASE n = 0
    BY <1>6, <2>1
  <2>2. CASE n # 0
    <3>1. n \in 1..16 /\ n - 1 \in 0..16
      BY <2>2
    <3> QED
      BY <1>4, <1>6, <2>2, <3>1
  <2> QED
    BY <2>1, <2>2
<1>8. u = [n \in 0..16 |-> IF n = 0 THEN 0 ELSE 2 * u[n - 1] + (IF 16 - n \in register THEN 1 ELSE 0)]
  <2>1. u = [n \in 0..16 |-> u[n]]
    BY <1>6
  <2> QED
    BY <1>7, <2>1
<1>9. upTo = [n \in 0..16 |-> IF n = 0 THEN 0 ELSE 2 * upTo[n - 1] + (IF 16 - n \in register THEN 1 ELSE 0)]
  BY <1>8, Zenon
<1> HIDE DEF upTo
<1>10. \A n \in 0..16 : upTo[n] = IF n = 0 THEN 0 ELSE 2 * upTo[n - 1] + (IF 16 - n \in register THEN 1 ELSE 0)
  BY <1>9, Zenon
<1>11. upTo[0] = 0 /\ \A n \in 1..16 : n # 0 /\ n \in 0..16
  BY <1>10
<1>12. \A n \in 1..16 : upTo[n] = 2 * upTo[n - 1] + (IF 16 - n \in register THEN 1 ELSE 0)
  BY <1>10, <1>11, Zenon
<1>13. \A n \in 0..16 : upTo[n] \in Nat
  <2>1. upTo[0] \in Nat
    BY <1>2, <1>11
  <2>2. \A n \in 1..16 : upTo[n - 1] \in Nat => upTo[n] \in Nat
    BY <1>2, <1>12, Zenon
  <2> QED
    BY <2>1, <2>2, StaysIn, Zenon
<1>14. upTo \in [0..16 -> Nat]
  BY <1>9, <1>13
<1> QED
  BY <1>1, <1>11, <1>12, <1>14

--------------------------------------------------------------------------------
(* The register against the long division.                                 *)

MessageBits(bytes) ==
  { n \in 1..(8 * Len(bytes)) : 7 - ((n - 1) % 8) \in BitsOf(bytes[1 + (n - 1) \div 8]) }

\* The register is what stands behind the first n bits in the division, but for the
\* bits of the message that it has not seen yet, those behind seen.
Aligned(value, rest, msg, n, seen) ==
  /\ \A j \in 1..16 :
       (16 - j \in value) <=> ~((n + j \in rest) <=> (n + j > seen /\ n + j \in msg))
  /\ \A m \in Int : m > n + 16 => (m \in rest <=> m \in msg)

Tap(j) == j = 4 \/ j = 11 \/ j = 16

LEMMA ShiftedBit ==
  ASSUME NEW value \in Registers, NEW j \in 1..16
  PROVE  (16 - j \in ShiftBit(value)) <=>
           ~((15 - j \in value) <=> (15 \in value /\ Tap(j)))
<1>1. \A x \in value : x \in Int /\ 0 <= x /\ x <= 15
  BY DEF Registers
<1>2. (16 - j \in ShiftLeft(value)) <=> (15 - j \in value)
  <2>1. ASSUME 16 - j \in ShiftLeft(value) PROVE 15 - j \in value
    <3>1. PICK x \in value \ {15} : 16 - j = x + 1
      BY <2>1 DEF ShiftLeft
    <3>2. x = 15 - j
      BY <1>1, <3>1
    <3> QED
      BY <3>1, <3>2
  <2>2. ASSUME 15 - j \in value PROVE 16 - j \in ShiftLeft(value)
    <3>1. 15 - j # 15 /\ (15 - j) + 1 = 16 - j
      OBVIOUS
    <3> QED
      BY <2>2, <3>1 DEF ShiftLeft
  <2> QED
    BY <2>1, <2>2
<1>3. (16 - j \in {12, 5, 0}) <=> Tap(j)
  BY DEF Tap
<1>4. \A s : (16 - j \in Xor(s, {12, 5, 0})) <=> ~((16 - j \in s) <=> (16 - j \in {12, 5, 0}))
  BY DEF Xor
<1>5. CASE 15 \in value
  BY <1>2, <1>3, <1>4, <1>5 DEF ShiftBit
<1>6. CASE 15 \notin value
  BY <1>2, <1>6 DEF ShiftBit
<1> QED
  BY <1>5, <1>6

LEMMA DividedBit ==
  ASSUME NEW rest \in SUBSET Int, NEW n \in Int, NEW j \in Int, j >= 1
  PROVE  (n + j \in Divide(rest, n)) <=> ~((n + j \in rest) <=> (n \in rest /\ Tap(j)))
<1>1. (n + j \in {n, n + 4, n + 11, n + 16}) <=> Tap(j)
  BY DEF Tap
<1>2. \A s : (n + j \in Xor(rest, s)) <=> ~((n + j \in rest) <=> (n + j \in s))
  BY DEF Xor
<1>3. CASE n \in rest
  BY <1>1, <1>2, <1>3 DEF Divide
<1>4. CASE n \notin rest
  BY <1>4 DEF Divide
<1> QED
  BY <1>3, <1>4

LEMMA ShiftStaysAligned ==
  ASSUME NEW value \in Registers, NEW rest \in SUBSET Int, NEW msg,
         NEW n \in Int, NEW seen \in Int, n < seen, seen <= n + 8,
         Aligned(value, rest, msg, n, seen)
  PROVE  Aligned(ShiftBit(value), Divide(rest, n + 1), msg, n + 1, seen)
<1>1. (15 \in value) <=> (n + 1 \in rest)
  <2>1. 16 - 1 = 15 /\ 1 \in 1..16 /\ ~(n + 1 > seen)
    OBVIOUS
  <2> QED
    BY <2>1 DEF Aligned
<1>2. ASSUME NEW j \in 1..16
      PROVE  (16 - j \in ShiftBit(value)) <=>
               ~(((n + 1) + j \in Divide(rest, n + 1)) <=>
                   ((n + 1) + j > seen /\ (n + 1) + j \in msg))
  <2>1. (16 - j \in ShiftBit(value)) <=>
          ~((15 - j \in value) <=> (15 \in value /\ Tap(j)))
    BY ShiftedBit
  <2>2. ((n + 1) + j \in Divide(rest, n + 1)) <=>
          ~(((n + 1) + j \in rest) <=> (n + 1 \in rest /\ Tap(j)))
    <3>1. n + 1 \in Int /\ j \in Int /\ j >= 1
      OBVIOUS
    <3> QED
      BY <3>1, DividedBit, Zenon
  <2>3. (15 - j \in value) <=>
          ~(((n + 1) + j \in rest) <=> ((n + 1) + j > seen /\ (n + 1) + j \in msg))
    <3>1. CASE j = 16
      <4>1. 15 - j \notin value
        BY <3>1 DEF Registers
      <4>2. (n + 1) + j > seen /\ (n + 1) + j \in Int /\ (n + 1) + j > n + 16
        BY <3>1
      <4>3. (n + 1) + j \in rest <=> (n + 1) + j \in msg
        BY <4>2 DEF Aligned
      <4> QED
        BY <4>1, <4>2, <4>3
    <3>2. CASE j # 16
      <4>1. j + 1 \in 1..16 /\ 16 - (j + 1) = 15 - j /\ n + (j + 1) = (n + 1) + j
        BY <3>2
      <4> QED
        BY <4>1 DEF Aligned
    <3> QED
      BY <3>1, <3>2
  <2> QED
    BY <1>1, <2>1, <2>2, <2>3
<1>3. ASSUME NEW m \in Int, m > (n + 1) + 16
      PROVE  m \in Divide(rest, n + 1) <=> m \in msg
  <2>1. m - (n + 1) >= 1 /\ m = (n + 1) + (m - (n + 1)) /\ ~Tap(m - (n + 1))
    BY <1>3 DEF Tap
  <2>2. m \in Divide(rest, n + 1) <=> m \in rest
    <3> DEFINE j == m - (n + 1)
    <3>1. j \in Int /\ j >= 1 /\ m = (n + 1) + j /\ ~Tap(j)
      BY <2>1
    <3> HIDE DEF j
    <3>2. n + 1 \in Int
      OBVIOUS
    <3>3. m \in Divide(rest, n + 1) <=> ~((m \in rest) <=> (n + 1 \in rest /\ Tap(j)))
      BY <3>1, <3>2, DividedBit, Zenon
    <3> QED
      BY <3>1, <3>3, Zenon
  <2>3. m \in rest <=> m \in msg
    BY <1>3 DEF Aligned
  <2> QED
    BY <2>2, <2>3
<1> QED
  BY <1>2, <1>3 DEF Aligned

LEMMA BitOfMessage ==
  ASSUME NEW bytes, NEW N \in Nat, Len(bytes) = N, NEW i \in 1..N, NEW j \in 1..8
  PROVE  8 * (i - 1) + j \in MessageBits(bytes) <=> 8 - j \in BitsOf(bytes[i])
<1> DEFINE n == 8 * (i - 1) + j
<1>1. n \in 1..(8 * N) /\ (n - 1) \div 8 = i - 1 /\ (n - 1) % 8 = j - 1
  OBVIOUS
<1>2. 7 - ((n - 1) % 8) = 8 - j /\ 1 + (n - 1) \div 8 = i
  BY <1>1
<1> HIDE DEF n
<1>3. n \in MessageBits(bytes) <=> 8 - j \in BitsOf(bytes[i])
  BY <1>1, <1>2 DEF MessageBits
<1> QED
  BY <1>3 DEF n

LEMMA ByteAligns ==
  ASSUME NEW bytes, NEW N \in Nat, Len(bytes) = N, NEW i \in 1..N,
         NEW value \in Registers, NEW rest,
         Aligned(value, rest, MessageBits(bytes), 8 * (i - 1), 8 * (i - 1))
  PROVE  Aligned(Xor(value, { k + 8 : k \in BitsOf(bytes[i]) }), rest,
                 MessageBits(bytes), 8 * (i - 1), 8 * (i - 1) + 8)
<1> DEFINE n == 8 * (i - 1)
           msg == MessageBits(bytes)
           high == { k + 8 : k \in BitsOf(bytes[i]) }
<1>1. n \in Int
  OBVIOUS
<1>2. \A j \in 1..8 : n + j \in msg <=> 8 - j \in BitsOf(bytes[i])
  BY BitOfMessage
<1>3. \A j \in 1..16 : 16 - j \in high <=> 8 - j \in BitsOf(bytes[i])
  <2>1. \A k \in BitsOf(bytes[i]) : k \in 0..7
    BY DEF BitsOf
  <2> SUFFICES ASSUME NEW j \in 1..16 PROVE 16 - j \in high <=> 8 - j \in BitsOf(bytes[i])
    OBVIOUS
  <2>2. \A k \in BitsOf(bytes[i]) : 16 - j = k + 8 <=> k = 8 - j
    BY <2>1
  <2>3. (8 - j) + 8 = 16 - j
    OBVIOUS
  <2> QED
    BY <2>2, <2>3
<1>4. \A j \in 1..16 : 8 - j \in BitsOf(bytes[i]) => j <= 8
  BY DEF BitsOf
<1>5. \A x : x \in Xor(value, high) <=> ~(x \in value <=> x \in high)
  BY DEF Xor
<1> HIDE DEF n, msg, high
<1>6. /\ \A j \in 1..16 : (16 - j \in value) <=> ~((n + j \in rest) <=> (n + j > n /\ n + j \in msg))
      /\ \A m \in Int : m > n + 16 => (m \in rest <=> m \in msg)
  BY DEF Aligned, n, msg
<1>7. ASSUME NEW j \in 1..16
      PROVE  (16 - j \in Xor(value, high)) <=>
               ~((n + j \in rest) <=> (n + j > n + 8 /\ n + j \in msg))
  <2>1. n + j > n
    BY <1>1
  <2>2. (16 - j \in value) <=> ~((n + j \in rest) <=> n + j \in msg)
    BY <1>6, <2>1
  <2>3. CASE j <= 8
    <3>1. ~(n + j > n + 8) /\ j \in 1..8
      BY <1>1, <2>3
    <3>2. 16 - j \in high <=> n + j \in msg
      BY <1>2, <1>3, <3>1
    <3> QED
      BY <1>5, <2>2, <3>1, <3>2
  <2>4. CASE ~(j <= 8)
    <3>1. n + j > n + 8
      BY <1>1, <2>4
    <3>2. 16 - j \notin high
      BY <1>3, <1>4, <2>4, Zenon
    <3> QED
      BY <1>5, <2>2, <3>1, <3>2
  <2> QED
    BY <2>3, <2>4
<1>8. Aligned(Xor(value, high), rest, msg, n, n + 8)
  BY <1>6, <1>7 DEF Aligned
<1> QED
  BY <1>8 DEF n, msg, high

LEMMA AddByteStaysAligned ==
  ASSUME NEW bytes, NEW N \in Nat, Len(bytes) = N, NEW i \in 1..N, NEW value \in Registers,
         NEW r \in [0..(8 * N) -> SUBSET Int],
         \A n \in 1..(8 * N) : r[n] = Divide(r[n - 1], n),
         Aligned(value, r[8 * (i - 1)], MessageBits(bytes), 8 * (i - 1), 8 * (i - 1))
  PROVE  Aligned(AddByte(value, bytes[i]), r[8 * i], MessageBits(bytes), 8 * i, 8 * i)
<1> DEFINE base == 8 * (i - 1)
           msg == MessageBits(bytes)
           start == Xor(value, { k + 8 : k \in BitsOf(bytes[i]) })
<1>1. PICK a \in [0..8 -> Registers] :
        /\ a[0] = start /\ \A k \in 1..8 : a[k] = ShiftBit(a[k - 1])
        /\ AddByte(value, bytes[i]) = a[8]
  BY AddByteUnfolds, Zenon
<1>2. Aligned(start, r[base], msg, base, base + 8)
  BY ByteAligns
<1>3. base \in Nat /\ base + 8 <= 8 * N /\ base + 8 = 8 * i
  OBVIOUS
<1> HIDE DEF base, msg, start
<1> DEFINE Fine == { k \in Nat : k <= 8 => Aligned(a[k], r[base + k], msg, base + k, base + 8) }
<1>4. 0 \in Fine
  <2>1. base + 0 = base
    BY <1>3
  <2> QED
    BY <1>1, <1>2, <2>1
<1>5. ASSUME NEW k \in Nat, k \in Fine PROVE k + 1 \in Fine
  <2> SUFFICES ASSUME k + 1 <= 8
      PROVE Aligned(a[k + 1], r[base + (k + 1)], msg, base + (k + 1), base + 8)
    OBVIOUS
  <2>1. k \in 0..8 /\ k + 1 \in 1..8 /\ (k + 1) - 1 = k
    OBVIOUS
  <2>2. /\ base + k \in 0..(8 * N) /\ (base + k) + 1 \in 1..(8 * N)
        /\ base + k \in Int /\ base + 8 \in Int /\ base + k < base + 8
        /\ base + 8 <= (base + k) + 8 /\ ((base + k) + 1) - 1 = base + k
        /\ base + (k + 1) = (base + k) + 1
    BY <1>3
  <2>3. Aligned(a[k], r[base + k], msg, base + k, base + 8)
    BY <1>5, <2>1
  <2>4. a[k] \in Registers /\ r[base + k] \in SUBSET Int
    BY <2>1, <2>2
  <2>5. Aligned(ShiftBit(a[k]), Divide(r[base + k], (base + k) + 1), msg, (base + k) + 1, base + 8)
    BY <2>2, <2>3, <2>4, ShiftStaysAligned, Zenon
  <2>6. a[k + 1] = ShiftBit(a[k])
    BY <1>1, <2>1
  <2>7. r[(base + k) + 1] = Divide(r[base + k], (base + k) + 1)
    BY <2>2
  <2> QED
    BY <2>2, <2>5, <2>6, <2>7, Zenon
<1> HIDE DEF Fine
<1>6. 8 \in Fine
  <2>1. 8 \in Nat
    OBVIOUS
  <2> QED
    BY <1>4, <1>5, <2>1, Induction
<1>7. Aligned(a[8], r[base + 8], msg, base + 8, base + 8)
  BY <1>6 DEF Fine
<1> QED
  BY <1>1, <1>3, <1>7, Zenon DEF msg

LEMMA CrcMeetsDivision ==
  ASSUME NEW bytes, NEW N \in Nat, Len(bytes) = N
  PROVE  Aligned(CalculateCcittFalse(bytes), Divided(Dividend(bytes), 8 * N),
                 MessageBits(bytes), 8 * N, 8 * N)
         /\ CalculateCcittFalse(bytes) \in Registers
<1> DEFINE msg == MessageBits(bytes)
<1>0. Dividend(bytes) = Xor(1..16, msg)
  BY DEF Dividend, MessageBits
<1>1. PICK v \in [0..N -> Registers] :
        /\ v[0] = 0..15 /\ \A n \in 1..N : v[n] = AddByte(v[n - 1], bytes[n])
        /\ CalculateCcittFalse(bytes) = v[N]
  <2>1. PICK v : CrcRun(v, bytes)
    BY CrcUnfolds
  <2> QED
    BY <2>1 DEF CrcRun
<1>2. 8 * N \in Nat /\ Dividend(bytes) \in SUBSET Int
  <2>1. msg \subseteq Int
    BY DEF MessageBits
  <2> HIDE DEF msg
  <2> QED
    BY <1>0, <2>1 DEF Xor
<1>3. PICK r \in [0..(8 * N) -> SUBSET Int] :
        /\ r[0] = Dividend(bytes) /\ \A n \in 1..(8 * N) : r[n] = Divide(r[n - 1], n)
        /\ Divided(Dividend(bytes), 8 * N) = r[8 * N]
  BY <1>2, DividedUnfolds, Zenon
<1>4. Aligned(v[0], r[0], msg, 0, 0)
  <2>1. ASSUME NEW j \in 1..16
        PROVE  (16 - j \in v[0]) <=> ~((0 + j \in r[0]) <=> (0 + j > 0 /\ 0 + j \in msg))
    <3>1. 16 - j \in v[0] /\ 0 + j > 0
      BY <1>1
    <3>2. 0 + j \in Xor(1..16, msg) <=> ~(0 + j \in msg)
      BY DEF Xor
    <3> QED
      BY <1>0, <1>3, <3>1, <3>2
  <2>2. ASSUME NEW m \in Int, m > 0 + 16 PROVE m \in r[0] <=> m \in msg
    <3>1. m \in Xor(1..16, msg) <=> m \in msg
      BY <2>2 DEF Xor
    <3> QED
      BY <1>0, <1>3, <3>1
  <2> QED
    BY <2>1, <2>2 DEF Aligned
<1> HIDE DEF msg
<1> DEFINE Fine == { i \in Nat : i <= N => Aligned(v[i], r[8 * i], msg, 8 * i, 8 * i) }
<1>5. 0 \in Fine
  <2>1. 8 * 0 = 0
    OBVIOUS
  <2> QED
    BY <1>4, <2>1
<1>6. ASSUME NEW k \in Nat, k \in Fine PROVE k + 1 \in Fine
  <2> DEFINE i == k + 1
  <2> SUFFICES ASSUME i <= N PROVE Aligned(v[i], r[8 * i], msg, 8 * i, 8 * i)
    OBVIOUS
  <2>1. i \in 1..N /\ i - 1 = k /\ k \in 0..N
    OBVIOUS
  <2>2. Aligned(v[k], r[8 * k], msg, 8 * k, 8 * k)
    BY <1>6, <2>1
  <2> HIDE DEF i
  <2>3. v[k] \in Registers /\ v[i] = AddByte(v[k], bytes[i])
    BY <1>1, <2>1
  <2>4. Aligned(v[k], r[8 * (i - 1)], MessageBits(bytes), 8 * (i - 1), 8 * (i - 1))
    BY <2>1, <2>2, Zenon DEF msg
  <2>5. Aligned(AddByte(v[k], bytes[i]), r[8 * i], MessageBits(bytes), 8 * i, 8 * i)
    BY <1>3, <2>1, <2>3, <2>4, AddByteStaysAligned, Zenon
  <2> QED
    BY <2>3, <2>5, Zenon DEF msg
<1> HIDE DEF Fine
<1>7. N \in Fine
  BY <1>5, <1>6, Induction
<1>8. Aligned(v[N], r[8 * N], msg, 8 * N, 8 * N) /\ v[N] \in Registers
  BY <1>7 DEF Fine
<1> QED
  BY <1>1, <1>3, <1>8, Zenon DEF msg

\* CRC16_CalculateCcittFalse computes the remainder of the long division.
LEMMA CrcIsTheRemainder ==
  ASSUME NEW bytes, Len(bytes) \in Nat
  PROVE  CalculateCcittFalse(bytes) = Remainder(bytes)
<1> DEFINE N == Len(bytes)
           crc == CalculateCcittFalse(bytes)
           rest == Divided(Dividend(bytes), 8 * N)
<1>1. crc \in Registers /\ Aligned(crc, rest, MessageBits(bytes), 8 * N, 8 * N)
  BY CrcMeetsDivision
<1>2. Remainder(bytes) = { k \in 0..15 : 8 * N + 16 - k \in rest }
  BY DEF Remainder
<1>3. \A m \in MessageBits(bytes) : m \in Int /\ m <= 8 * N
  BY DEF MessageBits
<1> N \in Nat
  OBVIOUS
<1> HIDE DEF N, crc, rest
<1>4. ASSUME NEW k \in 0..15 PROVE k \in crc <=> 8 * N + 16 - k \in rest
  <2> DEFINE j == 16 - k
  <2>1. j \in 1..16 /\ 16 - j = k /\ 8 * N + j = 8 * N + 16 - k /\ ~(8 * N + j <= 8 * N)
    OBVIOUS
  <2> HIDE DEF j
  <2>2. 8 * N + j \notin MessageBits(bytes)
    BY <1>3, <2>1
  <2>3. (16 - j \in crc) <=> (8 * N + j \in rest)
    BY <1>1, <2>1, <2>2 DEF Aligned
  <2> QED
    BY <2>1, <2>3
<1>5. crc = { k \in 0..15 : 8 * N + 16 - k \in rest }
  BY <1>1, <1>4 DEF Registers
<1> QED
  BY <1>2, <1>5 DEF crc

--------------------------------------------------------------------------------
(* Numbers and bits.                                                       *)

LEMMA OctetRange ==
  ASSUME NEW x PROVE x \in Octets <=> x \in Int /\ 0 <= x /\ x <= 255
BY DEF Octets

LEMMA HalfWordRange ==
  ASSUME NEW x PROVE x \in HalfWords <=> x \in Int /\ 0 <= x /\ x <= 65535
BY DEF HalfWords

LEMMA SignedRange ==
  ASSUME NEW x PROVE x \in SignedHalfWords <=> x \in Int /\ -32768 <= x /\ x <= 32767
BY DEF SignedHalfWords

LEMMA PairArithmetic ==
  ASSUME NEW a \in Octets, NEW b \in Octets
  PROVE  /\ (256 * a + b) \div 256 = a /\ (256 * a + b) % 256 = b
         /\ 256 * a + b \in HalfWords
<1>1. a \in Int /\ 0 <= a /\ a <= 255 /\ b \in Int /\ 0 <= b /\ b <= 255
  BY OctetRange
<1>2. (256 * a + b) \div 256 = a /\ (256 * a + b) % 256 = b
  BY <1>1
<1>3. 256 * a + b \in Int /\ 0 <= 256 * a + b /\ 256 * a + b <= 65535
  BY <1>1
<1> QED
  BY <1>2, <1>3, HalfWordRange

LEMMA PairsDiffer ==
  ASSUME NEW a \in Octets, NEW b \in Octets, NEW c \in Octets, NEW d \in Octets,
         256 * a + b = 256 * c + d
  PROVE  a = c /\ b = d
<1>1. a \in Int /\ 0 <= a /\ a <= 255 /\ b \in Int /\ 0 <= b /\ b <= 255
  BY OctetRange
<1>2. c \in Int /\ 0 <= c /\ c <= 255 /\ d \in Int /\ 0 <= d /\ d <= 255
  BY OctetRange
<1> QED
  BY <1>1, <1>2

LEMMA SplitArithmetic ==
  ASSUME NEW number \in HalfWords
  PROVE  number \div 256 \in Octets /\ number % 256 \in Octets
      /\ 256 * (number \div 256) + (number % 256) = number
<1>1. number \in Int /\ 0 <= number /\ number <= 65535
  BY HalfWordRange
<1>2. number \div 256 \in Int /\ 0 <= number \div 256 /\ number \div 256 <= 255
  BY <1>1
<1>3. number % 256 \in Int /\ 0 <= number % 256 /\ number % 256 <= 255
  BY <1>1
<1>4. 256 * (number \div 256) + (number % 256) = number
  BY <1>1
<1> QED
  BY <1>2, <1>3, <1>4, OctetRange

Bit(register, k) == IF k \in register THEN 1 ELSE 0

\* Eight bits of a register, read as a number.
Octet(register, base) ==
  128 * Bit(register, base + 7) + 64 * Bit(register, base + 6)
    + 32 * Bit(register, base + 5) + 16 * Bit(register, base + 4)
    + 8 * Bit(register, base + 3) + 4 * Bit(register, base + 2)
    + 2 * Bit(register, base + 1) + Bit(register, base)

LEMMA OctetHasBits ==
  ASSUME NEW register, NEW base \in Nat
  PROVE  /\ Octet(register, base) \in Octets
         /\ BitsOf(Octet(register, base)) = { k \in 0..7 : base + k \in register }
<1> DEFINE b(k) == Bit(register, base + k)
           n == Octet(register, base)
<1>1. \A k \in 0..7 : b(k) \in 0..1 /\ (b(k) = 1 <=> base + k \in register)
  BY DEF Bit
<1>2. n = 128 * b(7) + 64 * b(6) + 32 * b(5) + 16 * b(4) + 8 * b(3) + 4 * b(2) + 2 * b(1) + b(0)
  <2>1. b(0) = Bit(register, base)
    OBVIOUS
  <2> QED
    BY <2>1 DEF Octet
<1> HIDE DEF b, n
<1>3. n \in Int /\ 0 <= n /\ n <= 255
  BY <1>1, <1>2
<1>40. (n \div 1) % 2 = b(0)
  BY <1>1, <1>2
<1>41. (n \div 2) % 2 = b(1)
  BY <1>1, <1>2
<1>42. (n \div 4) % 2 = b(2)
  BY <1>1, <1>2
<1>43. (n \div 8) % 2 = b(3)
  BY <1>1, <1>2
<1>44. (n \div 16) % 2 = b(4)
  BY <1>1, <1>2
<1>45. (n \div 32) % 2 = b(5)
  BY <1>1, <1>2
<1>46. (n \div 64) % 2 = b(6)
  BY <1>1, <1>2
<1>47. (n \div 128) % 2 = b(7)
  BY <1>1, <1>2
<1>5. ASSUME NEW k \in 0..7 PROVE k \in BitsOf(n) <=> base + k \in register
  <2>0. CASE k = 0
    <3>1. 0 \in BitsOf(n) <=> (n \div 1) % 2 = 1
      BY <1>3 DEF BitsOf
    <3> QED
      BY <1>1, <1>40, <2>0, <3>1
  <2>1. CASE k = 1
    <3>1. 1 \in BitsOf(n) <=> (n \div 2) % 2 = 1
      BY <1>3 DEF BitsOf
    <3> QED
      BY <1>1, <1>41, <2>1, <3>1
  <2>2. CASE k = 2
    <3>1. 2 \in BitsOf(n) <=> (n \div 4) % 2 = 1
      BY <1>3 DEF BitsOf
    <3> QED
      BY <1>1, <1>42, <2>2, <3>1
  <2>3. CASE k = 3
    <3>1. 3 \in BitsOf(n) <=> (n \div 8) % 2 = 1
      BY <1>3 DEF BitsOf
    <3> QED
      BY <1>1, <1>43, <2>3, <3>1
  <2>4. CASE k = 4
    <3>1. 4 \in BitsOf(n) <=> (n \div 16) % 2 = 1
      BY <1>3 DEF BitsOf
    <3> QED
      BY <1>1, <1>44, <2>4, <3>1
  <2>5. CASE k = 5
    <3>1. 5 \in BitsOf(n) <=> (n \div 32) % 2 = 1
      BY <1>3 DEF BitsOf
    <3> QED
      BY <1>1, <1>45, <2>5, <3>1
  <2>6. CASE k = 6
    <3>1. 6 \in BitsOf(n) <=> (n \div 64) % 2 = 1
      BY <1>3 DEF BitsOf
    <3> QED
      BY <1>1, <1>46, <2>6, <3>1
  <2>7. CASE k = 7
    <3>1. 7 \in BitsOf(n) <=> (n \div 128) % 2 = 1
      BY <1>3 DEF BitsOf
    <3> QED
      BY <1>1, <1>47, <2>7, <3>1
  <2> QED
    BY <2>0, <2>1, <2>2, <2>3, <2>4, <2>5, <2>6, <2>7
<1>6. BitsOf(n) \subseteq 0..7
  BY DEF BitsOf
<1>7. n \in Octets
  BY <1>3, OctetRange
<1> QED
  BY <1>5, <1>6, <1>7 DEF n


LEMMA NumberIsOctets ==
  ASSUME NEW register PROVE NumberOf(register) = 256 * Octet(register, 8) + Octet(register, 0)
<1> DEFINE b(k) == Bit(register, k)
<1>1. PICK u \in [0..16 -> Nat] :
        /\ u[0] = 0
        /\ \A n \in 1..16 : u[n] = 2 * u[n - 1] + (IF 16 - n \in register THEN 1 ELSE 0)
        /\ NumberOf(register) = u[16]
  BY NumberUnfolds, Zenon
<1>2. \A n \in 1..16 : u[n] = 2 * u[n - 1] + b(16 - n)
  BY <1>1 DEF Bit
<1>3. \A k \in 0..15 : b(k) \in 0..1
  BY DEF Bit
<1> HIDE DEF b

<1>4. u[4] = 16 * u[0] + 8 * b(15) + 4 * b(14) + 2 * b(13) + 1 * b(12)
  <2>1. u[1] = 2 * u[0] + b(15)
    BY <1>2
  <2>2. u[2] = 2 * u[1] + b(14)
    BY <1>2
  <2>3. u[3] = 2 * u[2] + b(13)
    BY <1>2
  <2>4. u[4] = 2 * u[3] + b(12)
    BY <1>2
  <2>5. u[0] \in Nat /\ u[1] \in Nat /\ u[2] \in Nat /\ u[3] \in Nat /\ u[4] \in Nat /\ b(15) \in 0..1 /\ b(14) \in 0..1 /\ b(13) \in 0..1 /\ b(12) \in 0..1
    BY <1>3
  <2> QED
    BY <2>1, <2>2, <2>3, <2>4, <2>5
<1>5. u[8] = 16 * u[4] + 8 * b(11) + 4 * b(10) + 2 * b(9) + 1 * b(8)
  <2>1. u[5] = 2 * u[4] + b(11)
    BY <1>2
  <2>2. u[6] = 2 * u[5] + b(10)
    BY <1>2
  <2>3. u[7] = 2 * u[6] + b(9)
    BY <1>2
  <2>4. u[8] = 2 * u[7] + b(8)
    BY <1>2
  <2>5. u[4] \in Nat /\ u[5] \in Nat /\ u[6] \in Nat /\ u[7] \in Nat /\ u[8] \in Nat /\ b(11) \in 0..1 /\ b(10) \in 0..1 /\ b(9) \in 0..1 /\ b(8) \in 0..1
    BY <1>3
  <2> QED
    BY <1>1, <2>1, <2>2, <2>3, <2>4, <2>5
<1>6. u[12] = 16 * u[8] + 8 * b(7) + 4 * b(6) + 2 * b(5) + 1 * b(4)
  <2>1. u[9] = 2 * u[8] + b(7)
    BY <1>2
  <2>2. u[10] = 2 * u[9] + b(6)
    BY <1>2
  <2>3. u[11] = 2 * u[10] + b(5)
    BY <1>2
  <2>4. u[12] = 2 * u[11] + b(4)
    BY <1>2
  <2>5. u[8] \in Nat /\ u[9] \in Nat /\ u[10] \in Nat /\ u[11] \in Nat /\ u[12] \in Nat /\ b(7) \in 0..1 /\ b(6) \in 0..1 /\ b(5) \in 0..1 /\ b(4) \in 0..1
    BY <1>3
  <2> QED
    BY <1>1, <2>1, <2>2, <2>3, <2>4, <2>5
<1>7. u[16] = 16 * u[12] + 8 * b(3) + 4 * b(2) + 2 * b(1) + 1 * b(0)
  <2>1. u[13] = 2 * u[12] + b(3)
    BY <1>2
  <2>2. u[14] = 2 * u[13] + b(2)
    BY <1>2
  <2>3. u[15] = 2 * u[14] + b(1)
    BY <1>2
  <2>4. u[16] = 2 * u[15] + b(0)
    BY <1>2
  <2>5. u[12] \in Nat /\ u[13] \in Nat /\ u[14] \in Nat /\ u[15] \in Nat /\ u[16] \in Nat /\ b(3) \in 0..1 /\ b(2) \in 0..1 /\ b(1) \in 0..1 /\ b(0) \in 0..1
    BY <1>3
  <2> QED
    BY <1>1, <2>1, <2>2, <2>3, <2>4, <2>5
<1>8. Octet(register, 8) = 128 * b(15) + 64 * b(14) + 32 * b(13) + 16 * b(12) + 8 * b(11) + 4 * b(10) + 2 * b(9) + b(8)
  BY DEF Octet, b
<1>9. Octet(register, 0) = 128 * b(7) + 64 * b(6) + 32 * b(5) + 16 * b(4) + 8 * b(3) + 4 * b(2) + 2 * b(1) + b(0)
  BY DEF Octet, b
<1> QED
  <2>1. /\ b(0) \in 0..1 /\ b(1) \in 0..1 /\ b(2) \in 0..1 /\ b(3) \in 0..1
        /\ b(4) \in 0..1 /\ b(5) \in 0..1 /\ b(6) \in 0..1 /\ b(7) \in 0..1
        /\ b(8) \in 0..1 /\ b(9) \in 0..1 /\ b(10) \in 0..1 /\ b(11) \in 0..1
        /\ b(12) \in 0..1 /\ b(13) \in 0..1 /\ b(14) \in 0..1 /\ b(15) \in 0..1
    BY <1>3
  <2>2. /\ u[4] \in Nat /\ u[8] \in Nat /\ u[12] \in Nat /\ u[16] \in Nat
    OBVIOUS
  <2>3. NumberOf(register) = u[16]
    BY <1>1
  <2>4. Octet(register, 8) = u[8]
    <3>1. u[0] = 0
      BY <1>1
    <3>2. u[8] = 16 * (8 * b(15) + 4 * b(14) + 2 * b(13) + b(12)) + 8 * b(11) + 4 * b(10) + 2 * b(9) + b(8)
      <4>1. 16 * u[0] = 0
        BY ONLY <3>1
      <4>2. u[4] = 8 * b(15) + 4 * b(14) + 2 * b(13) + b(12)
        BY ONLY <1>4, <2>1, <2>2, <4>1
      <4>3. u[8] = 16 * u[4] + 8 * b(11) + 4 * b(10) + 2 * b(9) + b(8)
        BY ONLY <1>5, <2>1, <2>2
      <4> QED
        BY ONLY <2>1, <2>2, <4>2, <4>3
    <3> QED
      BY <1>8, <2>1, <3>2
  <2>5. u[16] = 256 * u[8] + Octet(register, 0)
    <3>1. Octet(register, 0) \in Int
      <4>1. 0 \in Nat
        OBVIOUS
      <4>2. Octet(register, 0) \in Octets
        BY <4>1, OctetHasBits, Zenon
      <4> QED
        BY ONLY <4>2, OctetRange
    <3>2. u[16] = 256 * u[8] + (128 * b(7) + 64 * b(6) + 32 * b(5) + 16 * b(4) + 8 * b(3) + 4 * b(2) + 2 * b(1) + b(0))
      BY <1>6, <1>7, <2>1, <2>2
    <3> QED
      BY <1>9, <3>1, <3>2
  <2> QED
    BY <2>3, <2>4, <2>5

LEMMA NumberOfRegister ==
  ASSUME NEW register
  PROVE  /\ NumberOf(register) \in HalfWords
         /\ BigEndian(NumberOf(register)) = <<Octet(register, 8), Octet(register, 0)>>
         /\ \A high, low \in Octets : 256 * high + low = NumberOf(register) =>
              high = Octet(register, 8) /\ low = Octet(register, 0)
<1>1. Octet(register, 8) \in Octets /\ Octet(register, 0) \in Octets
  <2>1. 8 \in Nat /\ 0 \in Nat
    OBVIOUS
  <2> QED
    BY <2>1, OctetHasBits, Zenon
<1>2. NumberOf(register) = 256 * Octet(register, 8) + Octet(register, 0)
  BY NumberIsOctets
<1>3. /\ NumberOf(register) \div 256 = Octet(register, 8)
      /\ NumberOf(register) % 256 = Octet(register, 0)
      /\ NumberOf(register) \in HalfWords
  BY ONLY <1>1, <1>2, PairArithmetic
<1>4. ASSUME NEW high \in Octets, NEW low \in Octets, 256 * high + low = NumberOf(register)
      PROVE  high = Octet(register, 8) /\ low = Octet(register, 0)
  BY ONLY <1>1, <1>2, <1>4, high \in Octets, low \in Octets, PairsDiffer
<1>5. BigEndian(NumberOf(register)) = <<Octet(register, 8), Octet(register, 0)>>
  BY <1>3 DEF BigEndian
<1> QED
  BY <1>3, <1>4, <1>5

LEMMA FlipsBits ==
  ASSUME NEW byte, NEW flips \in SUBSET (0..7)
  PROVE  /\ FlippedByte(byte, flips) \in Octets
         /\ BitsOf(FlippedByte(byte, flips)) = Xor(BitsOf(byte), flips)
<1> DEFINE reg == Xor(BitsOf(byte), flips)
<1>1. reg \subseteq 0..7
  BY DEF Xor, BitsOf
<1>2. FlippedByte(byte, flips) = NumberOf(reg)
  BY DEF FlippedByte
<1> HIDE DEF reg
<1>3. Octet(reg, 8) = 0
  <2>1. /\ Bit(reg, 8) = 0 /\ Bit(reg, 9) = 0 /\ Bit(reg, 10) = 0 /\ Bit(reg, 11) = 0
        /\ Bit(reg, 12) = 0 /\ Bit(reg, 13) = 0 /\ Bit(reg, 14) = 0 /\ Bit(reg, 15) = 0
    BY <1>1 DEF Bit
  <2> QED
    BY <2>1 DEF Octet
<1>4. Octet(reg, 0) \in Octets /\ BitsOf(Octet(reg, 0)) = { k \in 0..7 : 0 + k \in reg }
  BY OctetHasBits
<1>5. NumberOf(reg) = Octet(reg, 0)
  <2>1. Octet(reg, 0) \in Int
    BY <1>4, OctetRange
  <2>2. NumberOf(reg) = 256 * Octet(reg, 8) + Octet(reg, 0)
    BY NumberIsOctets
  <2> QED
    BY <1>3, <2>1, <2>2
<1>6. { k \in 0..7 : 0 + k \in reg } = reg
  <2>1. \A k \in 0..7 : 0 + k = k
    OBVIOUS
  <2>2. \A k \in 0..7 : 0 + k \in reg <=> k \in reg
    BY <2>1, Zenon
  <2> QED
    BY <1>1, <2>2, Zenon
<1> QED
  BY <1>2, <1>4, <1>5, <1>6 DEF reg

--------------------------------------------------------------------------------
(* The codec.                                                              *)

LEMMA PairOfBytes ==
  ASSUME NEW number \in HalfWords
  PROVE  /\ BigEndian(number) \in Seq(Octets) /\ Len(BigEndian(number)) = 2
         /\ BigEndian(number)[1] \in Octets /\ BigEndian(number)[2] \in Octets
         /\ 256 * BigEndian(number)[1] + BigEndian(number)[2] = number
<1> DEFINE high == number \div 256
           low  == number % 256
<1>1. high \in Octets /\ low \in Octets /\ 256 * high + low = number
  BY SplitArithmetic
<1>2. BigEndian(number) = <<high, low>>
  BY DEF BigEndian
<1> HIDE DEF high, low
<1> QED
  BY <1>1, <1>2

LEMMA TypeCodes ==
  /\ \A t \in {POLL, DATA, ACK, ERROR} : TypeCode[t] \in 1..4 /\ TypeOf(TypeCode[t]) = t
  /\ \A byte \in 1..4 : TypeOf(byte) \in {POLL, DATA, ACK, ERROR} /\ TypeCode[TypeOf(byte)] = byte
<1>1. /\ TypeCode[POLL] = 1 /\ TypeCode[DATA] = 2 /\ TypeCode[ACK] = 3 /\ TypeCode[ERROR] = 4
      /\ DOMAIN TypeCode = {POLL, DATA, ACK, ERROR}
  BY DEF TypeCode, POLL, DATA, ACK, ERROR
<1>2. /\ TypeOf(1) = POLL /\ TypeOf(2) = DATA /\ TypeOf(3) = ACK /\ TypeOf(4) = ERROR
  BY <1>1 DEF TypeOf
<1>3. \A byte \in 1..4 : byte = 1 \/ byte = 2 \/ byte = 3 \/ byte = 4
  OBVIOUS
<1> QED
  BY <1>1, <1>2, <1>3

\* The bytes that the CRC covers.
LEMMA BodyOfMessage ==
  ASSUME NEW m \in Messages, Len(m.payload) <= MaxPayload
  PROVE  /\ Body(m) \in Seq(Octets) /\ Len(Body(m)) = 7 + Len(m.payload)
         /\ Body(m)[1] = TypeCode[m.type] /\ Body(m)[2] = m.source
         /\ Body(m)[3] = m.destination /\ Body(m)[4] = m.transaction_id
         /\ Body(m)[5] = Len(m.payload)
         /\ \A i \in 1..Len(m.payload) : Body(m)[5 + i] = m.payload[i]
         /\ Body(m)[6 + Len(m.payload)] = BigEndian(m.sequence)[1]
         /\ Body(m)[7 + Len(m.payload)] = BigEndian(m.sequence)[2]
<1> DEFINE head == <<TypeCode[m.type], m.source, m.destination, m.transaction_id, Len(m.payload)>>
           seq == BigEndian(m.sequence)
           p == m.payload
           n == Len(m.payload)
           front == head \o p
<1>1. /\ m.source \in Octets /\ m.destination \in Octets /\ m.transaction_id \in Octets
      /\ p \in Seq(Octets) /\ n \in Nat /\ n <= 55 /\ m.sequence \in HalfWords
      /\ m.type \in {POLL, DATA, ACK, ERROR}
  BY LenProperties DEF Messages, MaxPayload
<1>2. TypeCode[m.type] \in Octets /\ n \in Octets
  <2>1. TypeCode[m.type] \in 1..4
    BY <1>1, TypeCodes, Zenon
  <2>2. n \in Nat /\ n <= 55
    BY <1>1
  <2>3. TypeCode[m.type] \in Octets
    BY ONLY <2>1, OctetRange
  <2>4. n \in Octets
    BY ONLY <2>2, OctetRange
  <2> QED
    BY <2>3, <2>4
<1>3. /\ head \in Seq(Octets) /\ Len(head) = 5
      /\ head[1] = TypeCode[m.type] /\ head[2] = m.source /\ head[3] = m.destination
      /\ head[4] = m.transaction_id /\ head[5] = n
  BY <1>1, <1>2
<1>4. seq \in Seq(Octets) /\ Len(seq) = 2
  BY <1>1, PairOfBytes
<1>5. Body(m) = front \o seq
  BY DEF Body
<1> HIDE DEF head, seq, p, n
<1>6. /\ front \in Seq(Octets) /\ Len(front) = 5 + Len(p)
      /\ \A i \in 1..(5 + Len(p)) : front[i] = IF i <= 5 THEN head[i] ELSE p[i - 5]
  <2>1. /\ front \in Seq(Octets) /\ Len(front) = Len(head) + Len(p)
        /\ \A i \in 1..(Len(head) + Len(p)) :
             front[i] = IF i <= Len(head) THEN head[i] ELSE p[i - Len(head)]
    BY <1>1, <1>3, ConcatProperties, Zenon
  <2> QED
    BY <1>3, <2>1
<1> HIDE DEF front
<1>7. n = Len(p)
  BY DEF n, p
<1>8. /\ Body(m) \in Seq(Octets) /\ Len(Body(m)) = (5 + n) + 2
      /\ \A i \in 1..((5 + n) + 2) : Body(m)[i] = IF i <= 5 + n THEN front[i] ELSE seq[i - (5 + n)]
  <2>1. /\ front \o seq \in Seq(Octets) /\ Len(front \o seq) = Len(front) + Len(seq)
        /\ \A i \in 1..(Len(front) + Len(seq)) :
             (front \o seq)[i] = IF i <= Len(front) THEN front[i] ELSE seq[i - Len(front)]
    BY <1>4, <1>6, ConcatProperties, Zenon
  <2>2. Len(front) = 5 + n /\ Len(seq) = 2
    BY <1>4, <1>6, <1>7
  <2> QED
    BY <1>5, <2>1, <2>2
<1>9. Len(Body(m)) = 7 + n
  BY <1>1, <1>8
<1>10. \A i \in 1..5 : Body(m)[i] = head[i]
  BY <1>1, <1>6, <1>7, <1>8
<1>11. \A i \in 1..n : Body(m)[5 + i] = p[i]
  <2> SUFFICES ASSUME NEW i \in 1..n PROVE Body(m)[5 + i] = p[i]
    OBVIOUS
  <2>1. 5 + i \in 1..((5 + n) + 2) /\ 5 + i \in 1..(5 + n) /\ 5 + i <= 5 + n /\ ~(5 + i <= 5) /\ (5 + i) - 5 = i
    BY <1>1
  <2> QED
    BY <1>6, <1>7, <1>8, <2>1
<1>12. Body(m)[6 + n] = seq[1] /\ Body(m)[7 + n] = seq[2]
  <2>1. /\ 6 + n \in 1..((5 + n) + 2) /\ 7 + n \in 1..((5 + n) + 2)
        /\ ~(6 + n <= 5 + n) /\ ~(7 + n <= 5 + n) /\ (6 + n) - (5 + n) = 1 /\ (7 + n) - (5 + n) = 2
    BY <1>1
  <2> QED
    BY <1>8, <2>1
<1> QED
  BY <1>3, <1>8, <1>9, <1>10, <1>11, <1>12 DEF n, p, seq

LEMMA PacketOfMessage ==
  ASSUME NEW m \in Messages, Len(m.payload) <= MaxPayload
  PROVE  LET n == Len(m.payload)
             crc == CalculateCcittFalse(Body(m))
         IN /\ n \in Nat /\ n <= 55
            /\ Encode(m) \in Seq(Octets) /\ Len(Encode(m)) = 9 + n
            /\ \A i \in 1..(7 + n) : Encode(m)[i] = Body(m)[i]
            /\ SubSeq(Encode(m), 1, 7 + n) = Body(m)
            /\ Encode(m)[8 + n] = Octet(crc, 8) /\ Encode(m)[9 + n] = Octet(crc, 0)
            /\ 256 * Encode(m)[8 + n] + Encode(m)[9 + n] = NumberOf(crc)
<1> DEFINE n == Len(m.payload)
           crc == CalculateCcittFalse(Body(m))
           body == Body(m)
           tail == BigEndian(NumberOf(crc))
<1>1. body \in Seq(Octets) /\ Len(body) = 7 + n
  BY BodyOfMessage
<1>2. n \in Nat /\ n <= 55
  BY LenProperties DEF Messages, MaxPayload
<1>3. /\ tail \in Seq(Octets) /\ Len(tail) = 2
      /\ tail[1] = Octet(crc, 8) /\ tail[2] = Octet(crc, 0)
      /\ 256 * tail[1] + tail[2] = NumberOf(crc)
  <2>1. NumberOf(crc) \in HalfWords /\ tail = <<Octet(crc, 8), Octet(crc, 0)>>
    BY NumberOfRegister, Zenon
  <2> QED
    BY <2>1, PairOfBytes
<1>4. Encode(m) = body \o tail
  BY DEF Encode
<1> HIDE DEF n, body, tail, crc
<1>5. /\ body \o tail \in Seq(Octets) /\ Len(body \o tail) = Len(body) + Len(tail)
      /\ \A i \in 1..(Len(body) + Len(tail)) :
           (body \o tail)[i] = IF i <= Len(body) THEN body[i] ELSE tail[i - Len(body)]
  BY <1>1, <1>3, ConcatProperties, Zenon
<1>6. /\ Encode(m) \in Seq(Octets) /\ Len(Encode(m)) = (7 + n) + 2
      /\ \A i \in 1..((7 + n) + 2) :
           Encode(m)[i] = IF i <= 7 + n THEN body[i] ELSE tail[i - (7 + n)]
  BY <1>1, <1>3, <1>4, <1>5
<1>7. \A i \in 1..(7 + n) : i \in 1..((7 + n) + 2) /\ i <= 7 + n
  BY <1>2
<1>8. \A i \in 1..(7 + n) : Encode(m)[i] = body[i]
  BY <1>6, <1>7
<1>9. Encode(m)[8 + n] = tail[1] /\ Encode(m)[9 + n] = tail[2]
  <2>1. /\ 8 + n \in 1..((7 + n) + 2) /\ 9 + n \in 1..((7 + n) + 2)
        /\ ~(8 + n <= 7 + n) /\ ~(9 + n <= 7 + n) /\ (8 + n) - (7 + n) = 1 /\ (9 + n) - (7 + n) = 2
    BY <1>2
  <2> QED
    BY <1>6, <2>1
<1>10. SubSeq(Encode(m), 1, 7 + n) = body
  <2> DEFINE s == SubSeq(Encode(m), 1, 7 + n)
  <2>1. 1 \in Int /\ 7 + n \in Int /\ 1 <= 7 + n /\ (7 + n) - 1 + 1 = 7 + n
    BY <1>2
  <2>2. \A i \in 1..(7 + n) : Encode(m)[i] \in Octets
    BY <1>6, <1>7, ElementOfSeq
  <2>3. /\ s \in Seq(Octets) /\ Len(s) = IF 1 <= 7 + n THEN (7 + n) - 1 + 1 ELSE 0
        /\ \A i \in 1..((7 + n) - 1 + 1) : s[i] = Encode(m)[1 + i - 1]
    BY <2>1, <2>2, SubSeqProperties
  <2> HIDE DEF s
  <2>4. \A i \in 1..(7 + n) : 1 + i - 1 = i
    OBVIOUS
  <2>5. Len(s) = 7 + n /\ \A i \in 1..(7 + n) : s[i] = Encode(m)[i]
    BY <2>1, <2>3, <2>4
  <2>6. Len(s) = Len(body) /\ \A i \in 1..Len(s) : s[i] = body[i]
    BY <1>1, <1>8, <2>5
  <2>7. s = body
    BY <1>1, <2>3, <2>6, SeqEqual, Zenon
  <2> QED
    BY <2>7 DEF s
<1>11. Len(Encode(m)) = 9 + n
  BY <1>2, <1>6
<1> QED
  BY <1>2, <1>3, <1>6, <1>8, <1>9, <1>10, <1>11 DEF n, crc, body

LEMMA LengthRange ==
  ASSUME NEW x PROVE x \in MinLength..MaxLength <=> x \in Int /\ 9 <= x /\ x <= 64
BY DEF MinLength, MaxLength

LEMMA FieldsOfMessage ==
  ASSUME NEW m \in Messages
  PROVE  m = [type |-> m.type, source |-> m.source, destination |-> m.destination,
              transaction_id |-> m.transaction_id, payload |-> m.payload,
              sequence |-> m.sequence]
BY DEF Messages

\* What is decoded is what was encoded.
LEMMA RoundTrip ==
  ASSUME NEW m \in Messages, IsMessageValid(m)
  PROVE  Decode(Encode(m)) /\ Spelled(Encode(m)) = m
<1> DEFINE n == Len(m.payload)
           f == Encode(m)
           body == Body(m)
           crc == CalculateCcittFalse(body)
           s == SubSeq(f, 6, 5 + n)
<1>0. Len(m.payload) <= MaxPayload
  BY DEF IsMessageValid
<1>1. /\ n \in Nat /\ n <= 55
      /\ f \in Seq(Octets) /\ Len(f) = 9 + n /\ \A i \in 1..(7 + n) : f[i] = body[i]
      /\ SubSeq(f, 1, 7 + n) = body /\ 256 * f[8 + n] + f[9 + n] = NumberOf(crc)
      /\ \A i \in 1..(9 + n) : f[i] \in Octets
  BY <1>0, PacketOfMessage, ElementOfSeq
<1>2. /\ body[1] = TypeCode[m.type] /\ body[2] = m.source
      /\ body[3] = m.destination /\ body[4] = m.transaction_id /\ body[5] = n
      /\ \A i \in 1..n : body[5 + i] = m.payload[i]
      /\ body[6 + n] = BigEndian(m.sequence)[1] /\ body[7 + n] = BigEndian(m.sequence)[2]
  BY <1>0, BodyOfMessage
<1>3. /\ m.type \in {POLL, DATA, ACK, ERROR} /\ m.payload \in Seq(Octets)
      /\ m.sequence \in HalfWords
  BY DEF Messages
<1> HIDE DEF f, body, crc
<1>4. /\ f[1] = TypeCode[m.type] /\ f[2] = m.source
      /\ f[3] = m.destination /\ f[4] = m.transaction_id /\ f[5] = n
  <2>1. 1 \in 1..(7 + n) /\ 2 \in 1..(7 + n) /\ 3 \in 1..(7 + n) /\ 4 \in 1..(7 + n) /\ 5 \in 1..(7 + n)
    BY <1>1
  <2> QED
    BY <1>1, <1>2, <2>1
<1>5. 256 * f[6 + n] + f[7 + n] = m.sequence
  <2>1. 6 + n \in 1..(7 + n) /\ 7 + n \in 1..(7 + n)
    BY <1>1
  <2>2. f[6 + n] = BigEndian(m.sequence)[1] /\ f[7 + n] = BigEndian(m.sequence)[2]
    BY <1>1, <1>2, <2>1
  <2> QED
    BY <1>3, <2>2, PairOfBytes
<1>6. s = m.payload
  <2>1. 6 \in Int /\ 5 + n \in Int /\ (6 <= 5 + n <=> 1 <= n) /\ (5 + n) - 6 + 1 = n
    BY <1>1
  <2>2. \A i \in 6..(5 + n) : f[i] \in Octets
    BY <1>1
  <2>3. /\ s \in Seq(Octets) /\ Len(s) = IF 6 <= 5 + n THEN (5 + n) - 6 + 1 ELSE 0
        /\ \A i \in 1..((5 + n) - 6 + 1) : s[i] = f[6 + i - 1]
    BY <2>1, <2>2, SubSeqProperties
  <2> HIDE DEF s
  <2>4. \A i \in 1..n : 6 + i - 1 = 5 + i /\ 5 + i \in 1..(7 + n)
    BY <1>1
  <2>5. Len(s) = n
    BY <1>1, <2>1, <2>3
  <2>6. \A i \in 1..n : s[i] = m.payload[i]
    BY <1>1, <1>2, <2>1, <2>3, <2>4
  <2> QED
    BY <1>3, <2>3, <2>5, <2>6, SeqEqual
<1>7. Spelled(f) = m
  <2>1. TypeOf(f[1]) = m.type
    BY <1>3, <1>4, TypeCodes
  <2> HIDE DEF n
  <2>2. Spelled(f) = [type |-> TypeOf(f[1]), source |-> f[2], destination |-> f[3],
          transaction_id |-> f[4], payload |-> s, sequence |-> 256 * f[6 + n] + f[7 + n]]
    BY <1>4 DEF Spelled
  <2> QED
    BY <1>4, <1>5, <1>6, <2>1, <2>2, FieldsOfMessage
<1>8. Fits(f)
  <2>1. Len(f) = 9 + n /\ n \in Nat /\ n <= 55 /\ f[5] = n
    BY <1>1, <1>4
  <2>0. n \in Nat /\ n <= 55
    BY <1>1
  <2>2. 9 + n \in Int /\ 9 <= 9 + n /\ 9 + n <= 64
    BY ONLY <2>0
  <2>3. Len(f) \in MinLength..MaxLength
    BY ONLY <2>1, <2>2, LengthRange
  <2> QED
    BY ONLY <2>1, <2>3 DEF Fits, MinLength, MaxPayload
<1>9. CrcMatches(f)
  <2> HIDE DEF n
  <2>1. (7 + n) + 1 = 8 + n /\ (7 + n) + 2 = 9 + n
    BY <1>1
  <2>2. CrcMatches(f) <=> f[(7 + n) + 1] * 256 + f[(7 + n) + 2] = NumberOf(crc)
    BY <1>1, <1>4 DEF CrcMatches, crc
  <2>3. f[8 + n] \in Int /\ f[9 + n] \in Int
    BY <1>1, OctetRange
  <2>4. f[8 + n] * 256 + f[9 + n] = NumberOf(crc)
    BY <1>1, <2>3
  <2> QED
    BY <2>1, <2>2, <2>4
<1> QED
  BY <1>7, <1>8, <1>9 DEF Decode, f

\* Nothing is decoded but what is encoded so.
LEMMA Canonical ==
  ASSUME NEW input \in Seq(Octets), Decode(input)
  PROVE  /\ Spelled(input) \in Messages /\ IsMessageValid(Spelled(input))
         /\ input = Encode(Spelled(input))
<1> DEFINE n == input[5]
           m == Spelled(input)
           p == SubSeq(input, 6, 5 + n)
           sum == 256 * input[6 + n] + input[7 + n]
           body == Body(m)
           front == SubSeq(input, 1, 7 + n)
<1>1. Fits(input) /\ IsMessageValid(m) /\ CrcMatches(input)
  BY DEF Decode
<1>2. n \in Nat /\ n <= 55 /\ Len(input) = 9 + n /\ \A i \in 1..(9 + n) : input[i] \in Octets
  <2>1. Len(input) \in MinLength..MaxLength /\ n <= 55 /\ Len(input) = 9 + n
    BY <1>1 DEF Fits, MinLength, MaxPayload
  <2>6. Len(input) \in Int /\ 9 <= Len(input)
    BY <2>1, LengthRange
  <2>2. \A i \in 1..Len(input) : input[i] \in Octets
    BY ElementOfSeq
  <2>5. 5 \in 1..Len(input)
    BY ONLY <2>6
  <2>3. n \in Octets
    BY <2>2, <2>5
  <2>4. n \in Nat
    BY <2>3, OctetRange
  <2> QED
    BY <2>1, <2>2, <2>4
<1>3. m = [type |-> TypeOf(input[1]), source |-> input[2], destination |-> input[3],
           transaction_id |-> input[4], payload |-> p, sequence |-> sum]
  BY DEF Spelled
<1>4. /\ p \in Seq(Octets) /\ Len(p) = n /\ \A i \in 1..n : p[i] = input[5 + i]
  <2> HIDE DEF n
  <2>1. 6 \in Int /\ 5 + n \in Int /\ (6 <= 5 + n <=> 1 <= n) /\ (5 + n) - 6 + 1 = n
    BY <1>2
  <2>2. \A i \in 6..(5 + n) : input[i] \in Octets
    BY <1>2
  <2>3. /\ p \in Seq(Octets) /\ Len(p) = IF 6 <= 5 + n THEN (5 + n) - 6 + 1 ELSE 0
        /\ \A i \in 1..((5 + n) - 6 + 1) : p[i] = input[6 + i - 1]
    BY <2>1, <2>2, SubSeqProperties
  <2> HIDE DEF p
  <2>4. \A i \in 1..n : 6 + i - 1 = 5 + i
    BY <1>2
  <2>5. Len(p) = n
    BY <1>2, <2>1, <2>3
  <2> QED
    BY <2>1, <2>3, <2>4, <2>5
<1>5. /\ front \in Seq(Octets) /\ Len(front) = 7 + n /\ \A i \in 1..(7 + n) : front[i] = input[i]
  <2> HIDE DEF n
  <2>1. 1 \in Int /\ 7 + n \in Int /\ 1 <= 7 + n /\ (7 + n) - 1 + 1 = 7 + n
    BY <1>2
  <2>2. \A i \in 1..(7 + n) : input[i] \in Octets
    BY <1>2
  <2>3. /\ front \in Seq(Octets) /\ Len(front) = IF 1 <= 7 + n THEN (7 + n) - 1 + 1 ELSE 0
        /\ \A i \in 1..((7 + n) - 1 + 1) : front[i] = input[1 + i - 1]
    BY <2>1, <2>2, SubSeqProperties
  <2> HIDE DEF front
  <2>4. \A i \in 1..(7 + n) : 1 + i - 1 = i
    BY <1>2
  <2> QED
    BY <2>1, <2>3, <2>4
<1>6. /\ input[6 + n] \in Octets /\ input[7 + n] \in Octets
      /\ sum \in HalfWords /\ BigEndian(sum)[1] = input[6 + n] /\ BigEndian(sum)[2] = input[7 + n]
  <2>1. input[6 + n] \in Octets /\ input[7 + n] \in Octets
    BY <1>2
  <2> HIDE DEF n
  <2>2. /\ sum \div 256 = input[6 + n] /\ sum % 256 = input[7 + n] /\ sum \in HalfWords
    BY ONLY <2>1, PairArithmetic
  <2> HIDE DEF sum
  <2> QED
    BY <2>1, <2>2 DEF BigEndian
<1>7. input[1] \in 1..4
  <2>1. m.type # UNKNOWN
    BY <1>1 DEF IsMessageValid, UNKNOWN, POLL, DATA, ACK, ERROR
  <2> QED
    BY <1>3, <2>1 DEF TypeOf
<1>8. m.type \in {POLL, DATA, ACK, ERROR} /\ TypeCode[m.type] = input[1]
  BY <1>3, <1>7, TypeCodes
<1> HIDE DEF p, sum, front
<1>9. m \in Messages
  <2>1. input[2] \in Octets /\ input[3] \in Octets /\ input[4] \in Octets
    BY <1>2
  <2> QED
    BY <1>3, <1>4, <1>6, <1>8, <2>1 DEF Messages
<1>10. Len(m.payload) = n /\ Len(m.payload) <= MaxPayload
  BY <1>2, <1>3, <1>4 DEF MaxPayload
<1> HIDE DEF n, m
<1>11. body = front
  <2>1. /\ body \in Seq(Octets) /\ Len(body) = 7 + n
        /\ body[1] = TypeCode[m.type] /\ body[2] = m.source
        /\ body[3] = m.destination /\ body[4] = m.transaction_id /\ body[5] = n
        /\ \A i \in 1..n : body[5 + i] = m.payload[i]
        /\ body[6 + n] = BigEndian(m.sequence)[1] /\ body[7 + n] = BigEndian(m.sequence)[2]
    BY <1>9, <1>10, BodyOfMessage
  <2>2. /\ body[1] = input[1] /\ body[2] = input[2] /\ body[3] = input[3]
        /\ body[4] = input[4] /\ body[5] = input[5]
    BY <1>3, <1>8, <2>1 DEF n
  <2>3. \A i \in 1..n : body[5 + i] = input[5 + i]
    BY <1>3, <1>4, <2>1
  <2>4. body[6 + n] = input[6 + n] /\ body[7 + n] = input[7 + n]
    BY <1>3, <1>6, <2>1
  <2>5. ASSUME NEW i \in 1..(7 + n) PROVE body[i] = input[i]
    <3>1. \/ i = 1 \/ i = 2 \/ i = 3 \/ i = 4 \/ i = 5
          \/ i = 6 + n \/ i = 7 + n
          \/ i - 5 \in 1..n /\ 5 + (i - 5) = i
      BY <1>2
    <3>2. CASE i = 1 \/ i = 2 \/ i = 3 \/ i = 4 \/ i = 5
      BY <2>2, <3>2
    <3>3. CASE i = 6 + n \/ i = 7 + n
      BY <2>4, <3>3
    <3>4. CASE i - 5 \in 1..n /\ 5 + (i - 5) = i
      BY <2>3, <3>4
    <3> QED
      BY <3>1, <3>2, <3>3, <3>4
  <2> HIDE DEF body
  <2> QED
    BY <1>5, <2>1, <2>5, SeqEqual
<1> DEFINE crc == CalculateCcittFalse(body)
<1>12. input[8 + n] = Octet(crc, 8) /\ input[9 + n] = Octet(crc, 0)
  <2>1. input[8 + n] \in Octets /\ input[9 + n] \in Octets
    BY <1>2
  <2>2. CrcMatches(input) <=> input[(7 + n) + 1] * 256 + input[(7 + n) + 2] = NumberOf(crc)
    BY <1>11 DEF CrcMatches, n, front
  <2>3. (7 + n) + 1 = 8 + n /\ (7 + n) + 2 = 9 + n
    BY <1>2
  <2>4. input[8 + n] * 256 + input[9 + n] = NumberOf(crc)
    BY <1>1, <2>2, <2>3
  <2>5. 256 * input[8 + n] + input[9 + n] = NumberOf(crc)
    BY <2>1, <2>4, OctetRange
  <2> QED
    BY <2>1, <2>5, NumberOfRegister
<1>13. /\ Encode(m) \in Seq(Octets) /\ Len(Encode(m)) = 9 + n
       /\ \A i \in 1..(7 + n) : Encode(m)[i] = body[i]
       /\ Encode(m)[8 + n] = Octet(crc, 8) /\ Encode(m)[9 + n] = Octet(crc, 0)
  BY <1>9, <1>10, PacketOfMessage
<1>14. ASSUME NEW i \in 1..(9 + n) PROVE Encode(m)[i] = input[i]
  <2>1. i \in 1..(7 + n) \/ i = 8 + n \/ i = 9 + n
    BY <1>2
  <2>2. CASE i \in 1..(7 + n)
    BY <1>5, <1>11, <1>13, <2>2
  <2>3. CASE i = 8 + n \/ i = 9 + n
    BY <1>12, <1>13, <2>3
  <2> QED
    BY <2>1, <2>2, <2>3
<1>15. Encode(m) = input
  BY <1>2, <1>13, <1>14, SeqEqual
<1> QED
  BY <1>1, <1>9, <1>15 DEF m

--------------------------------------------------------------------------------
(* What is sent.                                                           *)

LEMMA HighAndLow ==
  ASSUME NEW number \in Int PROVE High(number) \in Octets /\ Low(number) \in Octets
<1>1. number % 65536 \in Int /\ 0 <= number % 65536 /\ number % 65536 < 65536
  OBVIOUS
<1> DEFINE n == number % 65536
<1>2. n \div 256 \in Int /\ 0 <= n \div 256 /\ n \div 256 <= 255
  <2> HIDE DEF n
  <2>1. n \in Int /\ 0 <= n /\ n < 65536
    BY <1>1 DEF n
  <2> QED
    BY <2>1
<1>3. number % 256 \in Int /\ 0 <= number % 256 /\ number % 256 <= 255
  OBVIOUS
<1> QED
  BY <1>2, <1>3, OctetRange DEF High, Low

LEMMA AddressRange ==
  ASSUME NEW x PROVE x \in NodeAddresses <=> x \in Int /\ 1 <= x /\ x <= 254
BY DEF NodeAddresses

LEMMA GatewayIsOctet == GatewayAddress \in Octets /\ \A a \in NodeAddresses : a \in Octets
<1>1. 0 \in Octets
  BY OctetRange
<1>2. \A a \in NodeAddresses : a \in Octets
  BY OctetRange, AddressRange
<1> QED
  BY <1>1, <1>2 DEF GatewayAddress

LEMMA ErrorIsMessage ==
  ASSUME NEW r \in Requests, NEW code \in ErrorCodes
  PROVE  LET m == BuildError(r, code).message
         IN m \in Messages /\ IsMessageValid(m)
<1> DEFINE m == InitializeMessage(r, ERROR, <<code>>)
<1>1. r.node_address \in NodeAddresses /\ r.transaction_id \in Octets /\ r.sequence \in HalfWords
  BY TrafficAssumption
<1>2. code \in Octets
  BY OctetRange DEF ErrorCodes
<1>3. /\ m.type = ERROR /\ m.source = r.node_address /\ m.destination = GatewayAddress
      /\ m.payload = <<code>> /\ m \in Messages
  BY <1>1, <1>2, GatewayIsOctet DEF InitializeMessage, Messages
<1> HIDE DEF m
<1>4. Len(m.payload) = 1 /\ m.payload[1] = code
  BY <1>3
<1>5. IsMessageValid(m)
  BY <1>1, <1>3, <1>4 DEF IsMessageValid, MaxPayload, ErrorPayloadLength, POLL, DATA, ACK, ERROR
<1> QED
  BY <1>3, <1>5 DEF BuildError, m

LEMMA DataIsMessage ==
  ASSUME NEW r \in Requests, r.sensor.status = SENSOR_OK
  PROVE  LET m == DataMessage(r) IN m \in Messages /\ IsMessageValid(m)
<1> DEFINE t == r.sensor.temperature_x10
           h == r.sensor.humidity_x10
           p == <<High(t), Low(t), High(h), Low(h)>>
           m == DataMessage(r)
<1>1. r.node_address \in NodeAddresses /\ r.transaction_id \in Octets /\ r.sequence \in HalfWords
  BY TrafficAssumption
<1>2. t \in Int /\ h \in Int
  <2>1. t \in SignedHalfWords /\ h \in HalfWords
    BY TrafficAssumption
  <2> QED
    BY <2>1, HalfWordRange, SignedRange
<1> HIDE DEF t, h
<1>3. p \in Seq(Octets) /\ Len(p) = 4
  BY <1>2, HighAndLow
<1>4. m = InitializeMessage(r, DATA, p)
  BY DEF DataMessage, t, h
<1> HIDE DEF p, m
<1>5. /\ m.type = DATA /\ m.source = r.node_address /\ m.destination = GatewayAddress
      /\ m.payload = p /\ m \in Messages
  BY <1>1, <1>3, <1>4, GatewayIsOctet DEF InitializeMessage, Messages
<1>6. IsMessageValid(m)
  BY <1>1, <1>3, <1>5 DEF IsMessageValid, MaxPayload, DataPayloadLength, POLL, DATA, ACK, ERROR
<1> QED
  BY <1>5, <1>6 DEF m

LEMMA AnswerIsMessage ==
  ASSUME NEW r \in Requests
  PROVE  /\ Build(r).message \in Messages /\ IsMessageValid(Build(r).message)
         /\ Build(r).message.type = DATA =>
              r.sensor.status = SENSOR_OK /\ Build(r).message = DataMessage(r)
<1>1. r.node_address \in NodeAddresses /\ r.sensor.status \in SensorFailures \cup {SENSOR_OK}
  BY TrafficAssumption
<1>2. CASE r.sensor.status # SENSOR_OK
  <2> DEFINE code == MapSensorError(r.sensor.status)
  <2>1. code \in ErrorCodes
    BY DEF MapSensorError, ErrorCodes, PACKET_BUILD_FAILED
  <2>2. Build(r) = BuildError(r, code)
    BY <1>1, <1>2 DEF Build
  <2> HIDE DEF code
  <2>3. BuildError(r, code).message.type = ERROR
    BY DEF BuildError, InitializeMessage
  <2> QED
    BY <2>1, <2>2, <2>3, ErrorIsMessage DEF DATA, ERROR
<1>3. CASE r.sensor.status = SENSOR_OK
  <2>1. DataMessage(r) \in Messages /\ IsMessageValid(DataMessage(r))
    BY <1>3, DataIsMessage
  <2>2. Build(r).message = DataMessage(r)
    BY <1>1, <1>3, <2>1 DEF Build
  <2> QED
    BY <1>3, <2>1, <2>2
<1> QED
  BY <1>2, <1>3

LEMMA SentIsMessage ==
  ASSUME NEW s \in Sendable PROVE s.message \in Messages /\ IsMessageValid(s.message)
<1>1. ASSUME NEW r \in Requests, s = [message |-> Build(r).message, sensor |-> r.sensor]
      PROVE  s.message \in Messages /\ IsMessageValid(s.message)
  BY <1>1, AnswerIsMessage
<1>2. ASSUME NEW m \in Downlinks, s = [message |-> m, sensor |-> NoSensor]
      PROVE  s.message \in Messages /\ IsMessageValid(s.message)
  BY <1>2, TrafficAssumption
<1> QED
  BY <1>1, <1>2 DEF Sendable

--------------------------------------------------------------------------------
(* The long division.                                                      *)

LEMMA InXor == \A a, b, x : x \in Xor(a, b) <=> ~(x \in a <=> x \in b)
BY DEF Xor

LEMMA DivideIsSet ==
  \A s \in SUBSET Int, n \in Int : Divide(s, n) \in SUBSET Int
BY DEF Divide, Xor

LEMMA DividedZero ==
  ASSUME NEW terms \in SUBSET Int PROVE Divided(terms, 0) = terms
<1>1. PICK r \in [0..0 -> SUBSET Int] : r[0] = terms /\ Divided(terms, 0) = r[0]
  <2>1. 0 \in Nat
    OBVIOUS
  <2> QED
    BY <2>1, DividedUnfolds, Zenon
<1> QED
  BY <1>1

LEMMA DividedIsUnique ==
  ASSUME NEW terms \in SUBSET Int, NEW N \in Nat, NEW r \in [0..N -> SUBSET Int],
         r[0] = terms, \A n \in 1..N : r[n] = Divide(r[n - 1], n), NEW k \in 0..N
  PROVE  r[k] = Divided(terms, k)
<1>1. PICK q \in [0..k -> SUBSET Int] :
        /\ q[0] = terms /\ \A n \in 1..k : q[n] = Divide(q[n - 1], n)
        /\ Divided(terms, k) = q[k]
  <2>1. k \in Nat
    OBVIOUS
  <2> QED
    BY <2>1, DividedUnfolds, Zenon
<1> DEFINE Same == { n \in Nat : n <= k => q[n] = r[n] }
<1>2. 0 \in Same
  BY <1>1
<1>3. ASSUME NEW n \in Nat, n \in Same PROVE n + 1 \in Same
  <2> SUFFICES ASSUME n + 1 <= k PROVE q[n + 1] = r[n + 1]
    OBVIOUS
  <2>1. n + 1 \in 1..k /\ n + 1 \in 1..N /\ (n + 1) - 1 = n /\ q[n] = r[n]
    BY <1>3
  <2>2. q[n + 1] = Divide(q[n], n + 1) /\ r[n + 1] = Divide(r[n], n + 1)
    BY <1>1, <2>1
  <2> QED
    BY <2>1, <2>2
<1> HIDE DEF Same
<1>4. k \in Same
  <2>1. k \in Nat
    OBVIOUS
  <2> QED
    BY <1>2, <1>3, <2>1, Induction
<1> QED
  BY <1>1, <1>4 DEF Same

LEMMA DividedStep ==
  ASSUME NEW terms \in SUBSET Int, NEW n \in Nat
  PROVE  /\ Divided(terms, n) \in SUBSET Int
         /\ Divided(terms, n + 1) = Divide(Divided(terms, n), n + 1)
<1>1. PICK r \in [0..(n + 1) -> SUBSET Int] :
        /\ r[0] = terms /\ \A k \in 1..(n + 1) : r[k] = Divide(r[k - 1], k)
        /\ Divided(terms, n + 1) = r[n + 1]
  <2>1. n + 1 \in Nat
    OBVIOUS
  <2> QED
    BY <2>1, DividedUnfolds, Zenon
<1>2. n + 1 \in Nat /\ n \in 0..(n + 1) /\ n + 1 \in 1..(n + 1) /\ (n + 1) - 1 = n
  OBVIOUS
<1>3. r[n] = Divided(terms, n)
  BY <1>1, <1>2, DividedIsUnique, Zenon
<1>4. r[n + 1] = Divide(r[n], n + 1) /\ r[n] \in SUBSET Int
  BY <1>1, <1>2
<1> QED
  BY <1>1, <1>3, <1>4, Zenon

LEMMA DivideXor ==
  ASSUME NEW a, NEW b, NEW n PROVE Divide(Xor(a, b), n) = Xor(Divide(a, n), Divide(b, n))
<1> DEFINE taps == {n, n + 4, n + 11, n + 16}
<1>1. \A s, x : x \in Divide(s, n) <=> ~(x \in s <=> (n \in s /\ x \in taps))
  BY InXor DEF Divide
<1> HIDE DEF taps
<1>2. \A x : x \in Divide(Xor(a, b), n) <=> x \in Xor(Divide(a, n), Divide(b, n))
  <2> SUFFICES ASSUME NEW x
               PROVE  x \in Divide(Xor(a, b), n) <=> x \in Xor(Divide(a, n), Divide(b, n))
    OBVIOUS
  <2>1. x \in Divide(Xor(a, b), n) <=> ~(x \in Xor(a, b) <=> (n \in Xor(a, b) /\ x \in taps))
    BY <1>1
  <2>2. /\ x \in Xor(a, b) <=> ~(x \in a <=> x \in b)
        /\ n \in Xor(a, b) <=> ~(n \in a <=> n \in b)
        /\ x \in Xor(Divide(a, n), Divide(b, n)) <=> ~(x \in Divide(a, n) <=> x \in Divide(b, n))
    BY InXor
  <2>3. /\ x \in Divide(a, n) <=> ~(x \in a <=> (n \in a /\ x \in taps))
        /\ x \in Divide(b, n) <=> ~(x \in b <=> (n \in b /\ x \in taps))
    BY <1>1
  <2> QED
    BY ONLY <2>1, <2>2, <2>3
<1> QED
  BY <1>2

LEMMA DivisionIsLinear ==
  ASSUME NEW a \in SUBSET Int, NEW b \in SUBSET Int, NEW N \in Nat
  PROVE  Divided(Xor(a, b), N) = Xor(Divided(a, N), Divided(b, N))
<1>1. Xor(a, b) \in SUBSET Int
  BY DEF Xor
<1> DEFINE Fine == { n \in Nat : Divided(Xor(a, b), n) = Xor(Divided(a, n), Divided(b, n)) }
<1>2. 0 \in Fine
  BY <1>1, DividedZero
<1>3. ASSUME NEW n \in Nat, n \in Fine PROVE n + 1 \in Fine
  <2>1. Divided(Xor(a, b), n + 1) = Divide(Divided(Xor(a, b), n), n + 1)
    BY <1>1, DividedStep
  <2>2. /\ Divided(a, n + 1) = Divide(Divided(a, n), n + 1)
        /\ Divided(b, n + 1) = Divide(Divided(b, n), n + 1)
    BY DividedStep
  <2>3. Divided(Xor(a, b), n) = Xor(Divided(a, n), Divided(b, n))
    BY <1>3
  <2>4. Divided(Xor(a, b), n + 1) = Xor(Divided(a, n + 1), Divided(b, n + 1))
    <3>1. Divide(Xor(Divided(a, n), Divided(b, n)), n + 1)
            = Xor(Divide(Divided(a, n), n + 1), Divide(Divided(b, n), n + 1))
      BY DivideXor
    <3> QED
      BY ONLY <2>1, <2>2, <2>3, <3>1
  <2> QED
    BY <2>4
<1> HIDE DEF Fine
<1>4. N \in Fine
  BY <1>2, <1>3, Induction
<1> QED
  BY <1>4 DEF Fine

\* Terms behind the first n are not touched.
LEMMA Untouched ==
  ASSUME NEW terms \in SUBSET Int, NEW N \in Nat, \A t \in terms : t > N
  PROVE  Divided(terms, N) = terms
<1> DEFINE Fine == { n \in Nat : n <= N => Divided(terms, n) = terms }
<1>1. 0 \in Fine
  BY DividedZero
<1>2. ASSUME NEW n \in Nat, n \in Fine PROVE n + 1 \in Fine
  <2> SUFFICES ASSUME n + 1 <= N PROVE Divided(terms, n + 1) = terms
    OBVIOUS
  <2>1. Divided(terms, n) = terms /\ n + 1 \notin terms
    BY <1>2
  <2> QED
    BY <2>1, DividedStep DEF Divide
<1> HIDE DEF Fine
<1>3. N \in Fine
  BY <1>1, <1>2, Induction
<1> QED
  BY <1>3 DEF Fine

\* The first n terms are gone.
LEMMA Cleared ==
  ASSUME NEW terms \in SUBSET Int, \A t \in terms : t > 0, NEW N \in Nat
  PROVE  \A t \in Divided(terms, N) : t \in Int /\ t > N
<1> DEFINE Fine == { n \in Nat : \A t \in Divided(terms, n) : t \in Int /\ t > n }
<1>1. 0 \in Fine
  BY DividedZero
<1>2. ASSUME NEW n \in Nat, n \in Fine PROVE n + 1 \in Fine
  <2> DEFINE s == Divided(terms, n)
  <2>1. \A t \in s : t \in Int /\ t > n
    BY <1>2
  <2>2. Divided(terms, n + 1) = Divide(s, n + 1)
    BY DividedStep
  <2> HIDE DEF s
  <2>3. ASSUME NEW t \in Divide(s, n + 1) PROVE t \in Int /\ t > n + 1
    <3>1. CASE n + 1 \in s
      <4>1. ~(t \in s <=> t \in {n + 1, (n + 1) + 4, (n + 1) + 11, (n + 1) + 16})
        BY <2>3, <3>1, InXor DEF Divide
      <4>2. t # n + 1
        BY <3>1, <4>1
      <4> QED
        BY <2>1, <4>1, <4>2
    <3>2. CASE n + 1 \notin s
      <4>1. t \in s /\ t # n + 1
        BY <2>3, <3>2 DEF Divide
      <4> QED
        BY <2>1, <4>1
    <3> QED
      BY <3>1, <3>2
  <2> QED
    BY <2>2, <2>3
<1> HIDE DEF Fine
<1>3. N \in Fine
  BY <1>1, <1>2, Induction
<1> QED
  BY <1>3 DEF Fine

LEMMA NothingStays ==
  ASSUME NEW terms \in SUBSET Int, NEW N \in Nat, NEW more \in Nat, Divided(terms, N) = {}
  PROVE  Divided(terms, N + more) = {}
<1> DEFINE Fine == { n \in Nat : Divided(terms, N + n) = {} }
<1>1. 0 \in Fine
  <2>1. N + 0 = N
    OBVIOUS
  <2> QED
    BY <2>1
<1>2. ASSUME NEW n \in Nat, n \in Fine PROVE n + 1 \in Fine
  <2>1. N + n \in Nat /\ N + (n + 1) = (N + n) + 1
    OBVIOUS
  <2>2. Divided(terms, N + n) = {}
    BY <1>2
  <2>3. Divided(terms, (N + n) + 1) = Divide({}, (N + n) + 1)
    BY <2>1, <2>2, DividedStep
  <2> QED
    BY <2>1, <2>3 DEF Divide
<1> HIDE DEF Fine
<1>3. more \in Fine
  BY <1>1, <1>2, Induction
<1> QED
  BY <1>3 DEF Fine

Shifted(terms, s) == { t + s : t \in terms }

\* Where in a packet wrong bits begin makes no difference.
LEMMA DivisionShifts ==
  ASSUME NEW terms \in SUBSET Int, \A t \in terms : t > 0, NEW s \in Nat, NEW N \in Nat
  PROVE  Divided(Shifted(terms, s), s + N) = Shifted(Divided(terms, N), s)
<1>1. Shifted(terms, s) \in SUBSET Int /\ \A t \in Shifted(terms, s) : t > s
  BY DEF Shifted
<1> DEFINE Fine == { n \in Nat : Divided(Shifted(terms, s), s + n) = Shifted(Divided(terms, n), s) }
<1>2. 0 \in Fine
  <2>1. s + 0 = s
    OBVIOUS
  <2>2. Divided(Shifted(terms, s), s) = Shifted(terms, s)
    BY <1>1, Untouched
  <2> QED
    BY <2>1, <2>2, DividedZero
<1>3. ASSUME NEW n \in Nat, n \in Fine PROVE n + 1 \in Fine
  <2> DEFINE u == Divided(terms, n)
  <2>1. s + n \in Nat /\ s + (n + 1) = (s + n) + 1
    OBVIOUS
  <2>2. /\ Divided(Shifted(terms, s), (s + n) + 1) = Divide(Shifted(u, s), (s + n) + 1)
        /\ Divided(terms, n + 1) = Divide(u, n + 1) /\ u \in SUBSET Int
    BY <1>1, <1>3, <2>1, DividedStep
  <2> HIDE DEF u
  <2>3. \A v \in SUBSET Int, x \in Int : x \in Shifted(v, s) <=> x - s \in v
    BY DEF Shifted
  <2>4. /\ Shifted(u, s) \in SUBSET Int /\ Divide(u, n + 1) \in SUBSET Int
        /\ Divide(Shifted(u, s), (s + n) + 1) \in SUBSET Int
        /\ Shifted(Divide(u, n + 1), s) \in SUBSET Int
    <3>1. Divide(u, n + 1) \in SUBSET Int
      BY <2>2, DivideIsSet
    <3>2. Shifted(u, s) \in SUBSET Int /\ Shifted(Divide(u, n + 1), s) \in SUBSET Int
      BY <2>2, <3>1 DEF Shifted
    <3> QED
      BY <2>1, <3>1, <3>2, DivideIsSet
  <2>5. ASSUME NEW x \in Int
        PROVE  x \in Divide(Shifted(u, s), (s + n) + 1) <=> x \in Shifted(Divide(u, n + 1), s)
    <3>1. (s + n) + 1 \in Shifted(u, s) <=> n + 1 \in u
      BY <2>2, <2>3
    <3>2. x \in Shifted(u, s) <=> x - s \in u
      BY <2>2, <2>3
    <3>3. x \in Shifted(Divide(u, n + 1), s) <=> x - s \in Divide(u, n + 1)
      BY <2>3, <2>4
    <3>4. x \in {(s + n) + 1, ((s + n) + 1) + 4, ((s + n) + 1) + 11, ((s + n) + 1) + 16}
            <=> x - s \in {n + 1, (n + 1) + 4, (n + 1) + 11, (n + 1) + 16}
      OBVIOUS
    <3>5. CASE n + 1 \in u
      BY <3>1, <3>2, <3>3, <3>4, <3>5, InXor DEF Divide
    <3>6. CASE n + 1 \notin u
      BY <3>1, <3>2, <3>3, <3>6 DEF Divide
    <3> QED
      BY <3>5, <3>6
  <2>6. Divide(Shifted(u, s), (s + n) + 1) = Shifted(Divide(u, n + 1), s)
    BY <2>4, <2>5
  <2> QED
    BY <2>1, <2>2, <2>6
<1> HIDE DEF Fine
<1>4. N \in Fine
  BY <1>2, <1>3, Induction
<1> QED
  BY <1>4 DEF Fine

--------------------------------------------------------------------------------
(* What the CRC notices.                                                   *)

LEMMA MessageBitsAreTerms ==
  ASSUME NEW bytes, Len(bytes) \in Nat
  PROVE  MessageBits(bytes) \in SUBSET Int
         /\ \A t \in MessageBits(bytes) : t > 0 /\ t <= 8 * Len(bytes)
BY DEF MessageBits

\* A packet, its CRC included, is a multiple of the polynomial.
LEMMA PacketLeavesNothing ==
  ASSUME NEW f, NEW L \in Nat, Len(f) = L + 2,
         NEW body, Len(body) = L, \A i \in 1..L : body[i] = f[i],
         NEW crc, crc = CalculateCcittFalse(body),
         f[L + 1] = Octet(crc, 8), f[L + 2] = Octet(crc, 0)
  PROVE  Divided(Xor(1..16, MessageBits(f)), 8 * L) = {}
<1> DEFINE M == 8 * L
           last == { t \in (M + 1)..(M + 16) : M + 16 - t \in crc }
           rest == Divided(Dividend(body), M)
<1>1. crc \in Registers /\ Aligned(crc, rest, MessageBits(body), M, M)
  BY CrcMeetsDivision
<1>2. /\ MessageBits(body) \in SUBSET Int /\ \A t \in MessageBits(body) : t > 0 /\ t <= M
      /\ MessageBits(f) \in SUBSET Int /\ \A t \in MessageBits(f) : t > 0 /\ t <= M + 16
  <2>1. Len(body) \in Nat /\ Len(f) \in Nat /\ 8 * Len(f) = M + 16
    OBVIOUS
  <2> QED
    BY <2>1, MessageBitsAreTerms
<1>3. \A j \in 1..16 : M + j \in MessageBits(f) <=> 16 - j \in crc
  <2> SUFFICES ASSUME NEW j \in 1..16 PROVE M + j \in MessageBits(f) <=> 16 - j \in crc
    OBVIOUS
  <2>0. 8 \in Nat /\ 0 \in Nat /\ L + 2 \in Nat
    OBVIOUS
  <2>1. CASE j <= 8
    <3>1. L + 1 \in 1..(L + 2) /\ j \in 1..8 /\ 8 * ((L + 1) - 1) + j = M + j
      BY <2>1
    <3>2. M + j \in MessageBits(f) <=> 8 - j \in BitsOf(f[L + 1])
      BY <2>0, <3>1, BitOfMessage
    <3>3. BitsOf(Octet(crc, 8)) = { k \in 0..7 : 8 + k \in crc }
      BY <2>0, OctetHasBits
    <3>4. 8 - j \in 0..7 /\ 8 + (8 - j) = 16 - j
      BY <3>1
    <3> QED
      BY <3>2, <3>3, <3>4
  <2>2. CASE ~(j <= 8)
    <3>1. L + 2 \in 1..(L + 2) /\ j - 8 \in 1..8 /\ 8 * ((L + 2) - 1) + (j - 8) = M + j
      BY <2>2
    <3>2. M + j \in MessageBits(f) <=> 8 - (j - 8) \in BitsOf(f[L + 2])
      BY <2>0, <3>1, BitOfMessage
    <3>3. BitsOf(Octet(crc, 0)) = { k \in 0..7 : 0 + k \in crc }
      BY <2>0, OctetHasBits
    <3>4. 8 - (j - 8) \in 0..7 /\ 0 + (8 - (j - 8)) = 16 - j
      BY <3>1
    <3> QED
      BY <3>2, <3>3, <3>4
  <2> QED
    BY <2>1, <2>2
<1>4. \A x \in 1..M : x \in MessageBits(f) <=> x \in MessageBits(body)
  <2> SUFFICES ASSUME NEW x \in 1..M PROVE x \in MessageBits(f) <=> x \in MessageBits(body)
    OBVIOUS
  <2>1. 1 + (x - 1) \div 8 \in 1..L
    OBVIOUS
  <2>2. f[1 + (x - 1) \div 8] = body[1 + (x - 1) \div 8]
    BY <2>1
  <2>3. x \in 1..(8 * Len(f)) /\ x \in 1..(8 * Len(body))
    OBVIOUS
  <2> QED
    BY <2>2, <2>3 DEF MessageBits
<1> HIDE DEF M, rest
<1>5. M \in Nat /\ M = 8 * L
  BY DEF M
<1>6. ASSUME NEW x \in Int PROVE x \in last <=> x > M /\ x \in MessageBits(f)
  <2>1. CASE x > M /\ x <= M + 16
    <3>1. x - M \in 1..16 /\ M + (x - M) = x /\ 16 - (x - M) = M + 16 - x /\ x \in (M + 1)..(M + 16)
      BY <1>5, <2>1
    <3> QED
      BY <1>3, <2>1, <3>1
  <2>2. CASE ~(x > M /\ x <= M + 16)
    <3>1. x \notin (M + 1)..(M + 16)
      BY <1>5, <2>2
    <3> QED
      BY <1>2, <2>2, <3>1
  <2> QED
    BY <2>1, <2>2
<1>7. ASSUME NEW x \in Int PROVE x \in MessageBits(f) <=> ~(x \in MessageBits(body) <=> x \in last)
  <2>1. CASE x \in 1..M
    <3>1. ~(x > M)
      BY <1>5, <2>1
    <3> QED
      BY <1>4, <1>6, <2>1, <3>1
  <2>2. CASE x \notin 1..M
    <3>1. x \notin MessageBits(body) /\ (x \in MessageBits(f) => x > M)
      BY <1>2, <1>5, <2>2
    <3> QED
      BY <1>6, <3>1
  <2> QED
    BY <2>1, <2>2
<1>8. /\ last \in SUBSET Int /\ \A t \in last : t > M
      /\ Dividend(body) \in SUBSET Int /\ \A t \in Dividend(body) : t > 0
  <2>1. last \in SUBSET Int /\ \A t \in last : t > M
    BY <1>5
  <2>2. Dividend(body) = Xor(1..16, MessageBits(body))
    BY DEF Dividend, MessageBits
  <2>3. \A t \in 1..16 : t \in Int /\ t > 0
    OBVIOUS
  <2> QED
    BY <1>2, <2>1, <2>2, <2>3 DEF Xor
<1>9. Xor(1..16, MessageBits(f)) = Xor(Dividend(body), last)
  <2> HIDE DEF last
  <2>1. Dividend(body) = Xor(1..16, MessageBits(body))
    BY DEF Dividend, MessageBits
  <2>2. \A x \in Int : x \in Xor(1..16, MessageBits(f)) <=> x \in Xor(Dividend(body), last)
    BY <1>7, <2>1, InXor
  <2>3. \A a, b \in SUBSET Int : Xor(a, b) \in SUBSET Int
    BY DEF Xor
  <2>4. 1..16 \in SUBSET Int
    OBVIOUS
  <2>5. Xor(1..16, MessageBits(f)) \in SUBSET Int /\ Xor(Dividend(body), last) \in SUBSET Int
    BY <1>2, <1>8, <2>3, <2>4, Zenon
  <2> QED
    BY <2>2, <2>5
<1>10. rest = last
  <2>1. \A t \in rest : t \in Int /\ t > M
    BY <1>5, <1>8, Cleared DEF rest
  <2>2. ASSUME NEW x \in Int, x > M PROVE x \in rest <=> x \in last
    <3>1. x \notin MessageBits(body)
      BY <1>2, <1>5, <2>2
    <3>2. CASE x <= M + 16
      <4> DEFINE j == x - M
      <4>1. j \in 1..16 /\ M + j = x /\ M + j > M /\ 16 - j = M + 16 - x /\ x \in (M + 1)..(M + 16)
        BY <1>5, <2>2, <3>2
      <4> HIDE DEF j
      <4>2. (16 - j \in crc) <=> x \in rest
        BY <1>1, <3>1, <4>1 DEF Aligned
      <4> QED
        BY <4>1, <4>2
    <3>3. CASE ~(x <= M + 16)
      <4>1. x \notin rest
        BY <1>1, <1>5, <3>1, <3>3 DEF Aligned
      <4>2. x \notin last
        BY <1>5, <3>3
      <4> QED
        BY <4>1, <4>2
    <3> QED
      BY <3>2, <3>3
  <2> QED
    BY <1>8, <2>1, <2>2
<1>11. Divided(Xor(Dividend(body), last), M) = Xor(rest, Divided(last, M))
  <2> HIDE DEF last
  <2> QED
    BY <1>5, <1>8, DivisionIsLinear DEF rest
<1>12. Divided(last, M) = last
  <2> HIDE DEF last
  <2> QED
    BY <1>5, <1>8, Untouched
<1>13. Xor(last, last) = {}
  BY DEF Xor
<1> HIDE DEF last
<1>14. Divided(Xor(1..16, MessageBits(f)), M) = {}
  BY <1>9, <1>10, <1>11, <1>12, <1>13
<1> QED
  BY <1>5, <1>14

LEMMA EncodedLeavesNothing ==
  ASSUME NEW m \in Messages, IsMessageValid(m)
  PROVE  LET n == Len(m.payload)
         IN /\ n \in Nat /\ n <= 4 /\ Encode(m) \in Seq(Octets) /\ Len(Encode(m)) = 9 + n
            /\ Divided(Xor(1..16, MessageBits(Encode(m))), 8 * (7 + n)) = {}
<1> DEFINE n == Len(m.payload)
           L == 7 + n
           crc == CalculateCcittFalse(Body(m))
<1>1. Len(m.payload) <= MaxPayload
  BY DEF IsMessageValid
<1>2. /\ n \in Nat /\ Encode(m) \in Seq(Octets) /\ Len(Encode(m)) = 9 + n
      /\ \A i \in 1..(7 + n) : Encode(m)[i] = Body(m)[i]
      /\ SubSeq(Encode(m), 1, 7 + n) = Body(m)
      /\ Encode(m)[8 + n] = Octet(crc, 8) /\ Encode(m)[9 + n] = Octet(crc, 0)
  BY <1>1, PacketOfMessage
<1>3. n <= 4
  <2>1. m.payload = << >> \/ Len(m.payload) = 4 \/ Len(m.payload) = 1
    BY DEF IsMessageValid, DataPayloadLength, ErrorPayloadLength
  <2>2. Len(<< >>) = 0
    OBVIOUS
  <2>3. n = 0 \/ n = 4 \/ n = 1
    BY <2>1, <2>2, Zenon
  <2> HIDE DEF n
  <2> QED
    BY <2>3
<1>4. L \in Nat /\ Len(Encode(m)) = L + 2 /\ L + 1 = 8 + n /\ L + 2 = 9 + n
  BY <1>2
<1>5. Len(Body(m)) = L
  <2>1. 1 \in 1..(Len(Encode(m)) + 1) /\ L \in 0..Len(Encode(m))
    BY <1>4
  <2>2. Len(SubSeq(Encode(m), 1, L)) = L
    BY <1>2, <1>4, SubSeqProperties
  <2> QED
    BY <1>2, <2>2
<1>6. \A i \in 1..L : Body(m)[i] = Encode(m)[i]
  BY <1>2
<1>7. Encode(m)[L + 1] = Octet(crc, 8) /\ Encode(m)[L + 2] = Octet(crc, 0)
  BY <1>2, <1>4
<1> HIDE DEF L
<1>8. Divided(Xor(1..16, MessageBits(Encode(m))), 8 * L) = {}
  <2> HIDE DEF crc
  <2>1. crc = CalculateCcittFalse(Body(m))
    BY DEF crc
  <2> QED
    BY <1>4, <1>5, <1>6, <1>7, <2>1, PacketLeavesNothing
<1> QED
  BY <1>2, <1>3, <1>8 DEF L

\* Flip turns the bits of the message that it names, and no other.
LEMMA FlippedBits ==
  ASSUME NEW f \in Seq(Octets), NEW places \in SUBSET Nat,
         \A p \in places : p < 8 * Len(f)
  PROVE  /\ Flip(f, places) \in Seq(Octets) /\ Len(Flip(f, places)) = Len(f)
         /\ MessageBits(Flip(f, places)) = Xor(MessageBits(f), Shifted(places, 1))
<1> DEFINE L == Len(f)
           g == Flip(f, places)
           turned(i) == { k \in 0..7 : 8 * i - 1 - k \in places }
<1>1. L \in Nat /\ DOMAIN f = 1..L
  OBVIOUS
<1>2. ASSUME NEW i \in 1..L
      PROVE  /\ g[i] = FlippedByte(f[i], turned(i)) /\ g[i] \in Octets
             /\ BitsOf(g[i]) = Xor(BitsOf(f[i]), turned(i))
  <2>1. g[i] = FlippedByte(f[i], turned(i))
    BY <1>1 DEF Flip
  <2>2. turned(i) \in SUBSET (0..7)
    OBVIOUS
  <2> HIDE DEF turned, g
  <2> QED
    BY <2>1, <2>2, FlipsBits
<1>3. g \in Seq(Octets) /\ Len(g) = L
  <2>1. g = [i \in 1..L |-> g[i]]
    BY <1>1 DEF Flip
  <2> HIDE DEF g
  <2>2. g \in [1..L -> Octets]
    BY <1>2, <2>1
  <2> QED
    BY <1>1, <2>2
<1> HIDE DEF g
<1>4. ASSUME NEW x \in 1..(8 * L)
      PROVE  x \in MessageBits(g) <=> ~(x \in MessageBits(f) <=> x \in Shifted(places, 1))
  <2> DEFINE i == 1 + ((x - 1) \div 8)
             k == 7 - ((x - 1) % 8)
  <2>1. i \in 1..L /\ k \in 0..7 /\ 8 * i - 1 - k = x - 1
    BY <1>1
  <2>2. (x \in MessageBits(g) <=> k \in BitsOf(g[i])) /\ (x \in MessageBits(f) <=> k \in BitsOf(f[i]))
    BY <1>3 DEF MessageBits
  <2>3. k \in turned(i) <=> x - 1 \in places
    BY <2>1
  <2>4. x - 1 \in places <=> x \in Shifted(places, 1)
    <3>1. ASSUME NEW t \in places, x = t + 1 PROVE x - 1 \in places
      <4>1. t \in Int /\ x - 1 = t
        BY <3>1
      <4> QED
        BY <4>1
    <3>2. x = (x - 1) + 1
      OBVIOUS
    <3> QED
      BY <3>1, <3>2 DEF Shifted
  <2> HIDE DEF i, k, turned
  <2>5. k \in BitsOf(g[i]) <=> ~(k \in BitsOf(f[i]) <=> k \in turned(i))
    BY <1>2, <2>1, InXor
  <2> QED
    BY <2>2, <2>3, <2>4, <2>5
<1>5. \A x \in MessageBits(g) \cup MessageBits(f) \cup Shifted(places, 1) : x \in 1..(8 * L)
  <2>1. \A x \in MessageBits(g) \cup MessageBits(f) : x \in 1..(8 * L)
    BY <1>1, <1>3 DEF MessageBits
  <2>2. \A t \in places : t + 1 \in 1..(8 * L)
    BY <1>1
  <2> QED
    BY <2>1, <2>2 DEF Shifted
<1>6. \A x : x \in MessageBits(g) <=> x \in Xor(MessageBits(f), Shifted(places, 1))
  BY <1>4, <1>5, InXor
<1> QED
  BY <1>3, <1>6 DEF g

\* Wrong bits that are no multiple of the polynomial are noticed.
LEMMA FlipsAreRefused ==
  ASSUME NEW m \in Messages, IsMessageValid(m), NEW pattern \in Patterns, NEW first \in Nat,
         \A k \in pattern : first + k < 8 * Len(Encode(m))
  PROVE  LET g == Flip(Encode(m), { first + k : k \in pattern })
         IN g \in Seq(Octets) /\ ~Decode(g)
<1> DEFINE f == Encode(m)
           n == Len(m.payload)
           M == 8 * (7 + n)
           places == { first + k : k \in pattern }
           g == Flip(f, places)
           terms == { k + 1 : k \in pattern }
<1>1. pattern \in SUBSET Nat /\ Divided(terms, 104) # {}
  <2>1. 8 * LongestPacket = 104
    BY DEF LongestPacket, MinLength, DataPayloadLength
  <2>2. pattern \in SUBSET Nat /\ Divided(terms, 8 * LongestPacket) # {}
    BY DamageAssumption DEF Noticed
  <2> QED
    BY <2>1, <2>2
<1>2. /\ n \in Nat /\ n <= 4 /\ f \in Seq(Octets) /\ Len(f) = 9 + n
      /\ Divided(Xor(1..16, MessageBits(f)), M) = {}
  BY EncodedLeavesNothing
<1>3. places \in SUBSET Nat /\ \A p \in places : p < 8 * Len(f)
  BY <1>1
<1>4. terms \in SUBSET Int /\ \A t \in terms : t > 0
  BY <1>1
<1>5. Shifted(places, 1) = Shifted(terms, first)
  <2>1. \A k \in pattern : (first + k) + 1 = (k + 1) + first
    BY <1>1
  <2>2. \A x : x \in Shifted(places, 1) <=> \E k \in pattern : x = (first + k) + 1
    BY DEF Shifted
  <2>3. \A x : x \in Shifted(terms, first) <=> \E k \in pattern : x = (k + 1) + first
    BY DEF Shifted
  <2>4. \A x : x \in Shifted(places, 1) <=> x \in Shifted(terms, first)
    BY <2>1, <2>2, <2>3, Zenon
  <2> HIDE DEF places, terms
  <2> QED
    BY <2>4
<1> HIDE DEF f, n, places, g, terms
<1>6. /\ g \in Seq(Octets) /\ Len(g) = Len(f)
      /\ MessageBits(g) = Xor(MessageBits(f), Shifted(terms, first))
  BY <1>2, <1>3, <1>5, FlippedBits DEF g
<1>7. ~Decode(g)
  <2> SUFFICES ASSUME Decode(g) PROVE FALSE
    OBVIOUS
  <2> DEFINE r == Spelled(g)
  <2>1. r \in Messages /\ IsMessageValid(r) /\ g = Encode(r)
    BY <1>6, Canonical
  <2> HIDE DEF r
  <2>2. Len(r.payload) \in Nat /\ Len(g) = 9 + Len(r.payload)
        /\ Divided(Xor(1..16, MessageBits(g)), 8 * (7 + Len(r.payload))) = {}
    BY <2>1, EncodedLeavesNothing
  <2>3. Len(r.payload) = n
    BY <1>2, <1>6, <2>2
  <2>4. Divided(Xor(1..16, MessageBits(g)), M) = {}
    BY <2>2, <2>3
  <2> HIDE DEF M
  <2>5. M \in Nat /\ M <= 88
    BY <1>2 DEF M
  <2>6. /\ Xor(1..16, MessageBits(f)) \in SUBSET Int /\ Xor(1..16, MessageBits(g)) \in SUBSET Int
    <3>1. MessageBits(f) \in SUBSET Int /\ MessageBits(g) \in SUBSET Int
      <4>1. Len(f) \in Nat /\ Len(g) \in Nat
        BY <1>2, <1>6
      <4> QED
        BY <4>1, MessageBitsAreTerms
    <3>2. \A a, b \in SUBSET Int : Xor(a, b) \in SUBSET Int
      BY DEF Xor
    <3>3. 1..16 \in SUBSET Int
      OBVIOUS
    <3> QED
      BY <3>1, <3>2, <3>3, Zenon
  <2>7. Xor(Xor(1..16, MessageBits(f)), Xor(1..16, MessageBits(g))) = Shifted(terms, first)
    BY <1>6 DEF Xor
  <2>8. Divided(Shifted(terms, first), M) = {}
    <3> DEFINE a == Xor(1..16, MessageBits(f))
               b == Xor(1..16, MessageBits(g))
    <3>0. Divided(a, M) = {} /\ Divided(b, M) = {} /\ a \in SUBSET Int /\ b \in SUBSET Int
      BY <1>2, <2>4, <2>6
    <3> HIDE DEF a, b
    <3>3. M \in Nat
      BY <2>5
    <3>4. Divided(Xor(a, b), M) = Xor(Divided(a, M), Divided(b, M))
      BY <3>0, <3>3, DivisionIsLinear
    <3>5. Divided(Xor(a, b), M) = Xor({}, {})
      BY <3>0, <3>4
    <3>1. Divided(Xor(Xor(1..16, MessageBits(f)), Xor(1..16, MessageBits(g))), M) = Xor({}, {})
      BY <3>5 DEF a, b
    <3>2. Xor({}, {}) = {}
      BY DEF Xor
    <3> QED
      BY <2>7, <3>1, <3>2
  <2>9. \E N \in Nat : N <= 88 /\ Divided(terms, N) = {}
    <3>1. CASE first <= M
      <4>1. M - first \in Nat /\ M - first <= 88 /\ first + (M - first) = M
        BY <2>5, <3>1
      <4>2. Divided(Shifted(terms, first), first + (M - first))
              = Shifted(Divided(terms, M - first), first)
        BY <1>4, <4>1, DivisionShifts
      <4>3. Shifted(Divided(terms, M - first), first) = {}
        BY <2>8, <4>1, <4>2
      <4>4. Divided(terms, M - first) = {}
        BY <4>3 DEF Shifted
      <4> QED
        BY <4>1, <4>4
    <3>2. CASE ~(first <= M)
      <4>1. Shifted(terms, first) \in SUBSET Int /\ \A t \in Shifted(terms, first) : t > M
        BY <1>4, <2>5, <3>2 DEF Shifted
      <4>2. Shifted(terms, first) = {}
        BY <2>5, <2>8, <4>1, Untouched
      <4>3. terms = {}
        BY <4>2 DEF Shifted
      <4>4. Divided(terms, 0) = {} /\ 0 \in Nat /\ 0 <= 88
        BY <1>4, <4>3, DividedZero
      <4> QED
        BY <4>4
    <3> QED
      BY <3>1, <3>2
  <2>10. PICK N \in Nat : N <= 88 /\ Divided(terms, N) = {}
    BY <2>9
  <2>11. 104 - N \in Nat /\ N + (104 - N) = 104
    BY <2>10
  <2>12. Divided(terms, N + (104 - N)) = {}
    BY <1>4, <2>10, <2>11, NothingStays
  <2> QED
    BY <1>1, <2>11, <2>12
<1> QED
  BY <1>6, <1>7 DEF f, places, g

\* A packet whose end is missing is not accepted.
LEMMA CutsAreRefused ==
  ASSUME NEW m \in Messages, IsMessageValid(m), NEW length \in 0..(Len(Encode(m)) - 1)
  PROVE  LET g == SubSeq(Encode(m), 1, length) IN g \in Seq(Octets) /\ ~Decode(g)
<1> DEFINE f == Encode(m)
           g == SubSeq(f, 1, length)
           n == Len(m.payload)
<1>0. Len(m.payload) <= MaxPayload
  BY DEF IsMessageValid
<1>1. n \in Nat /\ f \in Seq(Octets) /\ Len(f) = 9 + n /\ f[5] = n
  <2>1. n \in Nat /\ f \in Seq(Octets) /\ Len(f) = 9 + n /\ f[5] = Body(m)[5]
    <3>1. n \in Nat => 5 \in 1..(7 + n)
      OBVIOUS
    <3> QED
      BY <1>0, <3>1, PacketOfMessage
  <2>2. Body(m)[5] = n
    BY <1>0, BodyOfMessage
  <2> QED
    BY <2>1, <2>2
<1>2. g \in Seq(Octets) /\ Len(g) = length /\ \A i \in 1..length : g[i] = f[i]
  <2>1. 1 \in 1..(Len(f) + 1) /\ length \in 0..Len(f)
    BY <1>1
  <2> HIDE DEF f
  <2>2. g \in Seq(Octets)
    BY <1>1, <2>1
  <2> QED
    BY <1>1, <2>1, <2>2, SubSeqProperties
<1>3. ~Fits(g)
  <2> SUFFICES ASSUME Fits(g) PROVE FALSE
    OBVIOUS
  <2>1. Len(g) >= 9 /\ Len(g) = 9 + g[5]
    BY LengthRange DEF Fits, MinLength
  <2> HIDE DEF f, g, n
  <2>2. length \in Int /\ length >= 9 /\ length < 9 + n
    BY <1>1, <1>2, <2>1 DEF f
  <2>3. g[5] = n
    BY <1>1, <1>2, <2>2
  <2> QED
    BY <1>2, <2>1, <2>2, <2>3
<1> QED
  BY <1>2, <1>3 DEF Decode

\* Nor one that other bytes follow.
LEMMA LongerIsRefused ==
  ASSUME NEW m \in Messages, IsMessageValid(m), NEW stray \in Seq(Octets), stray # << >>
  PROVE  LET g == Encode(m) \o stray IN g \in Seq(Octets) /\ ~Decode(g)
<1> DEFINE f == Encode(m)
           g == f \o stray
           n == Len(m.payload)
<1>0. Len(m.payload) <= MaxPayload
  BY DEF IsMessageValid
<1>1. n \in Nat /\ f \in Seq(Octets) /\ Len(f) = 9 + n /\ f[5] = n
  <2>1. n \in Nat /\ f \in Seq(Octets) /\ Len(f) = 9 + n /\ f[5] = Body(m)[5]
    <3>1. n \in Nat => 5 \in 1..(7 + n)
      OBVIOUS
    <3> QED
      BY <1>0, <3>1, PacketOfMessage
  <2>2. Body(m)[5] = n
    BY <1>0, BodyOfMessage
  <2> QED
    BY <2>1, <2>2
<1> HIDE DEF f, n
<1>2. g \in Seq(Octets) /\ Len(g) > 9 + n /\ g[5] = n
  <2>1. Len(stray) \in Nat /\ Len(stray) # 0
    BY EmptySeq
  <2>2. Len(f \o stray) = Len(f) + Len(stray) /\ \A i \in 1..Len(f) : (f \o stray)[i] = f[i]
    BY <1>1
  <2>3. f \o stray \in Seq(Octets)
    BY <1>1
  <2> QED
    BY <1>1, <2>1, <2>2, <2>3
<1>3. ~Fits(g)
  <2> SUFFICES ASSUME Fits(g) PROVE FALSE
    OBVIOUS
  <2>1. Len(g) = 9 + g[5]
    BY DEF Fits, MinLength
  <2> HIDE DEF g
  <2> QED
    BY <1>1, <1>2, <2>1
<1> QED
  BY <1>2, <1>3 DEF Decode, f

\* Nor what was never a packet.
LEMMA StraysAreRefused ==
  ASSUME NEW stray \in Strays PROVE stray \in Seq(Octets) /\ stray # << >> /\ ~Decode(stray)
<1>1. stray \in Seq(Octets) /\ stray # << >>
  BY DamageAssumption
<1>2. ASSUME Decode(stray) PROVE FALSE
  <2>1. Fits(stray) /\ IsMessageValid(Spelled(stray))
    BY <1>2 DEF Decode
  <2>2. stray # Encode(Spelled(stray))
    BY <2>1, DamageAssumption
  <2> QED
    BY <1>1, <1>2, <2>2, Canonical
<1> QED
  BY <1>1, <1>2

--------------------------------------------------------------------------------
(* The way of a packet.                                                    *)

\* What arrives is the packet that was sent or is no packet at all, and the
\* receiver's verdict, once given, is the decoder's.
WireInv ==
  /\ sent \in Sendable /\ frame \in Seq(Octets)
  /\ damage = Undamaged => frame = Encode(sent.message)
  /\ damage # Undamaged => ~Decode(frame)
  /\ outcome \in {Pending, ACCEPTED, REJECTED}
  /\ outcome = ACCEPTED => Decode(frame) /\ message = Spelled(frame)
  /\ outcome = REJECTED => ~Decode(frame)
  /\ outcome # ACCEPTED => message \in Downlinks

LEMMA SentFits ==
  ASSUME NEW s \in Sendable
  PROVE  /\ s.message \in Messages /\ IsMessageValid(s.message)
         /\ Encode(s.message) \in Seq(Octets)
         /\ Decode(Encode(s.message)) /\ Spelled(Encode(s.message)) = s.message
<1>1. s.message \in Messages /\ IsMessageValid(s.message)
  BY SentIsMessage
<1>2. Decode(Encode(s.message)) /\ Spelled(Encode(s.message)) = s.message
  BY <1>1, RoundTrip
<1>3. Encode(s.message) \in Seq(Octets)
  BY <1>1, EncodedLeavesNothing
<1> QED
  BY <1>1, <1>2, <1>3

\* At every moment the frame on the way is the sender's packet, untouched, or bytes
\* that LORA_PACKET_Decode refuses, and the receiver's struct holds what it held
\* before or the packet that was accepted.
THEOREM PacketInvariant == Spec => []WireInv
<1>1. Init => WireInv
  <2> SUFFICES ASSUME Init PROVE WireInv
    OBVIOUS
  <2>1. Encode(sent.message) \in Seq(Octets)
    BY SentFits DEF Init
  <2>2. Pending # ACCEPTED /\ Pending # REJECTED
    BY DEF Pending, ACCEPTED, REJECTED
  <2> QED
    BY <2>1, <2>2, Zenon DEF Init, WireInv
<1>2. WireInv /\ [Next]_vars => WireInv'
  <2> SUFFICES ASSUME WireInv, [Next]_vars PROVE WireInv'
    OBVIOUS
  <2>0. /\ Pending # ACCEPTED /\ Pending # REJECTED /\ ACCEPTED # REJECTED
        /\ "flipped" # Undamaged /\ "cut" # Undamaged /\ "stray" # Undamaged
    BY DEF Pending, ACCEPTED, REJECTED, Undamaged
  <2>1. ASSUME damage = Undamaged, outcome = Pending, damage' # Undamaged,
               frame' \in Seq(Octets), ~Decode(frame'), UNCHANGED <<sent, message, outcome>>
        PROVE  WireInv'
    <3>1. Decode(frame)' = Decode(frame')
      OBVIOUS
    <3>2. sent' \in Sendable /\ message' \in Downlinks /\ outcome' = Pending
      BY <2>0, <2>1, Zenon DEF WireInv
    <3>3. Sendable' = Sendable
      OBVIOUS
    <3> QED
      BY <2>0, <2>1, <3>1, <3>2, Zenon DEF WireInv
  <2>2. ASSUME damage = Undamaged
        PROVE  /\ sent.message \in Messages /\ IsMessageValid(sent.message)
               /\ frame = Encode(sent.message)
    BY <2>2, SentFits DEF WireInv
  <2>3. CASE BitsFlip
    <3>1. PICK first \in 0..(8 * Len(frame) - 1), pattern \in Patterns :
            /\ \A k \in pattern : first + k < 8 * Len(frame)
            /\ frame' = Flip(frame, { first + k : k \in pattern })
      BY <2>3 DEF BitsFlip
    <3>2. first \in Nat
      OBVIOUS
    <3>3. damage = Undamaged /\ outcome = Pending /\ damage' = "flipped" /\ UNCHANGED <<sent, message, outcome>>
      BY <2>3 DEF BitsFlip
    <3>4. frame' \in Seq(Octets) /\ ~Decode(frame')
      BY <2>2, <3>1, <3>2, <3>3, FlipsAreRefused
    <3> QED
      BY <2>0, <2>1, <3>3, <3>4
  <2>4. CASE BytesLost
    <3>1. PICK length \in 0..(Len(frame) - 1) : frame' = SubSeq(frame, 1, length)
      BY <2>4 DEF BytesLost
    <3>2. damage = Undamaged /\ outcome = Pending /\ damage' = "cut" /\ UNCHANGED <<sent, message, outcome>>
      BY <2>4 DEF BytesLost
    <3>3. frame' \in Seq(Octets) /\ ~Decode(frame')
      BY <2>2, <3>1, <3>2, CutsAreRefused
    <3> QED
      BY <2>0, <2>1, <3>2, <3>3
  <2>5. CASE StrayBytes
    <3>1. PICK stray \in Strays : frame' = stray \/ frame' = frame \o stray
      BY <2>5 DEF StrayBytes
    <3>2. damage = Undamaged /\ outcome = Pending /\ damage' = "stray" /\ UNCHANGED <<sent, message, outcome>>
      BY <2>5 DEF StrayBytes
    <3>3. stray \in Seq(Octets) /\ stray # << >> /\ ~Decode(stray)
      BY StraysAreRefused
    <3>4. frame \o stray \in Seq(Octets) /\ ~Decode(frame \o stray)
      BY <2>2, <3>2, <3>3, LongerIsRefused
    <3>5. frame' \in Seq(Octets) /\ ~Decode(frame')
      BY <3>1, <3>3, <3>4
    <3> QED
      BY <2>0, <2>1, <3>2, <3>5
  <2>6. CASE Receive
    <3>1. /\ outcome = Pending /\ outcome' = IF Decode(frame) THEN ACCEPTED ELSE REJECTED
          /\ message' = IF outcome' = ACCEPTED THEN Spelled(frame) ELSE message
          /\ sent' = sent /\ frame' = frame /\ damage' = damage
      BY <2>6 DEF Receive
    <3>2. Decode(frame)' = Decode(frame) /\ Spelled(frame)' = Spelled(frame)
      BY <3>1
    <3>3. Encode(sent.message)' = Encode(sent.message)
      BY <3>1
    <3> QED
      BY <2>0, <3>1, <3>2, <3>3, Zenon DEF WireInv
  <2>7. CASE UNCHANGED vars
    <3>1. sent' = sent /\ frame' = frame /\ damage' = damage /\ message' = message /\ outcome' = outcome
      BY <2>7 DEF vars
    <3>2. Decode(frame)' = Decode(frame) /\ Spelled(frame)' = Spelled(frame)
          /\ Encode(sent.message)' = Encode(sent.message)
      BY <3>1
    <3> QED
      BY <3>1, <3>2, Zenon DEF WireInv
  <2> QED
    BY <2>3, <2>4, <2>5, <2>6, <2>7 DEF Next
<1> QED
  BY <1>1, <1>2, PTL DEF Spec

\* A packet is accepted exactly when nothing happened to it, and is then the one
\* that was sent: no noticed burst, no cut and no stray byte gets through.
THEOREM OnlyUndamagedPackets == Spec => []AcceptedIffUndamaged
<1>1. WireInv => AcceptedIffUndamaged
  <2> SUFFICES ASSUME WireInv, outcome # Pending
               PROVE  (outcome = ACCEPTED <=> damage = Undamaged)
                      /\ (outcome = ACCEPTED => message = sent.message)
    BY DEF AcceptedIffUndamaged
  <2>1. Decode(Encode(sent.message)) /\ Spelled(Encode(sent.message)) = sent.message
    BY SentFits DEF WireInv
  <2> QED
    BY <2>1, Zenon DEF WireInv
<1> QED
  BY <1>1, PacketInvariant, PTL

\* What LORA_PACKET_Decode accepts is byte for byte what LORA_PACKET_Encode makes
\* of the message it yields; what it refuses leaves the caller's struct alone.
THEOREM OnlyCanonicalPackets == Spec => []AcceptedIsCanonical
<1>1. WireInv => AcceptedIsCanonical
  <2> SUFFICES ASSUME WireInv PROVE AcceptedIsCanonical
    OBVIOUS
  <2>1. ASSUME outcome = ACCEPTED PROVE IsMessageValid(message) /\ frame = Encode(message)
    BY <2>1, Canonical DEF WireInv
  <2> QED
    BY <2>1, Zenon DEF WireInv, AcceptedIsCanonical
<1> QED
  BY <1>1, PacketInvariant, PTL

\* The bitwise loop of CRC16_CalculateCcittFalse computes the remainder of the
\* division by the polynomial, for bytes of any number.
THEOREM CrcIsDivision == Spec => []CrcIsRemainder
<1>1. WireInv => CrcIsRemainder
  <2> SUFFICES ASSUME WireInv PROVE CalculateCcittFalse(frame) = Remainder(frame)
    BY DEF CrcIsRemainder
  <2>1. Len(frame) \in Nat
    BY DEF WireInv
  <2> QED
    BY <2>1, CrcIsTheRemainder
<1> QED
  BY <1>1, PacketInvariant, PTL

\* Two bytes and back: what the low and the high byte of a field keep.
LEMMA SignedFieldSurvives ==
  ASSUME NEW t \in SignedHalfWords PROVE SignedWord(High(t), Low(t)) = t
<1>1. t \in Int /\ -32768 <= t /\ t <= 32767
  BY SignedRange
<1> DEFINE u == t % 65536
<1>2. u \in Int /\ 0 <= u /\ u <= 65535 /\ (IF t >= 0 THEN u = t ELSE u = t + 65536)
  BY <1>1
<1>3. t % 256 = u % 256
  BY <1>1, <1>2
<1> HIDE DEF u
<1>4. 256 * (u \div 256) + (u % 256) = u
  BY <1>2
<1>5. 256 * High(t) + Low(t) = u
  BY <1>3, <1>4 DEF High, Low, u
<1>6. SignedWord(High(t), Low(t)) = IF u >= 32768 THEN u - 65536 ELSE u
  <2> DEFINE whole == 256 * High(t) + Low(t)
  <2>1. SignedWord(High(t), Low(t)) = IF whole >= 32768 THEN whole - 65536 ELSE whole
    BY DEF SignedWord
  <2> HIDE DEF whole
  <2>2. whole = u
    BY <1>5 DEF whole
  <2> QED
    BY <2>1, <2>2
<1> QED
  BY <1>1, <1>2, <1>6

LEMMA FieldSurvives ==
  ASSUME NEW h \in HalfWords PROVE 256 * High(h) + Low(h) = h
<1>1. h \in Int /\ 0 <= h /\ h <= 65535
  BY HalfWordRange
<1>2. h % 65536 = h /\ 256 * (h \div 256) + (h % 256) = h
  BY <1>1
<1> QED
  BY <1>2 DEF High, Low

\* The gateway reads from a DATA packet the temperature and the humidity that the
\* sensor driver gave, for every value of the two 16-bit fields.
THEOREM SamplesSurvive == Spec => []SampleSurvives
<1>1. WireInv /\ AcceptedIffUndamaged => SampleSurvives
  <2> SUFFICES ASSUME WireInv, AcceptedIffUndamaged, outcome = ACCEPTED, message.type = DATA
               PROVE  /\ SignedWord(message.payload[1], message.payload[2])
                           = sent.sensor.temperature_x10
                      /\ 256 * message.payload[3] + message.payload[4]
                           = sent.sensor.humidity_x10
    BY DEF SampleSurvives
  <2>1. message = sent.message
    <3>1. outcome # Pending
      BY DEF ACCEPTED, Pending
    <3> QED
      BY <3>1, Zenon DEF AcceptedIffUndamaged
  <2>2. \A m \in Downlinks : m.type # DATA
    BY TrafficAssumption DEF POLL, ACK, DATA
  <2>3. PICK r \in Requests : sent = [message |-> Build(r).message, sensor |-> r.sensor]
    <3>1. sent \in Sendable
      BY DEF WireInv
    <3> QED
      BY <2>1, <2>2, <3>1 DEF Sendable
  <2>4. message = Build(r).message /\ sent.sensor = r.sensor
    BY <2>1, <2>3
  <2>5. r.sensor.status = SENSOR_OK /\ message = DataMessage(r)
    BY <2>4, AnswerIsMessage
  <2> DEFINE t == r.sensor.temperature_x10
             h == r.sensor.humidity_x10
  <2>6. message.payload = <<High(t), Low(t), High(h), Low(h)>>
    BY <2>5 DEF DataMessage, InitializeMessage
  <2>7. t \in SignedHalfWords /\ h \in HalfWords
    BY <2>5, TrafficAssumption
  <2> HIDE DEF t, h
  <2>8. SignedWord(High(t), Low(t)) = t /\ 256 * High(h) + Low(h) = h
    BY <2>7, SignedFieldSurvives, FieldSurvives
  <2>9. /\ message.payload[1] = High(t) /\ message.payload[2] = Low(t)
        /\ message.payload[3] = High(h) /\ message.payload[4] = Low(h)
    BY <2>6
  <2> QED
    BY <2>4, <2>8, <2>9 DEF t, h
<1> QED
  BY <1>1, PacketInvariant, OnlyUndamagedPackets, PTL

\* The CRC notices every burst of wrong bits no longer than itself, wherever in a
\* packet it begins: such a pattern may be among Patterns.
THEOREM BurstsAreNoticed ==
  ASSUME NEW pattern \in SUBSET (0..15), pattern # {}
  PROVE  pattern \subseteq Nat /\ Noticed(pattern)
<1> DEFINE terms == { k + 1 : k \in pattern }
           Window(n) == (n + 1)..(n + 16)
           Fine == { n \in Nat : /\ Divided(terms, n) # {}
                                 /\ \A x \in Divided(terms, n) : x \in Window(n) }
<1>1. terms \in SUBSET Int /\ terms # {} /\ \A x \in terms : x \in 1..16
  <2>1. \A k \in pattern : k + 1 \in Int /\ k + 1 \in 1..16
    OBVIOUS
  <2>2. PICK k \in pattern : TRUE
    OBVIOUS
  <2>3. k + 1 \in terms
    BY <2>2
  <2> QED
    BY <2>1, <2>3
<1> HIDE DEF terms
<1>2. 0 \in Fine
  <2>1. Divided(terms, 0) = terms
    BY <1>1, DividedZero
  <2>2. Window(0) = 1..16
    OBVIOUS
  <2>3. 0 \in Nat /\ Divided(terms, 0) # {} /\ \A x \in Divided(terms, 0) : x \in Window(0)
    BY <1>1, <2>1, <2>2
  <2> QED
    BY <2>3
<1>3. ASSUME NEW n \in Nat, n \in Fine PROVE n + 1 \in Fine
  <2> DEFINE s == Divided(terms, n)
             q == Divided(terms, n + 1)
  <2>1. q = Divide(s, n + 1)
    BY <1>1, DividedStep
  <2>2. s # {} /\ \A x \in s : x \in Int /\ n + 1 <= x /\ x <= n + 16
    BY <1>3
  <2> HIDE DEF s, q
  <2>3. CASE n + 1 \in s
    <3>1. q = Xor(s, {n + 1, n + 5, n + 12, n + 17})
      <4>1. (n + 1) + 4 = n + 5 /\ (n + 1) + 11 = n + 12 /\ (n + 1) + 16 = n + 17
        OBVIOUS
      <4> QED
        BY <2>1, <2>3, <4>1 DEF Divide
    <3>2. n + 17 \in q
      BY <2>2, <3>1 DEF Xor
    <3>3. \A x \in q : x \in Int /\ n + 2 <= x /\ x <= n + 17
      BY <2>2, <2>3, <3>1 DEF Xor
    <3> QED
      BY <3>2, <3>3 DEF q
  <2>4. CASE n + 1 \notin s
    <3>1. q = s
      BY <2>1, <2>4 DEF Divide
    <3>2. \A x \in q : x \in Int /\ n + 2 <= x /\ x <= n + 17
      BY <2>2, <2>4, <3>1
    <3> QED
      BY <2>2, <3>1, <3>2 DEF q
  <2> QED
    BY <2>3, <2>4
<1> HIDE DEF Fine
<1>4. \A n \in Nat : n \in Fine
  BY <1>2, <1>3, Induction
<1>5. 8 * LongestPacket \in Nat
  BY DEF LongestPacket, MinLength, DataPayloadLength
<1>6. Divided(terms, 8 * LongestPacket) # {}
  BY <1>4, <1>5 DEF Fine
<1>7. pattern \subseteq Nat
  OBVIOUS
<1> QED
  BY <1>6, <1>7 DEF Noticed, terms

\* Whether a set of terms is odd.
Odd(terms) == IsFiniteSet(terms) /\ Cardinality(terms) % 2 = 1

LEMMA FourTerms ==
  ASSUME NEW n \in Nat
  PROVE  LET p == {n, n + 4, n + 11, n + 16} IN IsFiniteSet(p) /\ Cardinality(p) = 4
<1> DEFINE a == {n}
           b == a \cup {n + 4}
           c == b \cup {n + 11}
           d == c \cup {n + 16}
<1>1. IsFiniteSet(a) /\ Cardinality(a) = 1
  BY FS_Singleton
<1>2. n + 4 \notin a /\ n + 11 \notin b /\ n + 16 \notin c
  OBVIOUS
<1>3. d = {n, n + 4, n + 11, n + 16}
  OBVIOUS
<1> HIDE DEF a
<1>4. IsFiniteSet(b) /\ Cardinality(b) = 2
  BY <1>1, <1>2, FS_AddElement
<1> HIDE DEF b
<1>5. IsFiniteSet(c) /\ Cardinality(c) = 3
  BY <1>2, <1>4, FS_AddElement
<1> HIDE DEF c
<1>6. IsFiniteSet(d) /\ Cardinality(d) = 4
  BY <1>2, <1>5, FS_AddElement
<1> QED
  BY <1>3, <1>6

\* The polynomial has an even number of terms: no step makes an odd rest even.
LEMMA DivideStaysOdd ==
  ASSUME NEW rest, Odd(rest), NEW n \in Nat
  PROVE  Odd(Divide(rest, n))
<1>1. CASE n \notin rest
  BY <1>1 DEF Divide
<1>2. CASE n \in rest
  <2> DEFINE p == {n, n + 4, n + 11, n + 16}
             common == rest \cap p
             a == rest \ p
             b == p \ rest
  <2>1. IsFiniteSet(p) /\ Cardinality(p) = 4
    BY FourTerms
  <2>2. Divide(rest, n) = a \cup b
    BY <1>2 DEF Divide, Xor
  <2>3. a \cap b = {} /\ p \cap rest = common
    OBVIOUS
  <2> HIDE DEF p
  <2>4. IsFiniteSet(rest) /\ IsFiniteSet(common) /\ Cardinality(common) \in Nat
        /\ Cardinality(rest) \in Nat /\ Cardinality(rest) % 2 = 1
    BY FS_Intersection, FS_CardinalityType DEF Odd
  <2>5. IsFiniteSet(a) /\ Cardinality(a) = Cardinality(rest) - Cardinality(common)
    BY <2>4, FS_Difference
  <2>6. IsFiniteSet(b) /\ Cardinality(b) = 4 - Cardinality(common)
    BY <2>1, <2>3, FS_Difference
  <2> HIDE DEF a, b
  <2>7. IsFiniteSet(a \cup b)
        /\ Cardinality(a \cup b) = Cardinality(a) + Cardinality(b) - Cardinality({})
    BY <2>3, <2>5, <2>6, FS_Union
  <2>8. Cardinality({}) = 0
    BY FS_EmptySet
  <2>9. \A r, k \in Nat : r % 2 = 1 => ((r - k) + (4 - k) - 0) % 2 = 1
    OBVIOUS
  <2> HIDE DEF common
  <2>10. Cardinality(a \cup b) % 2 = 1
    BY <2>4, <2>5, <2>6, <2>7, <2>8, <2>9, Zenon
  <2> QED
    BY <2>2, <2>7, <2>10 DEF Odd
<1> QED
  BY <1>1, <1>2

\* The CRC notices every odd number of wrong bits, a single one among them, wherever
\* in a packet they are.
THEOREM OddIsNoticed ==
  ASSUME NEW pattern \in SUBSET Nat, Odd(pattern)
  PROVE  Noticed(pattern)
<1> DEFINE terms == { k + 1 : k \in pattern }
           Fine == { n \in Nat : Odd(Divided(terms, n)) }
<1>1. terms \in SUBSET Int
  OBVIOUS
<1>2. Odd(terms)
  <2> DEFINE up == [k \in pattern |-> k + 1]
  <2>1. up \in Bijection(pattern, terms)
    <3>1. up \in [pattern -> terms]
      OBVIOUS
    <3>2. \A j, k \in pattern : up[j] = up[k] => j = k
      OBVIOUS
    <3>3. \A t \in terms : \E k \in pattern : up[k] = t
      OBVIOUS
    <3> QED
      <4>1. DOMAIN up = pattern
        OBVIOUS
      <4> HIDE DEF up, terms
      <4> QED
        BY <3>1, <3>2, <3>3, <4>1, Zenon DEF Bijection, Injection, IsInjective, Surjection
  <2>2. ExistsBijection(pattern, terms)
    BY <2>1 DEF ExistsBijection
  <2> HIDE DEF terms
  <2>3. IsFiniteSet(terms) /\ Cardinality(terms) = Cardinality(pattern)
    BY <2>2, FS_Bijection DEF Odd
  <2> QED
    BY <2>3 DEF Odd
<1> HIDE DEF terms
<1>3. 0 \in Fine
  <2>1. Divided(terms, 0) = terms
    BY <1>1, DividedZero
  <2> QED
    BY <1>2, <2>1
<1>4. ASSUME NEW n \in Nat, n \in Fine PROVE n + 1 \in Fine
  <2>1. Divided(terms, n + 1) = Divide(Divided(terms, n), n + 1)
    BY <1>1, DividedStep
  <2>2. n + 1 \in Nat
    OBVIOUS
  <2>3. Odd(Divided(terms, n))
    BY <1>4
  <2>4. Odd(Divide(Divided(terms, n), n + 1))
    BY <2>2, <2>3, DivideStaysOdd
  <2> QED
    BY <2>1, <2>2, <2>4
<1>5. \A n \in Nat : n \in Fine
  <2> HIDE DEF Fine
  <2> QED
    BY <1>3, <1>4, Induction
<1>6. 8 * LongestPacket \in Nat
  BY DEF LongestPacket, MinLength, DataPayloadLength
<1>7. Odd(Divided(terms, 8 * LongestPacket))
  BY <1>5, <1>6
<1>8. Divided(terms, 8 * LongestPacket) # {}
  <2>1. Cardinality({}) % 2 # 1
    BY FS_EmptySet
  <2> QED
    BY <1>7, <2>1 DEF Odd
<1> QED
  BY <1>8 DEF Noticed, terms
================================================================================
