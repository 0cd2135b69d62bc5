--------------------------------- MODULE Dht11 ---------------------------------
(***************************************************************************)
(* One reading of the sensor: LORA_APP_ReadSensor (app/lora_app.c) and the *)
(* DHT11 driver (drivers/sensors/DHT11.c), which polls the data line while *)
(* the sensor drives it by its own clock.                                  *)
(*                                                                         *)
(* Time is discrete.  A delay of the driver takes longer than asked by up  *)
(* to Jitter, the interrupt handlers that run meanwhile.  The sensor sends *)
(* a word of five bytes, wrong ones included, and may stop at any moment,  *)
(* the line staying as it is.                                              *)
(***************************************************************************)
EXTENDS Integers, Sequences

CONSTANTS
  ByteBits,       \* bits of a byte (8)
  Words,          \* the words the sensor may send, as sequences of bits
  START_HIGH, RESPONSE_WAIT, BIT_THRESHOLD, TIMEOUT,  \* DHT11.h, in time units
  ResponseDelays, \* how long the sensor may take to answer the start signal
  ResponsePulse,  \* the sensor's two response pulses
  BitLow, ZeroPulses, OnePulse,  \* its bits
  Jitter,
  MaxHumidity     \* LORA_APP_ReadSensor's plausible humidity (100)

TotalBits == 5 * ByteBits

ASSUME SensorAssumption ==
  /\ ByteBits \in Nat \ {0} /\ Words \subseteq [1..TotalBits -> 0..1]
  /\ {START_HIGH, RESPONSE_WAIT, BIT_THRESHOLD, TIMEOUT} \subseteq Nat \ {0}
  /\ {ResponsePulse, BitLow, OnePulse} \cup ResponseDelays \cup ZeroPulses
       \subseteq Nat \ {0}
  /\ Jitter \in Nat /\ MaxHumidity \in Nat

\* A round of a waiting loop, at its longest.
Round == 1 + Jitter

\* What a reading rests on.  A loop looks at the line within every pulse and does
\* not give up on one, the first look finds the response not yet over, and the look
\* after the rising edge falls into a one but between a zero and the next bit.
TimesFit ==
  /\ \A length \in {ResponsePulse, BitLow, OnePulse} \cup ZeroPulses :
       Round < length /\ length + Round < TIMEOUT
  /\ \A d \in ResponseDelays :
       START_HIGH + Jitter < d + ResponsePulse /\ d + Round < RESPONSE_WAIT
  /\ Round + BIT_THRESHOLD + Jitter < OnePulse
  /\ \A zero \in ZeroPulses :
       zero < BIT_THRESHOLD /\ Round + BIT_THRESHOLD + Jitter < zero + BitLow

ASSUME TimingAssumption == TimesFit

VARIABLES
  pc, delay, timeout_cnt, bits,  \* the driver: raw_data is what bits spell
  data,                          \* handle->data
  result,                        \* the result of the last LORA_APP_ReadSensor
  phase, left, bitsSent, word, alive \* the sensor: its pulse and what is left of it

driverVars  == <<pc, delay, timeout_cnt, bits, data, result>>
sensorVars  == <<phase, left, bitsSent, word, alive>>
readingVars == <<driverVars, sensorVars>>

Waits  == {"low", "response", "pulse", "bitLow", "bitHigh"}

\* The value of a sequence of bits, the most significant first.
Value(b) ==
  LET upTo[n \in 0..Len(b)] == IF n = 0 THEN 0 ELSE 2 * upTo[n - 1] + b[n]
  IN upTo[Len(b)]

\* raw_data[i], i from 0.
Byte(b, i) == Value(SubSeq(b, i * ByteBits + 1, (i + 1) * ByteBits))

\* How many values a byte has.
ByteValues ==
  LET power[n \in 0..ByteBits] == IF n = 0 THEN 1 ELSE 2 * power[n - 1]
  IN power[ByteBits]

VerifyChecksum(b) ==
  (Byte(b, 0) + Byte(b, 1) + Byte(b, 2) + Byte(b, 3)) % ByteValues = Byte(b, 4)

\* Integer and decimal byte, in tenths.
Tenths(b, i) == 10 * Byte(b, i) + Byte(b, i + 1)

NoData == [is_valid |-> FALSE, humidity_x10 |-> 0, temperature_x10 |-> 0]

ParseData(b) ==
  IF VerifyChecksum(b)
  THEN [is_valid |-> TRUE, humidity_x10 |-> Tenths(b, 0),
        temperature_x10 |-> Tenths(b, 2)]
  ELSE NoData

\* LORA_APP_ReadSensor, after the read: the range check and the conversion, which
\* rounds to the tenths the bytes spelled out.
Converted(d) ==
  IF d.humidity_x10 > 10 * MaxHumidity
  THEN [status |-> "SENSOR_VALUE_INVALID", humidity_x10 |-> 0, temperature_x10 |-> 0]
  ELSE [status |-> "SENSOR_OK", humidity_x10 |-> d.humidity_x10,
        temperature_x10 |-> d.temperature_x10]

ReadFailed == [status |-> "SENSOR_READ_FAILED", humidity_x10 |-> 0, temperature_x10 |-> 0]

\* DHT11_Init
ReadingInit ==
  /\ pc = "idle" /\ delay = 0 /\ timeout_cnt = 0 /\ bits = << >>
  /\ data = NoData /\ result = ReadFailed
  /\ phase = "off" /\ left = 0 /\ bitsSent = 0 /\ alive = TRUE /\ word \in Words

--------------------------------------------------------------------------------
(* The sensor, between two ticks of the clock.                             *)

\* A released line is pulled up.
LineIsHigh == phase \in {"delay", "responseHigh", "high", "off"}

Begin(pulse, length) == phase' = pulse /\ left' = length

Pulse ==
  /\ alive /\ left = 0 /\ phase # "off"
  /\ \/ phase = "delay" /\ Begin("responseLow", ResponsePulse) /\ UNCHANGED bitsSent
     \/ phase = "responseLow" /\ Begin("responseHigh", ResponsePulse) /\ UNCHANGED bitsSent
     \/ phase = "responseHigh" /\ Begin("low", BitLow) /\ UNCHANGED bitsSent
     \/ /\ phase = "low" /\ UNCHANGED bitsSent
        /\ \E length \in (IF word[bitsSent + 1] = 1 THEN {OnePulse} ELSE ZeroPulses) :
             Begin("high", length)
     \/ /\ phase = "high" /\ bitsSent' = bitsSent + 1
        /\ Begin(IF bitsSent' = TotalBits THEN "last" ELSE "low", BitLow)
     \/ phase = "last" /\ Begin("off", 0) /\ UNCHANGED bitsSent
  /\ UNCHANGED <<driverVars, word, alive>>

\* The sensor fails: the line stays as it is.
Die ==
  /\ pc # "idle" /\ alive /\ alive' = FALSE /\ left' = 0
  /\ UNCHANGED <<driverVars, phase, bitsSent, word>>

\* Time passes where neither has anything to do at this moment.
Tick ==
  /\ delay > 0 /\ delay' = delay - 1
  /\ alive => left > 0 \/ phase = "off"
  /\ left' = IF left > 0 THEN left - 1 ELSE 0
  /\ UNCHANGED <<pc, timeout_cnt, bits, data, result, phase, bitsSent, word, alive>>

--------------------------------------------------------------------------------
(* The driver.                                                             *)

\* DHT11_DelayUs
Delay(time) == \E extra \in 0..Jitter : delay' = time + extra

\* LORA_APP_ReadSensor calls DHT11_Read.  Readings are an interval apart: the
\* sensor is at rest again, or dead, the line pulled up or shorted.
SendStartSignal ==
  /\ pc \in {"idle", "done"} /\ pc' = "started" /\ bits' = << >>
  /\ Delay(START_HIGH)
  /\ alive' \in BOOLEAN /\ word' \in Words /\ bitsSent' = 0
  /\ \/ alive' /\ \E d \in ResponseDelays : Begin("delay", d)
     \/ ~alive' /\ \E p \in {"off", "last"} : Begin(p, 0)
  /\ UNCHANGED <<timeout_cnt, data, result>>

Started ==
  /\ pc = "started" /\ delay = 0 /\ pc' = "low"
  /\ UNCHANGED <<delay, timeout_cnt, bits, data, result, sensorVars>>

\* Faulty variant: whether the read succeeded is taken from the handle.
FailUnlessValid ==
  /\ pc' = "done" /\ timeout_cnt' = 0 /\ UNCHANGED <<delay, bits, data>>
  /\ result' = IF data.is_valid THEN Converted(data) ELSE ReadFailed

\* DHT11_Read returns false early: handle->data keeps what it had.
Fail ==
  /\ pc' = "done" /\ timeout_cnt' = 0 /\ result' = ReadFailed
  /\ UNCHANGED <<delay, bits, data>>

TimedOut == timeout_cnt = (IF pc = "low" THEN RESPONSE_WAIT ELSE TIMEOUT)

\* Faulty variant: the rounds are not counted.
WaitUncounted(level) ==
  /\ delay = 0 /\ LineIsHigh = level /\ Delay(1)
  /\ UNCHANGED <<pc, timeout_cnt, bits, data, result, sensorVars>>

\* A loop that waits while the line has the level.  The limit is looked at after
\* the delay and before the line.
Wait(level) ==
  /\ delay = 0 /\ UNCHANGED sensorVars
  /\ \/ TimedOut /\ Fail
     \/ /\ ~TimedOut /\ LineIsHigh = level /\ timeout_cnt' = timeout_cnt + 1 /\ Delay(1)
        /\ UNCHANGED <<pc, bits, data, result>>

Ended(level) ==
  /\ delay = 0 /\ ~TimedOut /\ LineIsHigh # level /\ timeout_cnt' = 0
  /\ UNCHANGED sensorVars

WaitResponse ==
  \/ pc = "low"      /\ Wait(TRUE)
  \/ pc = "response" /\ Wait(FALSE)
  \/ pc = "pulse"    /\ Wait(TRUE)

ResponseSeen ==
  /\ \/ pc = "low"      /\ Ended(TRUE)  /\ pc' = "response"
     \/ pc = "response" /\ Ended(FALSE) /\ pc' = "pulse"
     \/ pc = "pulse"    /\ Ended(TRUE)  /\ pc' = "bitLow"
  /\ UNCHANGED <<delay, bits, data, result>>

WaitBit ==
  \/ pc = "bitLow"  /\ Wait(FALSE)
  \/ pc = "bitHigh" /\ Wait(TRUE)

\* Faulty variant: the line is looked at too early.
BitRisesEarly ==
  /\ pc = "bitLow" /\ Ended(FALSE) /\ pc' = "sample" /\ Delay(BIT_THRESHOLD \div 2)
  /\ UNCHANGED <<bits, data, result>>

\* The rising edge: the line is looked at again after the longest zero.
BitRises ==
  /\ pc = "bitLow" /\ Ended(FALSE) /\ pc' = "sample" /\ Delay(BIT_THRESHOLD)
  /\ UNCHANGED <<bits, data, result>>

SampleBit ==
  /\ pc = "sample" /\ delay = 0 /\ pc' = "bitHigh"
  /\ bits' = Append(bits, IF LineIsHigh THEN 1 ELSE 0)
  /\ UNCHANGED <<delay, timeout_cnt, data, result, sensorVars>>

BitFalls ==
  /\ pc = "bitHigh" /\ Len(bits) < TotalBits /\ Ended(TRUE) /\ pc' = "bitLow"
  /\ UNCHANGED <<delay, bits, data, result>>

\* The last bit was read.
Finish ==
  /\ pc = "bitHigh" /\ Len(bits) = TotalBits /\ Ended(TRUE) /\ pc' = "done"
  /\ data' = ParseData(bits)
  /\ result' = IF data'.is_valid THEN Converted(data') ELSE ReadFailed
  /\ UNCHANGED <<delay, bits>>

Driver ==
  \/ SendStartSignal \/ Started \/ WaitResponse \/ ResponseSeen
  \/ WaitBit \/ BitRises \/ SampleBit \/ BitFalls \/ Finish

ReadingNext == Driver \/ Pulse \/ Die \/ Tick

\* The processor runs and time passes; of the sensor nothing is assumed but that it
\* moves when its time has come, which Tick waits for.
Fairness == WF_readingVars(Driver) /\ WF_readingVars(Pulse) /\ WF_readingVars(Tick)

ReadingSpec == ReadingInit /\ [][ReadingNext]_readingVars /\ Fairness
--------------------------------------------------------------------------------
(* Correctness.                                                            *)

\* The sensor's own checksum: its fifth byte is the sum of the other four.
Intact(w) ==
  \E carry \in 0..3 :
    Byte(w, 0) + Byte(w, 1) + Byte(w, 2) + Byte(w, 3) = carry * ByteValues + Byte(w, 4)

\* A sample that LORA_APP_ReadSensor hands out is the one the sensor sent in this
\* very reading, with a good checksum; never one kept from an earlier reading.
SampleIsFresh ==
  pc = "done" /\ result.status = "SENSOR_OK" =>
    /\ Intact(word)
    /\ result.humidity_x10 = Tenths(word, 0) /\ result.humidity_x10 <= 10 * MaxHumidity
    /\ result.temperature_x10 = Tenths(word, 2)

\* A sensor that kept its timing and sent a good word is never reported as failed.
GoodReadingSucceeds ==
  pc = "done" /\ alive /\ Intact(word) => result.status # "SENSOR_READ_FAILED"

\* Whatever the sensor does, the reading ends.
ReadingEnds == pc \notin {"idle", "done"} ~> pc = "done"
================================================================================
