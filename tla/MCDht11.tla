-------------------------------- MODULE MCDht11 --------------------------------
(***************************************************************************)
(* Dht11 with bytes of two bits.  One time unit is five microseconds, and  *)
(* a round of a waiting loop takes one.  The words: two plausible samples, *)
(* one too humid, one with a wrong checksum.  All their sums overflow.     *)
(***************************************************************************)
EXTENDS Dht11

MCWords ==
  { <<0, 1,  1, 0,  0, 0,  0, 1,  0, 0>>,
    <<0, 1,  1, 1,  1, 1,  1, 0,  0, 1>>,
    <<1, 1,  0, 1,  0, 1,  0, 1,  1, 0>>,
    <<1, 0,  0, 0,  0, 1,  0, 1,  0, 1>> }

\* The code's own times and those its comments give for the sensor, in microseconds.
InMicroseconds(jitter) == INSTANCE Dht11 WITH
  ByteBits <- 8, Words <- {}, START_HIGH <- 30, RESPONSE_WAIT <- 100,
  BIT_THRESHOLD <- 40, TIMEOUT <- 200, ResponseDelays <- 20..40, ResponsePulse <- 80,
  BitLow <- 50, ZeroPulses <- 26..28, OnePulse <- 70, Jitter <- jitter, MaxHumidity <- 100

\* They fit as long as interrupts delay a poll by no more than 14 of them.
ASSUME CodeTimesFit == \A j \in 0..30 : InMicroseconds(j)!TimesFit <=> j <= 14
================================================================================
