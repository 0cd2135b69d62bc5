----------------------------- MODULE MCNodePacket ------------------------------
(***************************************************************************)
(* NodePacket at the edges of every field: one, two and three wrong bits,  *)
(* bursts of up to sixteen, and byte strings at the limits of the two      *)
(* lengths.                                                                *)
(***************************************************************************)
EXTENDS NodePacket

Sample(t, h) == [status |-> SENSOR_OK, temperature_x10 |-> t, humidity_x10 |-> h]

MCSensors ==
  { Sample(-1, 1000), Sample(-32768, 0), Sample(32767, 255), Sample(253, 256) }
    \cup { [status |-> s] : s \in SensorFailures }

MCRequests ==
  { [node_address |-> a, transaction_id |-> s.sequence % 256, sequence |-> s.sequence,
     sensor |-> s.sensor] :
      a \in {1}, s \in [sequence : {65535}, sensor : MCSensors] }
  \cup
  { [node_address |-> 254, transaction_id |-> 0, sequence |-> 256,
     sensor |-> Sample(0, 0)] }

Downlink(t, s) ==
  [type |-> t, source |-> 0, destination |-> 254, transaction_id |-> s % 256,
   sequence |-> s, payload |-> << >>]

MCDownlinks == { Downlink(ACK, 65280), Downlink(POLL, 0) }

MCPatterns ==
  { {0, k} : k \in {0, 1, 8, 15, 16, 17, 47, 63, 71} } \cup { {0, 5, 12}, 0..15, {0, 1, 2}, {0, 7, 90} }

\* Two wrong bits, however far apart in a packet, may be among the patterns.
ASSUME TwoAreNoticed == \A k \in 1..(8 * LongestPacket - 1) : Noticed({0, k})

Zeros(n, length) == [i \in 1..n |-> IF i = 5 THEN length ELSE 0]

MCStrays ==
  { Zeros(1, 0), Zeros(8, 0), Zeros(9, 0), Zeros(10, 1), Zeros(64, 55), Zeros(64, 56),
    Zeros(65, 56), [i \in 1..9 |-> 255] }
================================================================================
