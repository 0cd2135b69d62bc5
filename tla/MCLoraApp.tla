------------------------------- MODULE MCLoraApp -------------------------------
(***************************************************************************)
(* LoraApp with counters of a few values.  One sample and one sensor       *)
(* failure stand for what the sensor may return; the foreign frames are    *)
(* a neighbour's ACK with this node's first ID and Seq, a damaged frame    *)
(* and a frame without any payload.                                        *)
(***************************************************************************)
EXTENDS LoraApp

Contract == INSTANCE PacketContract

MCSensorResults ==
  { [status |-> Response!SENSOR_OK, temperature_x10 |-> 253, humidity_x10 |-> 600],
    [status |-> Response!SENSOR_READ_FAILED, temperature_x10 |-> 0,
     humidity_x10 |-> 0] }

Ack(destination, id, seq) ==
  [type |-> Contract!ACK, source |-> 0, destination |-> destination,
   transaction_id |-> id, sequence |-> seq, payload |-> << >>]

MCForeignFrames ==
  { [intact |-> TRUE,  message |-> Ack(NodeAddress + 1, 0, 0)],
    [intact |-> FALSE, message |-> Ack(NodeAddress, 0, 0)], NoFrame }

MCFrames ==
  { [intact |-> TRUE, message |-> Ack(NodeAddress, seq % IdMod, seq)] :
      seq \in 0..(SeqMod - 1) } \cup (MCForeignFrames \ {NoFrame})

MCBusyChannel == {MCForeignFrames}
MCAnyChannel  == {MCForeignFrames, {}}
================================================================================
