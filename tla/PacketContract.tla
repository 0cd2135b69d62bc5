---------------------------- MODULE PacketContract ----------------------------
(***************************************************************************)
(* The V1 packet contract at message level (protocol/node_packet.c).       *)
(*                                                                         *)
(* A message is the LORA_PACKET_Message struct; its payload is a sequence  *)
(* of bytes whose length is payload_length.  A frame is what a receiver    *)
(* finds in its buffer: the message the bytes spell out, and whether the   *)
(* length and CRC-16 checks of LORA_PACKET_Decode hold for them.  A frame  *)
(* damaged on the air, truncated or padded is one that is not intact.      *)
(***************************************************************************)
EXTENDS Integers, Sequences

POLL  == "POLL"
DATA  == "DATA"
ACK   == "ACK"
ERROR == "ERROR"

GatewayAddress == 0
NodeAddresses  == 1..254
MaxPayload     == 55

DataPayloadLength  == 4
ErrorPayloadLength == 1

\* The four reasons an ERROR packet can carry; 4 is PACKET_BUILD_FAILED.
ErrorCodes == 1..4

\* Direction, addresses, payload length and sequence that each type demands.
IsMessageValid(m) ==
  /\ Len(m.payload) <= MaxPayload
  /\ \/ /\ m.type = POLL
        /\ m.source = GatewayAddress /\ m.destination \in NodeAddresses
        /\ m.payload = << >> /\ m.sequence = 0
     \/ /\ m.type = DATA
        /\ m.source \in NodeAddresses /\ m.destination = GatewayAddress
        /\ Len(m.payload) = DataPayloadLength
     \/ /\ m.type = ACK
        /\ m.source = GatewayAddress /\ m.destination \in NodeAddresses
        /\ m.payload = << >>
     \/ /\ m.type = ERROR
        /\ m.source \in NodeAddresses /\ m.destination = GatewayAddress
        /\ Len(m.payload) = ErrorPayloadLength /\ m.payload[1] \in ErrorCodes

\* LORA_PACKET_Decode accepts a frame; the packet it yields is frame.message.
Decodes(frame) == frame.intact /\ IsMessageValid(frame.message)
================================================================================
