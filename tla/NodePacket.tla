------------------------------ MODULE NodePacket -------------------------------
(***************************************************************************)
(* The wire form of a packet (protocol/node_packet.c, protocol/crc16.c): a *)
(* message is encoded, its bytes may change on the way, and the receiver   *)
(* decodes what arrived into a struct that held another message.           *)
(*                                                                         *)
(* A byte is a number, a 16-bit register the set of its raised bits, so    *)
(* that an exclusive or is a symmetric difference.                         *)
(***************************************************************************)
EXTENDS NodeResponse

CONSTANTS
  Requests,   \* what the node is asked to answer
  Downlinks,  \* messages of the gateway
  Patterns,   \* which bits, counted from the first wrong one, are flipped
  Strays      \* byte strings that are no packets

VARIABLES
  sent,     \* the message encoded and, for a DATA packet, its sensor result
  frame,    \* the bytes on the way
  damage,   \* what happened to them
  message,  \* the receiver's struct
  outcome   \* what LORA_PACKET_Decode returned, once it did

vars == <<sent, frame, damage, message, outcome>>

MinLength == 9
MaxLength == 64

--------------------------------------------------------------------------------
(* CRC-16/CCITT-FALSE.                                                     *)

BitsOf(byte) == { k \in 0..7 : (byte \div 2^k) % 2 = 1 }
Xor(a, b) == (a \ b) \cup (b \ a)
ShiftLeft(value) == { k + 1 : k \in value \ {15} }

\* Faulty variant: the polynomial of another CRC.
ShiftBitIbm(value) ==
  IF 15 \in value THEN Xor(ShiftLeft(value), {15, 2, 0}) ELSE ShiftLeft(value)

ShiftBit(value) ==
  IF 15 \in value THEN Xor(ShiftLeft(value), {12, 5, 0}) ELSE ShiftLeft(value)

\* One pass of the outer loop.
AddByte(value, byte) ==
  LET after[n \in 0..8] == IF n = 0 THEN Xor(value, { k + 8 : k \in BitsOf(byte) })
                           ELSE ShiftBit(after[n - 1])
  IN after[8]

CalculateCcittFalse(bytes) ==
  LET value[n \in 0..Len(bytes)] == IF n = 0 THEN 0..15
                                    ELSE AddByte(value[n - 1], bytes[n])
  IN value[Len(bytes)]

--------------------------------------------------------------------------------
(* LORA_PACKET_Encode and LORA_PACKET_Decode.                              *)

TypeCode == [type \in {POLL, DATA, ACK, ERROR} |->
  CASE type = POLL -> 1 [] type = DATA -> 2 [] type = ACK -> 3 [] type = ERROR -> 4]

\* The number that a register holds.
NumberOf(register) ==
  LET upTo[n \in 0..16] ==
        IF n = 0 THEN 0 ELSE 2 * upTo[n - 1] + (IF 16 - n \in register THEN 1 ELSE 0)
  IN upTo[16]

BigEndian(number) == <<number \div 256, number % 256>>

Body(m) ==
  <<TypeCode[m.type], m.source, m.destination, m.transaction_id, Len(m.payload)>>
    \o m.payload \o BigEndian(m.sequence)

\* The bytes of a message; the caller's buffer is never smaller than a frame.
Encode(m) == Body(m) \o BigEndian(NumberOf(CalculateCcittFalse(Body(m))))

UNKNOWN == "UNKNOWN"
TypeOf(byte) == IF byte \in 1..4 THEN CHOOSE t \in DOMAIN TypeCode : TypeCode[t] = byte
                                 ELSE UNKNOWN

\* The message that the bytes spell out when their number fits.
Spelled(input) ==
  LET length == input[5]
  IN [type |-> TypeOf(input[1]), source |-> input[2], destination |-> input[3],
      transaction_id |-> input[4], payload |-> SubSeq(input, 6, 5 + length),
      sequence |-> 256 * input[6 + length] + input[7 + length]]

\* Faulty variant: bytes after the packet are ignored.
FitsLoosely(input) ==
  /\ Len(input) \in MinLength..MaxLength
  /\ input[5] <= MaxPayload /\ Len(input) >= MinLength + input[5]

Fits(input) ==
  /\ Len(input) \in MinLength..MaxLength
  /\ input[5] <= MaxPayload /\ Len(input) = MinLength + input[5]

\* Faulty variant: the CRC is not looked at.
CrcIgnored(input) == TRUE

CrcMatches(input) ==
  LET crcOffset == 7 + input[5]
  IN input[crcOffset + 1] * 256 + input[crcOffset + 2] =
       NumberOf(CalculateCcittFalse(SubSeq(input, 1, crcOffset)))

Decode(input) ==
  Fits(input) /\ IsMessageValid(Spelled(input)) /\ CrcMatches(input)

--------------------------------------------------------------------------------
(* What the node and the gateway send, and what may become of it.          *)

Octets == 0..255
HalfWords == 0..(2^16 - 1)
SignedHalfWords == -(2^15)..(2^15 - 1)

Messages ==
  [type : {POLL, DATA, ACK, ERROR}, source : Octets, destination : Octets,
   transaction_id : Octets, payload : Seq(Octets), sequence : HalfWords]

ASSUME TrafficAssumption ==
  /\ \A m \in Downlinks : m \in Messages /\ IsMessageValid(m) /\ m.type \in {POLL, ACK}
  /\ \A r \in Requests :
       /\ r.node_address \in NodeAddresses
       /\ r.transaction_id \in Octets /\ r.sequence \in HalfWords
       /\ r.sensor.status \in SensorFailures \cup {SENSOR_OK}
       /\ r.sensor.status = SENSOR_OK =>
            /\ r.sensor.temperature_x10 \in SignedHalfWords
            /\ r.sensor.humidity_x10 \in HalfWords

Divide(rest, n) == IF n \in rest THEN Xor(rest, {n, n + 4, n + 11, n + 16}) ELSE rest

\* What is left of a polynomial, its terms numbered from the highest, when the first
\* n of them are gone.
Divided(terms, n) ==
  LET rest[k \in 0..n] == IF k = 0 THEN terms ELSE Divide(rest[k - 1], k) IN rest[n]

\* Wrong bits that a CRC promises to notice: no multiple of its polynomial.
LongestPacket == MinLength + DataPayloadLength
Noticed(pattern) == Divided({ k + 1 : k \in pattern }, 8 * LongestPacket) # {}

\* No packet: not what LORA_PACKET_Encode makes of the message that is spelled.
ASSUME DamageAssumption ==
  /\ \A pattern \in Patterns : pattern \subseteq Nat /\ Noticed(pattern)
  /\ \A stray \in Strays :
       /\ stray \in Seq(Octets) /\ stray # << >>
       /\ Fits(stray) /\ IsMessageValid(Spelled(stray)) => stray # Encode(Spelled(stray))

--------------------------------------------------------------------------------
(* The way of a packet.                                                    *)

NoSensor == [status |-> "none"]

\* Every message the program encodes: the node's answers and the gateway's packets.
Sendable ==
  { [message |-> Build(r).message, sensor |-> r.sensor] : r \in Requests }
    \cup { [message |-> m, sensor |-> NoSensor] : m \in Downlinks }

Undamaged == "none"
Pending   == "pending"
ACCEPTED  == "accepted"
REJECTED  == "rejected"

Init ==
  /\ sent \in Sendable /\ frame = Encode(sent.message) /\ damage = Undamaged
  /\ message \in Downlinks /\ outcome = Pending

FlippedByte(byte, bits) == NumberOf(Xor(BitsOf(byte), bits))

\* Bits are sent the highest of a byte first; position 0 is the frame's first bit.
Flip(bytes, positions) ==
  [i \in DOMAIN bytes |->
     FlippedByte(bytes[i], { k \in 0..7 : 8 * i - 1 - k \in positions })]

BitsFlip ==
  /\ damage = Undamaged /\ outcome = Pending
  /\ \E first \in 0..(8 * Len(frame) - 1), pattern \in Patterns :
       /\ \A k \in pattern : first + k < 8 * Len(frame)
       /\ frame' = Flip(frame, { first + k : k \in pattern })
  /\ damage' = "flipped" /\ UNCHANGED <<sent, message, outcome>>

BytesLost ==
  /\ damage = Undamaged /\ outcome = Pending
  /\ \E length \in 0..(Len(frame) - 1) : frame' = SubSeq(frame, 1, length)
  /\ damage' = "cut" /\ UNCHANGED <<sent, message, outcome>>

StrayBytes ==
  /\ damage = Undamaged /\ outcome = Pending
  /\ \E stray \in Strays : frame' \in {stray, frame \o stray}
  /\ damage' = "stray" /\ UNCHANGED <<sent, message, outcome>>

\* LORA_PACKET_Decode: it parses into a local struct and writes the caller's by one
\* assignment, on success only; nothing else of the program runs during the call.
Receive ==
  /\ outcome = Pending /\ outcome' = IF Decode(frame) THEN ACCEPTED ELSE REJECTED
  /\ message' = IF outcome' = ACCEPTED THEN Spelled(frame) ELSE message
  /\ UNCHANGED <<sent, frame, damage>>

Next == BitsFlip \/ BytesLost \/ StrayBytes \/ Receive

Spec == Init /\ [][Next]_vars
--------------------------------------------------------------------------------
(* Correctness.                                                            *)

\* An undamaged packet is accepted and is the message that was sent.  Flipped bits
\* that the CRC promises to notice, a missing end, bytes that are no packet or
\* follow one: nothing is accepted.
AcceptedIffUndamaged ==
  outcome # Pending =>
    /\ outcome = ACCEPTED <=> damage = Undamaged
    /\ outcome = ACCEPTED => message = sent.message

\* Nothing is accepted but what LORA_PACKET_Encode would have produced, and what is
\* refused, at whatever check, leaves no trace in the caller's message.
AcceptedIsCanonical ==
  IF outcome = ACCEPTED THEN IsMessageValid(message) /\ frame = Encode(message)
                        ELSE message \in Downlinks

\* The gateway gets the sample the sensor gave, negative temperatures included.
SignedWord(high, low) ==
  LET field == 256 * high + low IN IF field >= 32768 THEN field - 65536 ELSE field

SampleSurvives ==
  outcome = ACCEPTED /\ message.type = DATA =>
    /\ SignedWord(message.payload[1], message.payload[2]) = sent.sensor.temperature_x10
    /\ 256 * message.payload[3] + message.payload[4] = sent.sensor.humidity_x10

\* The CRC of a packet, whole, cut or with wrong bits, is the remainder of a long
\* division: its bits, the first sixteen inverted, sixteen zeros after them, divided
\* by x^16 + x^12 + x^5 + 1.
Dividend(bytes) ==
  Xor(1..16, { n \in 1..(8 * Len(bytes)) :
                 7 - ((n - 1) % 8) \in BitsOf(bytes[1 + (n - 1) \div 8]) })

Remainder(bytes) ==
  { k \in 0..15 : 8 * Len(bytes) + 16 - k \in Divided(Dividend(bytes), 8 * Len(bytes)) }

CrcIsRemainder ==
  outcome = Pending /\ damage # "stray" =>
    CalculateCcittFalse(frame) = Remainder(frame)
================================================================================
