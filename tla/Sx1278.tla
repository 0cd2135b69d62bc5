--------------------------------- MODULE Sx1278 ---------------------------------
(***************************************************************************)
(* The SX1278 driver (drivers/sx1278/SX1278.c) register by register, the   *)
(* radio chip that goes on by itself between any two register accesses,    *)
(* and a caller (app/lora_app.c, app/node_power.c) that calls the driver   *)
(* in any order, but for this: it reads a frame that is available before   *)
(* the next call, and arms the receiver only when it is not armed.         *)
(* RadioDriver makes one step of each call; this module is checked to      *)
(* implement it.                                                           *)
(*                                                                         *)
(* The processor may be reset at any moment.  The radio keeps its power    *)
(* and goes on with what it was doing until the driver resets it.          *)
(*                                                                         *)
(* A byte is <<f, i>>, byte i of frame f; NoByte is a byte of no frame.    *)
(* rxBuffer is what module->rxBuffer holds of the frame being read or of   *)
(* the one that waits for the caller, and nothing when readBytes is 0.     *)
(* FifoAddrPtr is where a burst began: it is written before every burst.   *)
(* The chip stores the bytes of a frame in its FIFO while they come in, so *)
(* that it may write the cells the driver is reading.                      *)
(***************************************************************************)
EXTENDS Integers, Sequences

CONSTANTS
  Frames, Length,   \* the frames on the air, and how many bytes each has
  Uplinks,          \* those of them this node sends
  MinLength,        \* shorter ones do not decode (LORA_PACKET_MIN_LENGTH)
  FifoSize, TxBase, \* the FIFO; the receiver's half starts at cell 0
  TxPolls,          \* the timeout of SX1278_LoRaTxPacket, in polls of DIO0
  NoByte, NoFrame

ASSUME FifoAssumption ==
  /\ FifoSize \in Nat \ {0} /\ TxBase \in 0..(FifoSize - 1)
  /\ Length \in [Frames -> 0..FifoSize] /\ Uplinks \subseteq Frames
  /\ \A f \in Uplinks : Length[f] >= MinLength
  /\ MinLength \in Nat \ {0, 1} /\ TxPolls \in Nat \ {0}
  /\ NoFrame \notin Frames

VARIABLES
  reg,              \* the chip's registers
  irq,              \* RegIrqFlags
  fifo, rxNext,     \* the FIFO, and where the next frame will be stored
  incoming,         \* the frame being received and how much of it is stored
  pc, ret,          \* the next step of the driver, and where config returns
  txFrame, txPolls,
  packetSize, rxBuffer, readBytes,
  armed,            \* the caller's receiverStarted
  received,         \* history: decodable frames received since the arming
  last              \* history: the last frame, until anything is stored after it

chipVars    == <<reg, irq, fifo, rxNext, incoming>>
txVars      == <<txFrame, txPolls>>
rxVars      == <<packetSize, rxBuffer, readBytes>>
historyVars == <<received, last>>
vars == <<chipVars, pc, ret, txVars, rxVars, armed, historyVars>>

SLEEP   == "SLEEP"
STANDBY == "STANDBY"
RX      == "RX"
TX      == "TX"
RxDone  == "RxDone"
TxDone  == "TxDone"

Config   == {"cfgLoRa", "cfgSettings", "cfgStandby"}
Entry    == {"txSetup", "txPointer", "txLoad", "txGo"}
Arming   == {"rxSetup", "rxGo"}
Reading  == {"rxAddr", "rxSize", "rxBurst", "rxClear"}

Step(from, to) == pc = from /\ pc' = to

Bytes(f) == [i \in 1..Length[f] |-> <<f, i>>]
Cells(start, n) == [i \in 1..n |-> fifo[(start + i - 1) % FifoSize]]

\* What LORA_PACKET_Decode accepts: a frame whole and alone.  NodePacket shows
\* that a cut frame or one with a tail is refused.
Decodable == { f \in Frames : Length[f] >= MinLength }
Decodes(bytes) == \E f \in Decodable : bytes = Bytes(f)

--------------------------------------------------------------------------------
(* The chip.                                                               *)

\* The registers after a hardware reset: FSK mode, standby, nothing masked.
PowerOn ==
  [LongRange |-> FALSE, OpMode |-> STANDBY, Settings |-> "default",
   PaDac |-> "normal", DioMapping1 |-> RxDone, Unmasked |-> {RxDone, TxDone},
   PayloadLength |-> 1, FifoAddrPtr |-> 0, RxCurrentAddr |-> 0, RxNbBytes |-> 0]

EmptyFifo == [cell \in 0..(FifoSize - 1) |-> NoByte]
NotReceiving == [frame |-> NoFrame, start |-> 0, stored |-> 0]

\* A write of RegOpMode.  LongRangeMode can only be changed in Sleep, and Sleep
\* empties the FIFO.  Where the receiver starts to store is not documented.
WriteOpMode(mode, longRange) ==
  /\ reg' = [reg EXCEPT !.OpMode = mode,
               !.LongRange = IF reg.OpMode = SLEEP THEN longRange ELSE @]
  /\ incoming' = NotReceiving
  /\ fifo' = IF mode = SLEEP THEN EmptyFifo ELSE fifo
  /\ rxNext' \in IF mode = SLEEP THEN {0} ELSE IF mode = RX THEN {0, rxNext}
                                              ELSE {rxNext}

\* The flags that are not masked rise.
Raise(flag) == irq' = irq \cup ({flag} \cap reg.Unmasked)

\* SX1278_hw_GetDIO0
DIO0 == reg.DioMapping1 \in irq

ChipTxDone ==
  /\ reg.OpMode = TX /\ reg' = [reg EXCEPT !.OpMode = STANDBY] /\ Raise(TxDone)
  /\ UNCHANGED <<fifo, rxNext, incoming, pc, ret, txVars, rxVars, armed, historyVars>>

ChipHearsFrame ==
  /\ reg.OpMode = RX /\ incoming = NotReceiving
  /\ \E f \in Frames : incoming' = [frame |-> f, start |-> rxNext, stored |-> 0]
  /\ UNCHANGED <<reg, irq, fifo, rxNext, pc, ret, txVars, rxVars, armed, historyVars>>

ChipStoresByte ==
  /\ incoming # NotReceiving /\ incoming.stored < Length[incoming.frame]
  /\ incoming' = [incoming EXCEPT !.stored = @ + 1]
  /\ fifo' = [fifo EXCEPT ![(incoming.start + incoming.stored) % FifoSize] =
                             <<incoming.frame, incoming.stored + 1>>]
  /\ last' = NoFrame
  /\ UNCHANGED <<reg, irq, rxNext, pc, ret, txVars, rxVars, armed, received>>

ChipEndsFrame ==
  /\ incoming # NotReceiving /\ incoming.stored = Length[incoming.frame]
  /\ incoming' = NotReceiving
  /\ rxNext' = (incoming.start + incoming.stored) % FifoSize
  /\ reg' = [reg EXCEPT !.RxCurrentAddr = incoming.start,
                        !.RxNbBytes = incoming.stored]
  /\ Raise(RxDone)
  /\ received' = IF armed THEN received \cup ({incoming.frame} \cap Decodable)
                          ELSE received
  /\ last' = IF armed /\ pc \notin Reading THEN incoming.frame ELSE NoFrame
  /\ UNCHANGED <<fifo, pc, ret, txVars, rxVars, armed>>

Chip == ChipTxDone \/ ChipHearsFrame \/ ChipStoresByte \/ ChipEndsFrame
--------------------------------------------------------------------------------
(* Reset and configuration.                                                *)

Write(register, value) == [reg EXCEPT ![register] = value]

Init ==
  /\ reg = PowerOn /\ irq = {} /\ fifo = EmptyFifo /\ rxNext = 0
  /\ incoming = NotReceiving
  /\ pc = "reset" /\ ret = "idle" /\ txFrame = NoFrame /\ txPolls = 0
  /\ packetSize = 0 /\ rxBuffer = << >> /\ readBytes = 0 /\ armed = FALSE
  /\ received = {} /\ last = NoFrame

\* SX1278_hw_Reset: at boot, or when a transmission did not start or end.
HardwareReset ==
  /\ Step("reset", "cfgSleep")
  /\ reg' = PowerOn /\ irq' = {} /\ fifo' = EmptyFifo /\ rxNext' = 0
  /\ incoming' = NotReceiving /\ txFrame' = NoFrame /\ txPolls' = 0
  /\ UNCHANGED <<ret, rxVars, armed, historyVars>>

\* Faulty variant: the driver relies on the mode the chip is in.
StayAwake == UNCHANGED <<reg, incoming, fifo, rxNext>>

\* SX1278_sleep
EnterSleep == WriteOpMode(SLEEP, reg.LongRange)

ConfigSleep ==
  /\ Step("cfgSleep", "cfgLoRa") /\ EnterSleep
  /\ UNCHANGED <<irq, ret, txVars, rxVars, armed, historyVars>>

\* SX1278_entryLoRa
ConfigLoRa ==
  /\ Step("cfgLoRa", "cfgSettings") /\ WriteOpMode(SLEEP, TRUE)
  /\ UNCHANGED <<irq, ret, txVars, rxVars, armed, historyVars>>

\* Frequency to preamble: most of these registers exist in LoRa mode only.
ConfigSettings ==
  /\ Step("cfgSettings", "cfgStandby")
  /\ reg' = Write("Settings", IF reg.LongRange THEN "configured" ELSE reg.Settings)
  /\ readBytes' = 0 /\ rxBuffer' = << >>
  /\ UNCHANGED <<irq, fifo, rxNext, incoming, ret, txVars, packetSize, armed,
                 historyVars>>

ConfigStandby ==
  /\ pc = "cfgStandby" /\ pc' = ret /\ WriteOpMode(STANDBY, reg.LongRange)
  /\ ret' = "idle"
  /\ UNCHANGED <<irq, txVars, rxVars, armed, historyVars>>

\* The caller no longer counts on the receiver.
Disarm == armed' = FALSE /\ received' = {} /\ last' = NoFrame

\* The processor is reset: the driver starts anew, the chip does not notice.
Restart ==
  /\ pc # "reset" /\ pc' = "reset" /\ ret' = "idle" /\ txPolls' = 0
  /\ packetSize' = 0 /\ rxBuffer' = << >> /\ readBytes' = 0
  /\ Disarm /\ UNCHANGED <<chipVars, txFrame>>

--------------------------------------------------------------------------------
(* SX1278_transmit.                                                        *)

\* SX1278_LoRaEntryTx begins with SX1278_config, which begins with Sleep.
Transmit(f) ==
  /\ readBytes = 0 /\ Step("idle", "cfgLoRa") /\ ret' = "txSetup" /\ EnterSleep
  /\ txFrame' = f /\ Disarm
  /\ UNCHANGED <<irq, txPolls, rxVars>>

TxSetup ==
  /\ Step("txSetup", "txPointer")
  /\ reg' = [reg EXCEPT !.PaDac = "20dBm", !.DioMapping1 = TxDone,
                        !.Unmasked = {TxDone}, !.PayloadLength = Length[txFrame]]
  /\ irq' = {}
  /\ UNCHANGED <<fifo, rxNext, incoming, ret, txVars, rxVars, armed, historyVars>>

\* The pointer is set; the length reads back, or never does.
TxPointer ==
  /\ pc = "txPointer" /\ pc' \in {"txLoad", "reset"}
  /\ reg' = Write("FifoAddrPtr", TxBase)
  /\ UNCHANGED <<irq, fifo, rxNext, incoming, ret, txVars, rxVars, armed, historyVars>>

\* SX1278_SPIBurstWrite to RegFifo.
TxLoad ==
  /\ Step("txLoad", "txGo")
  /\ fifo' = [cell \in DOMAIN fifo |->
                LET i == ((cell - reg.FifoAddrPtr) % FifoSize) + 1
                IN IF i \in 1..Length[txFrame] THEN <<txFrame, i>> ELSE fifo[cell]]
  /\ UNCHANGED <<reg, irq, rxNext, incoming, ret, txVars, rxVars, armed, historyVars>>

TxGo ==
  /\ Step("txGo", "txPoll") /\ WriteOpMode(TX, TRUE)
  /\ UNCHANGED <<irq, ret, txVars, rxVars, armed, historyVars>>

TxPoll ==
  /\ pc = "txPoll" /\ pc' = IF DIO0 THEN "txClear" ELSE "txCheck"
  /\ UNCHANGED <<chipVars, ret, txVars, rxVars, armed, historyVars>>

TxCheck ==
  /\ pc = "txCheck" /\ txPolls' = txPolls + 1
  /\ pc' = IF txPolls' = TxPolls THEN "reset" ELSE "txPoll"
  /\ UNCHANGED <<chipVars, ret, txFrame, rxVars, armed, historyVars>>

TxClear ==
  /\ Step("txClear", "txStandby") /\ irq' = {}
  /\ UNCHANGED <<reg, fifo, rxNext, incoming, ret, txVars, rxVars, armed, historyVars>>

TxStandby ==
  /\ Step("txStandby", "idle") /\ WriteOpMode(STANDBY, reg.LongRange)
  /\ txFrame' = NoFrame /\ txPolls' = 0
  /\ UNCHANGED <<irq, ret, rxVars, armed, historyVars>>
--------------------------------------------------------------------------------
(* SX1278_receive, SX1278_available, SX1278_read.                          *)

Receive ==
  /\ readBytes = 0 /\ ~armed /\ Step("idle", "rxSetup") /\ WriteOpMode(STANDBY, reg.LongRange)
  /\ Disarm
  /\ UNCHANGED <<irq, ret, txVars, rxVars>>

\* Frames carry their length: the one written for the receiver is left out.
RxSetup ==
  /\ Step("rxSetup", "rxGo")
  /\ reg' = [reg EXCEPT !.PaDac = "normal", !.DioMapping1 = RxDone,
                        !.Unmasked = {RxDone}, !.FifoAddrPtr = 0]
  /\ irq' = {}
  /\ UNCHANGED <<fifo, rxNext, incoming, ret, txVars, rxVars, armed, historyVars>>

RxGo ==
  /\ Step("rxGo", "idle") /\ WriteOpMode(RX, TRUE)
  /\ readBytes' = 0 /\ rxBuffer' = << >> /\ armed' = TRUE
  /\ UNCHANGED <<irq, ret, txVars, packetSize, historyVars>>

\* SX1278_LoRaRxPacket: nothing to do unless DIO0 is high.
Available ==
  /\ pc = "idle" /\ armed /\ readBytes = 0
  /\ \/ DIO0 /\ pc' = "rxAddr" /\ rxBuffer' = << >>
     \/ ~DIO0 /\ UNCHANGED <<pc, rxBuffer>>
  /\ UNCHANGED <<chipVars, ret, txVars, packetSize, readBytes, armed, historyVars>>

\* Faulty variant: the frame is looked for where the first one was stored.
RxAddrBase ==
  /\ Step("rxAddr", "rxSize") /\ reg' = Write("FifoAddrPtr", 0)
  /\ UNCHANGED <<irq, fifo, rxNext, incoming, ret, txVars, rxVars, armed, historyVars>>

RxAddr ==
  /\ Step("rxAddr", "rxSize") /\ reg' = Write("FifoAddrPtr", reg.RxCurrentAddr)
  /\ UNCHANGED <<irq, fifo, rxNext, incoming, ret, txVars, rxVars, armed, historyVars>>

\* SX1278_SPIBurstRead reads nothing when it is asked for one byte or none: the
\* buffer keeps its zeros.
Unread(n) == [i \in 1..n |-> NoByte]

RxSize ==
  /\ pc = "rxSize" /\ packetSize' = reg.RxNbBytes
  /\ IF packetSize' <= 1 THEN pc' = "rxClear" /\ rxBuffer' = Unread(packetSize')
                         ELSE pc' = "rxBurst" /\ UNCHANGED rxBuffer
  /\ UNCHANGED <<chipVars, ret, txVars, readBytes, armed, historyVars>>

NextCell == fifo[(reg.FifoAddrPtr + Len(rxBuffer)) % FifoSize]

RxBurst ==
  /\ pc = "rxBurst" /\ rxBuffer' = Append(rxBuffer, NextCell)
  /\ pc' = IF Len(rxBuffer') = packetSize THEN "rxClear" ELSE "rxBurst"
  /\ UNCHANGED <<chipVars, ret, txVars, packetSize, readBytes, armed, historyVars>>

\* Faulty variant: the flags stay up, and the frame is announced again.
RxClearNothing ==
  /\ Step("rxClear", "idle") /\ readBytes' = packetSize /\ packetSize' = 0
  /\ UNCHANGED <<chipVars, ret, txVars, rxBuffer, armed, historyVars>>

\* The flags are cleared, and with them that of a frame that came in meanwhile.
RxClear ==
  /\ Step("rxClear", "idle") /\ irq' = {} /\ readBytes' = packetSize /\ packetSize' = 0
  /\ UNCHANGED <<reg, fifo, rxNext, incoming, ret, txVars, rxBuffer,
                 armed, historyVars>>

\* The caller takes the frame and arms the receiver again before it asks again.
Read ==
  /\ pc = "idle" /\ readBytes > 0 /\ readBytes' = 0 /\ rxBuffer' = << >>
  /\ Disarm
  /\ UNCHANGED <<chipVars, pc, ret, txVars, packetSize>>

\* NODE_POWER_SleepRadio
SleepRadio ==
  /\ pc = "idle" /\ readBytes = 0 /\ reg.LongRange /\ WriteOpMode(SLEEP, TRUE)
  /\ readBytes' = 0 /\ rxBuffer' = << >> /\ Disarm
  /\ UNCHANGED <<irq, pc, ret, txVars, packetSize>>

Driver ==
  \/ HardwareReset \/ ConfigSleep \/ ConfigLoRa \/ ConfigSettings \/ ConfigStandby
  \/ TxSetup \/ TxPointer \/ TxLoad \/ TxGo \/ TxPoll \/ TxCheck \/ TxClear \/ TxStandby
  \/ RxSetup \/ RxGo \/ RxAddr \/ RxSize \/ RxBurst \/ RxClear

Caller ==
  (\E f \in Uplinks : Transmit(f)) \/ Receive \/ Available \/ Read \/ SleepRadio

Next == Driver \/ Caller \/ Chip \/ Restart

Spec == Init /\ [][Next]_vars
--------------------------------------------------------------------------------
(* Correctness.                                                            *)

\* What came in whole since the receiver was armed: the frames received, and one
\* that is stored to its last byte and not yet announced.
CameIn == received \cup
  { f \in Decodable : incoming.frame = f /\ incoming.stored = Length[f] }

\* Whatever interleaving of the reads with a chip that goes on receiving: what the
\* driver hands over either is refused by the decoder or is a frame that came in
\* since the receiver was armed; and it is the last one, whole, if nothing was
\* stored after it.
DeliveredIsReceived ==
  pc = "rxClear" =>
    /\ Decodes(rxBuffer) => \E f \in CameIn : rxBuffer = Bytes(f)
    /\ last # NoFrame => rxBuffer = IF Length[last] <= 1 THEN Unread(Length[last])
                                                ELSE Bytes(last)

\* The chip never sends or listens but in LoRa mode, with this program's settings,
\* with the amplifier and the DIO0 pin set for that direction; and what it sends is
\* the frame it was asked to send.
OnAirAsConfigured ==
  /\ reg.OpMode \in {RX, TX} => reg.LongRange /\ reg.Settings = "configured"
  /\ reg.OpMode = RX => /\ reg.PaDac = "normal" /\ reg.DioMapping1 = RxDone
                        /\ reg.Unmasked = {RxDone}
  /\ reg.OpMode = TX => /\ reg.PaDac = "20dBm" /\ reg.DioMapping1 = TxDone
                        /\ reg.Unmasked = {TxDone}
                        /\ Cells(TxBase, reg.PayloadLength) = Bytes(txFrame)

\* The driver's calls as one step each.  A call takes effect with its first write
\* of RegOpMode; a frame is fetched when the flags are cleared.
Starting == ret = "txSetup" \/ pc \in Entry
Booting  == ret = "idle" /\ pc \in {"reset", "cfgSleep"} \cup Config

\* The frame the driver will hand over, if the chip leaves it alone.
Whole(start, n) == IF n <= 1 THEN Unread(n) ELSE Cells(start, n)

Announced ==
  CASE pc = "rxSize"  -> Whole(reg.FifoAddrPtr, reg.RxNbBytes)
    [] pc = "rxBurst" -> rxBuffer \o Cells(reg.FifoAddrPtr + Len(rxBuffer),
                                         packetSize - Len(rxBuffer))
    [] pc = "rxClear" -> rxBuffer
    [] OTHER          -> Whole(reg.RxCurrentAddr, reg.RxNbBytes)

Frame(bytes) == IF bytes = << >> THEN NoFrame ELSE bytes

Calling == Starting \/ Booting \/ pc \in Arming

RadioMode == CASE Starting -> TX [] Booting -> STANDBY [] pc \in Arming -> RX
               [] OTHER -> reg.OpMode

RadioIrq == IF Calling THEN {} ELSE irq

RadioDioMapping == CASE Starting -> TxDone [] Booting \/ pc \in Arming -> RxDone
                     [] OTHER -> reg.DioMapping1

RadioFifo == IF Calling \/ RxDone \notin irq \/ reg.OpMode = SLEEP
             THEN NoFrame ELSE Frame(Announced)

RadioBuffer == IF Calling \/ readBytes = 0 THEN NoFrame ELSE Frame(rxBuffer)

Radio == INSTANCE RadioDriver WITH
  mode <- RadioMode, irq <- RadioIrq, dioMapping <- RadioDioMapping,
  fifo <- RadioFifo, rxBuffer <- RadioBuffer

\* The driver implements RadioDriver, on which the node is built: a frame that
\* arrives while another is read only ever counts as one frame less or as one that
\* does not decode.
RefinesRadioDriver ==
  Radio!Initialize /\ [][Radio!Next(Frame(Announced'))]_(Radio!radioVars)
================================================================================
