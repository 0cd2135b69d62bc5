------------------------------ MODULE RadioDriver ------------------------------
(***************************************************************************)
(* The SX1278 driver (drivers/sx1278/SX1278.c) and the radio chip it       *)
(* drives, one step per driver call.                                       *)
(*                                                                         *)
(* mode is the chip's operating mode, irq its raised interrupt flags and   *)
(* dioMapping the flag that the DIO0 pin shows.  fifo is the frame that a  *)
(* raised RxDone announces, NoFrame when there is none or it is empty.     *)
(* rxBuffer is the frame in module->rxBuffer, NoFrame when                 *)
(* module->readBytes is 0.                                                 *)
(***************************************************************************)
CONSTANT NoFrame

VARIABLES mode, irq, dioMapping, fifo, rxBuffer
radioVars == <<mode, irq, dioMapping, fifo, rxBuffer>>

SLEEP   == "SLEEP"
STANDBY == "STANDBY"
RX      == "RX"
TX      == "TX"

RxDone == "RxDone"
TxDone == "TxDone"

\* SX1278_hw_GetDIO0
DIO0 == dioMapping \in irq

\* SX1278_init: hardware reset, then SX1278_config.
Initialize ==
  /\ mode = STANDBY /\ irq = {} /\ dioMapping = RxDone
  /\ fifo = NoFrame /\ rxBuffer = NoFrame

\* Faulty variant: the flags are cleared and the chip is left as it is.
ClearFlagsOnly ==
  /\ irq' = {} /\ dioMapping' = RxDone /\ rxBuffer' = NoFrame
  /\ UNCHANGED <<mode, fifo>>

\* SX1278_hw_Reset, then SX1278_config.
ResetAndConfig ==
  /\ mode' = STANDBY /\ irq' = {} /\ dioMapping' = RxDone
  /\ fifo' = NoFrame /\ rxBuffer' = NoFrame

\* SX1278_LoRaEntryTx and the OpMode write that starts the transmitter.  The
\* configuration passes through Sleep, which empties the FIFO.
StartTx ==
  /\ mode' = TX /\ irq' = {} /\ dioMapping' = TxDone
  /\ fifo' = NoFrame /\ rxBuffer' = NoFrame

\* TxDone seen: flags cleared, standby.
FinishTx == mode' = STANDBY /\ irq' = {} /\ UNCHANGED <<dioMapping, fifo, rxBuffer>>

\* SX1278_receive: the flags, and with them a frame not yet fetched, are dropped.
Receive ==
  /\ mode' = RX /\ irq' = {} /\ dioMapping' = RxDone
  /\ fifo' = NoFrame /\ rxBuffer' = NoFrame

\* SX1278_available: a received frame moves to rxBuffer and the flags clear.
Available ==
  \/ /\ DIO0
     /\ rxBuffer' = fifo /\ irq' = {} /\ fifo' = NoFrame
     /\ UNCHANGED <<mode, dioMapping>>
  \/ ~DIO0 /\ UNCHANGED radioVars

\* SX1278_read: the caller has its copy, nothing is left.
Read == rxBuffer' = NoFrame /\ UNCHANGED <<mode, irq, dioMapping, fifo>>

\* NODE_POWER_SleepRadio: only the mode is written; Sleep empties the FIFO.
SleepRadio ==
  /\ mode' = SLEEP /\ fifo' = NoFrame /\ rxBuffer' = NoFrame
  /\ UNCHANGED <<irq, dioMapping>>

--------------------------------------------------------------------------------
(* The chip by itself.                                                     *)

\* The transmission ended: TxDone, and the chip falls back to standby.
ChipTxDone ==
  /\ mode = TX /\ mode' = STANDBY /\ irq' = irq \cup {TxDone}
  /\ UNCHANGED <<dioMapping, fifo, rxBuffer>>

\* A frame came in; a frame not yet fetched is overwritten.
ChipReceives(frame) ==
  /\ mode = RX /\ irq' = irq \cup {RxDone} /\ fifo' = frame
  /\ UNCHANGED <<mode, dioMapping, rxBuffer>>

\* One step of the driver or of the chip, when the frame on the air is frame.
Next(frame) ==
  \/ ResetAndConfig \/ StartTx \/ FinishTx \/ Receive \/ Available \/ Read
  \/ SleepRadio \/ ChipTxDone \/ ChipReceives(frame)
================================================================================
