------------------------------ MODULE SpiMaster --------------------------------
(***************************************************************************)
(* The SPI writer (plib_sercom1_spi_master.c): SERCOM1_SPI_WriteRead, its  *)
(* interrupt handler and the SERCOM, called by the radio driver            *)
(* (SX1278_hw.c, one byte a call, waiting without end) and by node_power.c *)
(* (two bytes, waiting for so many polls).                                 *)
(*                                                                         *)
(* The handler preempts its callers, and the shift register runs beside    *)
(* both: the handler is cut into steps wherever it reads a flag or writes  *)
(* DATA.  The k-th byte the chip answers in a transfer is <<tag, k>>.      *)
(* Callers always ask for as many bytes as they send, eight bits wide: the *)
(* code for dummy bytes and for 16-bit words is never reached.             *)
(***************************************************************************)
EXTENDS Integers, Sequences

CONSTANTS
  RadioBytes,    \* bytes of a transfer of the radio driver (1)
  PowerBytes,    \* bytes of a transfer of node_power.c (2)
  WaitAttempts,  \* NODE_POWER_WAIT_ATTEMPTS
  None           \* an empty register

ASSUME SpiAssumption ==
  /\ RadioBytes \in Nat \ {0} /\ PowerBytes \in Nat \ {0}
  /\ WaitAttempts \in Nat \ {0} /\ None \notin Nat

VARIABLES
  pc, client, polls,  \* the main program; polls counts NODE_POWER_WaitSpi's
  nss,                \* chip select, TRUE when the chip is selected
  size, txCount, rxBuffer, transferIsBusy,  \* sercom1SPIObj; size is txSize, rxSize
  isLast,             \* isLastByteTransferInProgress
  handler,            \* the next step of the interrupt handler
  inten,              \* INTENSET
  txReg, shift,       \* DATA and the shift register: which byte they hold
  rxReg,              \* the receive buffer
  txc,                \* INTFLAG.TXC
  tag                 \* tells a transfer from the one before it

mainVars == <<pc, client, polls, nss>>
objVars  == <<size, txCount, rxBuffer, transferIsBusy, isLast>>
busVars  == <<txReg, shift, rxReg, txc>>
vars     == <<mainVars, objVars, handler, inten, busVars, tag>>

Clients   == {"radio", "power"}
Locations == {"idle", "waitFree", "start", "wait", "failed"}
Flags     == {"DRE", "RXC", "TXC"}
Sizes     == {RadioBytes, PowerBytes}
rxCount   == Len(rxBuffer)

TypeOK ==
  /\ pc \in Locations /\ client \in Clients
  /\ polls \in 0..WaitAttempts /\ nss \in BOOLEAN
  /\ size \in Sizes \cup {0} /\ txCount \in 0..size
  /\ rxBuffer \in Seq((0..1) \X Nat) /\ rxCount <= size
  /\ transferIsBusy \in BOOLEAN /\ isLast \in BOOLEAN
  /\ handler \in {"idle", "transmit", "complete", "rearm"}
  /\ inten \subseteq Flags
  /\ txReg \in 1..size \cup {None} /\ shift \in 1..size \cup {None}
  /\ rxReg \in Seq((0..1) \X (1..size)) /\ Len(rxReg) <= 2
  /\ txc \in BOOLEAN /\ tag \in 0..1

\* SERCOM1_SPI_Initialize
Init ==
  /\ pc = "idle" /\ client = "radio" /\ polls = 0 /\ nss = FALSE
  /\ size = 0 /\ txCount = 0 /\ rxBuffer = << >>
  /\ transferIsBusy = FALSE /\ isLast = FALSE
  /\ handler = "idle" /\ inten = {}
  /\ txReg = None /\ shift = None /\ rxReg = << >> /\ txc = FALSE /\ tag = 0

--------------------------------------------------------------------------------
(* The SERCOM.                                                             *)

Raised ==
  { flag \in Flags : \/ flag = "DRE" /\ txReg = None
                     \/ flag = "RXC" /\ rxReg # << >>
                     \/ flag = "TXC" /\ txc }

Pending == inten \cap Raised # {}

\* The byte in DATA moves to the free shift register.
Load ==
  /\ txReg # None /\ shift = None
  /\ shift' = txReg /\ txReg' = None
  /\ UNCHANGED <<mainVars, objVars, handler, inten, rxReg, txc, tag>>

\* A byte was shifted out and another in; a third unread one is lost.
ShiftByte ==
  /\ shift # None /\ shift' = None
  /\ rxReg' = IF Len(rxReg) < 2 THEN Append(rxReg, <<tag, shift>>) ELSE rxReg
  /\ UNCHANGED <<mainVars, objVars, handler, inten, txReg, txc, tag>>

\* The last byte was shifted out and there is nothing more in DATA.
TransmitComplete ==
  /\ txReg = None /\ shift = None /\ ~txc /\ txCount > 0 /\ txc' = TRUE
  /\ UNCHANGED <<mainVars, objVars, handler, inten, txReg, shift, rxReg, tag>>

Bus == Load \/ ShiftByte \/ TransmitComplete

--------------------------------------------------------------------------------
(* SERCOM1_SPI_InterruptHandler.                                           *)

\* Entry and the reception.
HandleReceive ==
  /\ handler = "idle" /\ Pending /\ handler' = "transmit"
  /\ IF rxReg # << >>
     THEN /\ rxReg' = Tail(rxReg)
          /\ rxBuffer' = IF rxCount < size THEN Append(rxBuffer, Head(rxReg))
                                           ELSE rxBuffer
     ELSE UNCHANGED <<rxReg, rxBuffer>>
  /\ UNCHANGED <<mainVars, size, txCount, transferIsBusy, isLast, inten,
                 txReg, shift, txc, tag>>

\* DATA is empty: the next byte, or the note that the last one is on its way.
\* Writing DATA clears TXC.
HandleTransmit ==
  /\ handler = "transmit" /\ handler' = "complete"
  /\ IF txReg = None
     THEN /\ IF txCount < size
             THEN txReg' = txCount + 1 /\ txCount' = txCount + 1 /\ txc' = FALSE
             ELSE UNCHANGED <<txReg, txCount, txc>>
          /\ isLast' = (isLast \/ txCount' = size)
          /\ inten' = IF txCount' < size /\ rxCount = size
                      THEN (inten \cup {"DRE"}) \ {"RXC"} ELSE inten \ {"DRE"}
     ELSE UNCHANGED <<txReg, txCount, txc, isLast, inten>>
  /\ UNCHANGED <<mainVars, size, rxBuffer, transferIsBusy, shift, rxReg, tag>>

\* Faulty variant: a transfer is complete however little was received.
CompletesUnread == txc /\ isLast

Completes == txc /\ isLast /\ rxCount = size

HandleComplete ==
  /\ handler = "complete" /\ handler' = "rearm"
  /\ IF Completes
     THEN transferIsBusy' = FALSE /\ inten' = {} /\ isLast' = FALSE
     ELSE UNCHANGED <<transferIsBusy, inten, isLast>>
  /\ UNCHANGED <<mainVars, size, txCount, rxBuffer, busVars, tag>>

\* Faulty variant: the last byte's interrupt is never enabled.
HandleRearmNothing ==
  /\ handler = "rearm" /\ handler' = "idle"
  /\ UNCHANGED <<mainVars, objVars, inten, busVars, tag>>

HandleRearm ==
  /\ handler = "rearm" /\ handler' = "idle"
  /\ inten' = IF isLast THEN inten \cup {"TXC"} ELSE inten
  /\ UNCHANGED <<mainVars, objVars, busVars, tag>>

Handler == HandleReceive \/ HandleTransmit \/ HandleComplete \/ HandleRearm

--------------------------------------------------------------------------------
(* The callers.                                                            *)

\* Faulty variant: only the TXC flag is looked at.
IsTransmitterBusy == size # 0 /\ ~txc

\* transferIsBusy is read before TXC; only the caller itself ever sets it, so the
\* two reads may be taken as one.
IsBusy == size # 0 /\ (~txc \/ transferIsBusy)

BytesOf(c) == IF c = "radio" THEN RadioBytes ELSE PowerBytes

\* A call begins.  The radio driver (SX1278_hw_SPICommand, SX1278_hw_SPIReadByte)
\* selects the chip before it waits; node_power.c is called with the chip released,
\* for every sequence of SX1278.c releases it.
Call ==
  /\ pc = "idle" /\ pc' = "waitFree" /\ client' \in Clients /\ polls' = 0
  /\ nss' = (nss \/ client' = "radio")
  /\ nss => client' = "radio"
  /\ UNCHANGED <<objVars, handler, inten, busVars, tag>>

\* Faulty variant: the poll gives up one round too late.
GivesUpLate == client = "power" /\ polls' = WaitAttempts + 1

GivesUp == client = "power" /\ polls' = WaitAttempts

\* One round of a wait that found the SPI busy.
StillBusy ==
  /\ IsBusy /\ polls' = IF client = "power" THEN polls + 1 ELSE polls
  /\ \/ ~GivesUp /\ UNCHANGED <<pc, nss>>
     \/ GivesUp /\ pc' = "failed" /\ nss' = FALSE
  /\ UNCHANGED <<client, objVars, handler, inten, busVars, tag>>

WaitFree ==
  /\ pc = "waitFree" /\ ~IsBusy /\ pc' = "start" /\ nss' = TRUE /\ polls' = 0
  /\ UNCHANGED <<client, objVars, handler, inten, busVars, tag>>

\* SERCOM1_SPI_WriteRead.  Clearing the error flag with a read-modify-write of
\* INTFLAG clears TXC, too.
WriteRead ==
  /\ pc = "start"
  /\ IF transferIsBusy
     THEN /\ pc' = IF client = "radio" THEN "waitFree" ELSE "failed"
          /\ UNCHANGED <<objVars, inten, txReg, rxReg, txc, tag>>
     ELSE /\ pc' = "wait" /\ tag' = 1 - tag
          /\ size' = BytesOf(client) /\ txReg' = 1 /\ txCount' = 1
          /\ rxBuffer' = << >> /\ transferIsBusy' = TRUE
          /\ rxReg' = << >> /\ txc' = FALSE /\ inten' = inten \cup {"RXC"}
          /\ UNCHANGED isLast
  /\ UNCHANGED <<client, polls, nss, handler, shift>>

\* The call returns.  The radio driver keeps the chip selected for more bytes or
\* releases it.
Return ==
  /\ pc = "wait" /\ ~IsBusy /\ pc' = "idle" /\ polls' = 0
  /\ nss' \in (IF client = "radio" THEN BOOLEAN ELSE {FALSE})
  /\ UNCHANGED <<client, objVars, handler, inten, busVars, tag>>

\* The handler runs before the program that it interrupted goes on, but for an
\* instruction that was already under way.
Main ==
  /\ handler = "idle"
  /\ \/ Call \/ WaitFree \/ WriteRead \/ Return
     \/ pc \in {"waitFree", "wait"} /\ StillBusy

\* After node_power.c gave up the node stops for good.
Stopped == pc = "failed" /\ UNCHANGED vars

Next == Main \/ Handler \/ Bus \/ Stopped

\* The bus has a clock, interrupts are served, and the program gets the processor
\* while no interrupt is pending.
Fairness == WF_vars(Bus) /\ WF_vars(Handler) /\ WF_vars(~Pending /\ Main)

Spec == Init /\ [][Next]_vars /\ Fairness
--------------------------------------------------------------------------------
(* Correctness.                                                            *)

\* When a call has returned, its buffer holds the chip's answers to its own bytes,
\* all of them and in order, whatever the handler and the bus did meanwhile.
AnswersAreComplete ==
  pc = "idle" /\ size > 0 => rxBuffer = [k \in 1..size |-> <<tag, k>>]

\* The chip is never released with a byte on the wire, unless a wait was given up.
SelectedWhileShifting ==
  ~nss /\ pc # "failed" => shift = None /\ txReg = None

\* The radio driver's bytes live on its stack: the handler stores into a buffer
\* only while the call that owns it waits (node_power.c's are static and may be
\* written after it gave up).
BufferHasOwner ==
  [][ HandleReceive /\ rxBuffer' # rxBuffer => pc \in {"wait", "failed"} ]_vars

\* The radio driver waits without a limit, and each of its waits ends: no interrupt
\* is missed and none returns for ever.
EveryTransferEnds == pc \in {"waitFree", "wait"} ~> pc \notin {"waitFree", "wait"}
================================================================================
