-------------------------------- MODULE UartLog --------------------------------
(***************************************************************************)
(* The debug log and its UART: DEBUG_LOG_Printf (app/debug_log.h) in the   *)
(* main program, the asynchronous writer and its interrupt handler         *)
(* (plib_sercom5_usart.c), the transmitter, and the drain that precedes    *)
(* a sleep (NODE_POWER_DrainPeripherals).                                  *)
(*                                                                         *)
(* The transmitter has a data register, which the software fills, and a    *)
(* shift register, which it empties onto the wire.  DRE says the first is  *)
(* empty, TXC that the second ran dry with nothing to follow.  Neither     *)
(* the line nor a byte of it has a value here but the line it belongs to.  *)
(***************************************************************************)
EXTENDS Naturals

CONSTANTS
  Lines,      \* the lines that may be logged
  MaxLength,  \* their greatest length
  Debug,      \* IS_DEBUG
  Stalls,     \* subset of BOOLEAN: the values stalls may have
  None

ASSUME LogAssumption ==
  None \notin Lines /\ MaxLength \in Nat /\ Debug \in BOOLEAN /\ Stalls \subseteq BOOLEAN

VARIABLES
  pc,                              \* the main program's next step
  line, length,                    \* the static buffer of DEBUG_LOG_Printf
  busy, owner, size, processed,    \* sercom5USARTObj
  interrupt, isr,                  \* DRE interrupt enabled; its handler runs
  data, shift, txc,                \* the transmitter
  emitted,                         \* bytes of the current line put into data
  stalls                           \* the UART may stall: any wait may run out

logVars == <<line, length>>
objVars == <<busy, owner, size, processed>>
chipVars == <<data, shift, txc>>
vars == <<pc, logVars, objVars, interrupt, isr, chipVars, emitted, stalls>>

\* After SERCOM5_USART_Initialize: TXC goes up with the first frame only.
Init ==
  /\ pc = "boot" /\ line = None /\ length = 0
  /\ busy = FALSE /\ owner = None /\ size = 0 /\ processed = 0
  /\ interrupt = FALSE /\ isr = FALSE
  /\ data = None /\ shift = None /\ txc = FALSE /\ emitted = 0
  /\ stalls \in Stalls

--------------------------------------------------------------------------------
(* The transmitter.                                                        *)

DRE == data = None

\* A write to DATA clears TXC.
WriteData ==
  /\ DRE /\ data' = line /\ txc' = FALSE /\ emitted' = emitted + 1
  /\ UNCHANGED shift

Load ==
  /\ shift = None /\ data # None
  /\ shift' = data /\ data' = None
  /\ UNCHANGED <<pc, logVars, objVars, interrupt, isr, txc, emitted>>

ShiftOut ==
  /\ shift # None
  /\ shift' = data /\ data' = None
  /\ txc' = (txc \/ data = None)
  /\ UNCHANGED <<pc, logVars, objVars, interrupt, isr, emitted>>

Transmitter == Load \/ ShiftOut

--------------------------------------------------------------------------------
(* SERCOM5_USART_InterruptHandler.                                         *)

IsrStarts ==
  /\ ~isr /\ interrupt /\ DRE
  /\ isr' = TRUE
  /\ UNCHANGED <<pc, logVars, objVars, interrupt, chipVars, emitted>>

IsrWrites ==
  /\ isr /\ busy /\ processed < size
  /\ WriteData /\ processed' = processed + 1
  /\ UNCHANGED <<pc, logVars, busy, owner, size, interrupt, isr>>

\* The data register is full, or there is nothing left: the transfer is over.
IsrReturns ==
  /\ isr /\ (DRE => ~busy \/ processed >= size)
  /\ isr' = FALSE
  /\ IF busy /\ processed >= size
     THEN busy' = FALSE /\ size' = 0 /\ interrupt' = FALSE
     ELSE UNCHANGED <<busy, size, interrupt>>
  /\ UNCHANGED <<pc, logVars, owner, processed, chipVars, emitted>>

Handler == IsrStarts \/ IsrWrites \/ IsrReturns

--------------------------------------------------------------------------------
(* The main program.                                                       *)

\* The handler preempts the main program as soon as it may run.
At(location) == pc = location /\ ~isr /\ ~(interrupt /\ DRE)

\* The attempts of a wait outlast every transmission, unless the UART stalls.
AttemptsRunOut == stalls \/ (data = None /\ shift = None)

\* LORA_APP_Initialize logs its progress.
Boot ==
  /\ At("boot") /\ pc' = IF Debug THEN "waitFree" ELSE "task"
  /\ UNCHANGED <<logVars, objVars, interrupt, isr, chipVars, emitted>>

Log ==
  /\ At("task") /\ Debug /\ pc' = "waitFree"
  /\ UNCHANGED <<logVars, objVars, interrupt, isr, chipVars, emitted>>

\* Faulty variant: the buffer is formatted without waiting for its reader.
FormatAtOnce ==
  /\ At("waitFree") /\ pc' = "write"
  /\ line' \in Lines /\ length' \in 1..MaxLength
  /\ UNCHANGED <<objVars, interrupt, isr, chipVars, emitted>>

Format ==
  /\ At("waitFree") /\ ~busy /\ pc' = "write"
  /\ line' \in Lines /\ length' \in 1..MaxLength
  /\ UNCHANGED <<objVars, interrupt, isr, chipVars, emitted>>

\* SERCOM5_USART_Write takes the buffer, unless it is busy.
Write ==
  /\ At("write")
  /\ \/ /\ ~busy /\ pc' = "fill" /\ busy' = TRUE
        /\ owner' = line /\ size' = length /\ emitted' = 0
     \/ busy /\ pc' = "task" /\ UNCHANGED <<busy, owner, size, emitted>>
  /\ UNCHANGED <<logVars, processed, interrupt, isr, chipVars>>

\* It writes bytes as long as DRE is up; emitted is its local processedSize.
Fill ==
  /\ At("fill") /\ emitted < size /\ WriteData
  /\ UNCHANGED <<pc, logVars, objVars, interrupt, isr>>

\* Faulty variant: the interrupt is enabled before the bytes are counted.
StartWithoutCount ==
  /\ At("fill") /\ (DRE => emitted >= size)
  /\ interrupt' = TRUE /\ processed' = 0 /\ pc' = "waitSent"
  /\ UNCHANGED <<logVars, busy, owner, size, isr, chipVars, emitted>>

\* Faulty variant: the interrupt is not enabled.
StartWithoutInterrupt ==
  /\ At("fill") /\ (DRE => emitted >= size)
  /\ processed' = emitted /\ pc' = "waitSent"
  /\ UNCHANGED <<logVars, busy, owner, size, interrupt, isr, chipVars, emitted>>

\* The handler takes over where the loop ended.
StartInterrupt ==
  /\ At("fill") /\ (DRE => emitted >= size)
  /\ interrupt' = TRUE /\ processed' = emitted /\ pc' = "waitSent"
  /\ UNCHANGED <<logVars, busy, owner, size, isr, chipVars, emitted>>

Logged ==
  /\ At("waitSent") /\ ~busy /\ pc' = "task"
  /\ UNCHANGED <<logVars, objVars, interrupt, isr, chipVars, emitted>>

\* Either wait of DEBUG_LOG_Printf runs out and the call returns.
GiveUp ==
  /\ At("waitFree") \/ At("waitSent")
  /\ busy /\ AttemptsRunOut /\ pc' = "task"
  /\ UNCHANGED <<logVars, objVars, interrupt, isr, chipVars, emitted>>

Drain ==
  /\ At("task") /\ pc' = "drainBusy"
  /\ UNCHANGED <<logVars, objVars, interrupt, isr, chipVars, emitted>>

\* Faulty variant: the end of the transfer is taken for the end of the line.
LooksIdleOnce == ~busy

\* What the drain sees at each of its two looks: the writer idle, then TXC.
LooksIdle == IF pc = "drainBusy" THEN ~busy ELSE txc

\* One evaluation of the drain's loop condition: || looks at TXC second.
DrainLooks ==
  /\ At("drainBusy") \/ At("drainComplete")
  /\ \/ LooksIdle /\ pc' = (IF pc = "drainBusy" THEN "drainComplete" ELSE "drained")
     \/ ~LooksIdle /\ pc' = "drainBusy"
     \/ ~LooksIdle /\ AttemptsRunOut /\ pc' = "undrained"
  /\ UNCHANGED <<logVars, objVars, interrupt, isr, chipVars, emitted>>

\* Standby, and a new transaction.
Wake ==
  /\ At("drained") /\ pc' = "task"
  /\ UNCHANGED <<logVars, objVars, interrupt, isr, chipVars, emitted>>

\* The failed drain stops the node.
Halted == pc = "undrained" /\ UNCHANGED vars

Program ==
  \/ Boot \/ Log \/ Format \/ Write \/ Fill \/ StartInterrupt \/ Logged \/ GiveUp
  \/ Drain \/ DrainLooks \/ Wake

Next ==
  \/ (Program \/ Handler \/ Transmitter) /\ UNCHANGED stalls
  \/ Halted

Spec == Init /\ [][Next]_vars
--------------------------------------------------------------------------------
(* Correctness.                                                            *)

\* The static line buffer is not reformatted while the interrupt handler still
\* reads it, not even after a call gave up waiting: what goes out is one line.
NoTornLine == busy => line = owner

\* Of every line all bytes go out, each once, although the main program and the
\* handler each write some of them.
LineIsWhole ==
  /\ busy => emitted <= size
  /\ ~busy /\ owner # None => emitted = length \/ pc = "write"

\* A drain that succeeds leaves nothing on its way: Standby cuts no byte short.
DrainedIsSilent ==
  pc = "drained" => ~busy /\ data = None /\ shift = None

\* A UART that does not stall is always found drained, so that the node goes on:
\* turning the logs on or off decides about the logs only (README, "change it to 0
\* ... to disable all logs").
DrainSucceeds == ~stalls => pc # "undrained"
================================================================================
