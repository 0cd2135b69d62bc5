-------------------------------- MODULE LoraApp --------------------------------
(***************************************************************************)
(* The sensor node as a whole: the main loop (main.c, app/lora_app.c) with *)
(* the state machine, the response builder and the radio driver it calls,  *)
(* the radio chip, the air and the gateway.                                *)
(*                                                                         *)
(* The loop runs one step at a time.  Between two steps the clock may      *)
(* advance, the chip may finish a transmission or receive a frame, and the *)
(* gateway may send an ACK.  The gateway and the air are not part of the   *)
(* repository: the gateway echoes the ID and Seq of an uplink it heard,    *)
(* any number of times and as late as AckLife cycles after; the air loses, *)
(* delays and reorders frames and carries frames of others.                *)
(***************************************************************************)
EXTENDS Integers, Sequences, FiniteSets

CONSTANTS
  TickMod, IdMod, SeqMod, IntervalMs, AckTimeoutMs, PollGapMs, NodeAddress,
  Frames,           \* every frame the radio may hand over
  Channels,         \* what else may be on the air, besides the gateway's ACKs
  SensorResults,    \* what LORA_APP_ReadSensor may return
  TxTimeoutPolls,   \* APP_CONFIG_TX_TIMEOUT_MS, in polls of DIO0
  AckLife,          \* the gateway's ACKs live this many cycles
  NoFrame

ASSUME CounterAssumption ==
  /\ TickMod \in Nat \ {0} /\ IdMod \in Nat \ {0} /\ SeqMod \in Nat \ {0}
  /\ \E k \in 1..SeqMod : SeqMod = k * IdMod

ASSUME TimingAssumption ==
  /\ IntervalMs \in Nat /\ AckTimeoutMs \in Nat \ {0} /\ PollGapMs \in Nat
  /\ AckTimeoutMs + PollGapMs <= TickMod

VARIABLES
  pc,               \* the next step of the main loop
  context, action,  \* nodeContext and the result of the last event
  loraReady, receiverStarted,
  txFrame,          \* the frame LORA_APP_BuildAndTransmit sends
  txPolls,          \* how often DIO0 was polled in vain
  stampAge,         \* ms since the time stamp of the frame being handled
  now, waited, sincePoll,
  mode, irq, dioMapping, fifo, rxBuffer,
  heard,            \* the IDs and sequences of the uplinks the gateway heard
  air,              \* the ACKs the gateway sent
  foreign           \* the frames of others, which never change

State    == INSTANCE NodeState
Radio    == INSTANCE RadioDriver
Response == INSTANCE NodeResponse

clockVars == <<now, waited, sincePoll>>
stateVars == <<context, action, clockVars>>
radioVars == <<mode, irq, dioMapping, fifo, rxBuffer>>
flagVars  == <<loraReady, receiverStarted>>
txVars    == <<txFrame, txPolls>>
linkVars  == <<heard, air, foreign>>
vars == <<pc, stateVars, flagVars, txVars, stampAge, radioVars, linkVars>>

--------------------------------------------------------------------------------
(* Start-up and fatal faults.                                              *)

Init ==
  /\ pc = "boot" /\ State!Init /\ Radio!Initialize
  /\ loraReady = FALSE /\ receiverStarted = FALSE
  /\ txFrame = NoFrame /\ txPolls = 0 /\ stampAge = 0
  /\ heard = {} /\ air = {} /\ foreign \in Channels

\* LORA_APP_Initialize: the timer, the RTC or the radio may be found unusable.
Boot ==
  /\ pc = "boot" /\ pc' = "tasks"
  /\ loraReady' \in BOOLEAN
  /\ UNCHANGED <<stateVars, receiverStarted, txVars, stampAge, radioVars, linkVars>>

\* Fatal faults leave the loop entering Standby with its interrupts disabled.
Halted == pc = "tasks" /\ ~loraReady /\ UNCHANGED vars

--------------------------------------------------------------------------------
(* The sleep interval and the sample.                                      *)

\* An event handled now, with the time stamp taken lag milliseconds ago.
Notify(type, frame, lag) ==
  State!Handle(State!Event(type, frame, (now - lag) % TickMod), lag)

\* Where the loop goes with the result of an event.
AfterEvent ==
  pc' = CASE action'.type = State!READ_SENSOR       -> "sample"
          [] action'.type \in State!TerminalActions -> "terminal"
          [] action'.type = State!NONE              -> "tasks"

\* Faulty variant: the flag survives the sleep.
SleepKeepingFlag ==
  /\ pc = "tasks" /\ loraReady /\ context.state = State!WAIT_INTERVAL
  /\ pc' = "sleep"
  /\ UNCHANGED <<stateVars, flagVars, txVars, stampAge, radioVars, linkVars>>

SleepInterval ==
  /\ pc = "tasks" /\ loraReady /\ context.state = State!WAIT_INTERVAL
  /\ receiverStarted' = FALSE /\ pc' = "sleep"
  /\ UNCHANGED <<stateVars, loraReady, txVars, stampAge, radioVars, linkVars>>

\* NODE_POWER_Sleep returned true: the radio slept and the RTC woke the MCU.
SleepReturns ==
  /\ pc = "sleep" /\ pc' = "wake" /\ Radio!SleepRadio
  /\ UNCHANGED <<stateVars, flagVars, txVars, stampAge, linkVars>>

\* NODE_POWER_Sleep returned false, before or after the radio was put to sleep.
SleepFails ==
  /\ pc = "sleep" /\ pc' = "tasks" /\ loraReady' = FALSE
  /\ Radio!SleepRadio \/ UNCHANGED radioVars
  /\ UNCHANGED <<stateVars, receiverStarted, txVars, stampAge, linkVars>>

\* The sequences of the last AckLife cycles.
LiveSequences == { (context.response_sequence - k) % SeqMod : k \in 1..AckLife }

\* INTERVAL_ELAPSED.  A cycle starts: what is older than AckLife cycles is gone.
Wake ==
  /\ pc = "wake" /\ Notify(State!INTERVAL_ELAPSED, State!NONE, 0) /\ AfterEvent
  /\ heard' = { uplink \in heard : uplink.sequence \in LiveSequences }
  /\ air'   = { frame \in air : frame.message.sequence \in LiveSequences }
  /\ UNCHANGED <<flagVars, txVars, stampAge, radioVars, foreign>>

\* LORA_APP_ReadSensor and NODE_RESPONSE_Build.
Sample ==
  /\ pc = "sample"
  /\ \E sensor \in SensorResults :
       LET built == Response!Build(
             [node_address |-> NodeAddress, transaction_id |-> action.transaction_id,
              sequence |-> action.sequence, sensor |-> sensor])
           ready == built.result \in {Response!DATA_READY, Response!ERROR_READY}
       IN /\ txFrame' = IF ready THEN built.message ELSE NoFrame
          /\ pc' = IF ready THEN "transmit" ELSE "unsent"
  /\ UNCHANGED <<stateVars, flagVars, txPolls, stampAge, radioVars, linkVars>>

--------------------------------------------------------------------------------
(* The transmission.                                                       *)

\* SX1278_LoRaEntryTx: the payload length is written and reads back.
StartTransmit ==
  /\ pc = "transmit" /\ pc' = "txPoll" /\ txPolls' = 0 /\ Radio!StartTx
  /\ UNCHANGED <<stateVars, flagVars, txFrame, stampAge, linkVars>>

\* It never reads back: the radio is reset and nothing is sent.
StartTransmitFails ==
  /\ pc = "transmit" /\ pc' = "unsent" /\ Radio!ResetAndConfig
  /\ UNCHANGED <<stateVars, flagVars, txVars, stampAge, linkVars>>

\* SX1278_LoRaTxPacket looks at DIO0 ...
PollTxDone ==
  /\ pc = "txPoll"
  /\ \/ Radio!DIO0 /\ Radio!FinishTx /\ pc' = "sent"
     \/ ~Radio!DIO0 /\ UNCHANGED radioVars /\ pc' = "txCheck"
  /\ UNCHANGED <<stateVars, flagVars, txVars, stampAge, linkVars>>

\* Faulty variant: the poll never gives up.
CheckTxForever ==
  /\ pc = "txCheck" /\ pc' = "txPoll"
  /\ UNCHANGED <<stateVars, flagVars, txVars, stampAge, radioVars, linkVars>>

\* ... and, having seen it low, gives up or waits another millisecond.
CheckTxTimeout ==
  /\ pc = "txCheck" /\ txPolls' = txPolls + 1
  /\ \/ txPolls' = TxTimeoutPolls /\ Radio!ResetAndConfig /\ pc' = "unsent"
     \/ txPolls' < TxTimeoutPolls /\ UNCHANGED radioVars /\ pc' = "txPoll"
  /\ UNCHANGED <<stateVars, flagVars, txFrame, stampAge, linkVars>>

NotifySent ==
  /\ pc = "sent" /\ pc' = "startReceiver" /\ receiverStarted' = FALSE
  /\ Notify(State!TX_SUCCEEDED, State!NONE, 0)
  /\ txFrame' = NoFrame /\ txPolls' = 0
  /\ UNCHANGED <<loraReady, stampAge, radioVars, linkVars>>

\* Faulty variant: the failure is logged and the state machine is not told.
NotifyUnsentNobody ==
  /\ pc = "unsent" /\ receiverStarted' = FALSE /\ pc' = "tasks"
  /\ txFrame' = NoFrame /\ txPolls' = 0
  /\ UNCHANGED <<stateVars, loraReady, stampAge, radioVars, linkVars>>

NotifyUnsent ==
  /\ pc = "unsent" /\ receiverStarted' = FALSE
  /\ Notify(State!TX_FAILED, State!NONE, 0) /\ AfterEvent
  /\ txFrame' = NoFrame /\ txPolls' = 0
  /\ UNCHANGED <<loraReady, stampAge, radioVars, linkVars>>

\* Faulty variant: the flag is cleared after RX was armed instead of before.
StartReceiverFlagLost ==
  /\ pc = "startReceiver" /\ pc' = "tasks" /\ receiverStarted' = FALSE
  /\ Radio!Receive
  /\ UNCHANGED <<stateVars, loraReady, txVars, stampAge, linkVars>>

\* RX is armed in the same pass as the end of the transmission.
StartReceiver ==
  /\ pc = "startReceiver" /\ pc' = "tasks" /\ receiverStarted' = TRUE
  /\ Radio!Receive
  /\ UNCHANGED <<stateVars, loraReady, txVars, stampAge, linkVars>>

--------------------------------------------------------------------------------
(* Waiting for the ACK: one pass of LORA_APP_Tasks.                        *)

CheckDeadline ==
  /\ pc = "tasks" /\ loraReady /\ context.state = State!WAIT_ACK
  /\ Notify(State!TIMER_TICK, State!NONE, 0)
  /\ pc' = IF action'.type = State!NONE THEN "arm" ELSE "terminal"
  /\ UNCHANGED <<flagVars, txVars, stampAge, radioVars, linkVars>>

Arm ==
  /\ pc = "arm" /\ pc' = "available"
  /\ \/ receiverStarted /\ UNCHANGED <<receiverStarted, radioVars>>
     \/ ~receiverStarted /\ receiverStarted' = TRUE /\ Radio!Receive
  /\ UNCHANGED <<stateVars, loraReady, txVars, stampAge, linkVars>>

\* A frame that is available gets its time stamp before it is read.
Available ==
  /\ pc = "available" /\ Radio!Available /\ stampAge' = 0
  /\ pc' = IF rxBuffer' = NoFrame THEN "idle" ELSE "read"
  /\ UNCHANGED <<stateVars, flagVars, txVars, linkVars>>

IdleTick ==
  /\ pc = "idle" /\ Notify(State!TIMER_TICK, State!NONE, 0) /\ AfterEvent
  /\ UNCHANGED <<flagVars, txVars, stampAge, radioVars, linkVars>>

ReadFrame ==
  /\ pc = "read" /\ Radio!Read /\ receiverStarted' = FALSE
  /\ Notify(State!FRAME_RECEIVED, rxBuffer, stampAge) /\ AfterEvent
  /\ stampAge' = 0
  /\ UNCHANGED <<loraReady, txVars, linkVars>>

\* Faulty variant: the state machine is initialised again for the next cycle.
FinishCycleAnew ==
  /\ pc = "terminal" /\ pc' = "tasks" /\ context' = State!Initialized(now)
  /\ sincePoll' = 0 /\ UNCHANGED <<action, now, waited>>
  /\ UNCHANGED <<flagVars, txVars, stampAge, radioVars, linkVars>>

\* The outcome is logged, then the interval starts.
FinishCycle ==
  /\ pc = "terminal" /\ pc' = "tasks" /\ State!RestartInterval
  /\ UNCHANGED <<flagVars, txVars, stampAge, radioVars, linkVars>>

Loop ==
  \/ Boot \/ SleepInterval \/ SleepReturns \/ SleepFails \/ Wake \/ Sample
  \/ StartTransmit \/ StartTransmitFails \/ PollTxDone \/ CheckTxTimeout
  \/ NotifySent \/ NotifyUnsent \/ StartReceiver
  \/ CheckDeadline \/ Arm \/ Available \/ IdleTick \/ ReadFrame \/ FinishCycle

--------------------------------------------------------------------------------
(* The clock, the chip, the air and the gateway.                           *)

\* The millisecond counter runs while the MCU is awake.
Tick ==
  /\ pc \notin {"boot", "sleep"} /\ loraReady /\ State!Tick
  /\ stampAge' = IF pc = "read" THEN stampAge + 1 ELSE stampAge
  /\ UNCHANGED <<pc, flagVars, txVars, radioVars, linkVars>>

\* The transmission leaves the antenna; the gateway hears it or not.
TransmissionEnds ==
  /\ Radio!ChipTxDone
  /\ heard' \in {heard, heard \cup {[transaction_id |-> txFrame.transaction_id,
                                    sequence |-> txFrame.sequence]}}
  /\ UNCHANGED <<pc, stateVars, flagVars, txVars, stampAge, air, foreign>>

AckFor(uplink) ==
  [intact |-> TRUE,
   message |-> [type |-> State!ACK, source |-> State!GatewayAddress,
                destination |-> NodeAddress,
                transaction_id |-> uplink.transaction_id,
                sequence |-> uplink.sequence, payload |-> << >>]]

\* A frame that this node would take for an ACK of its own.
IsAckToNode(frame) ==
  /\ State!Decodes(frame)
  /\ frame.message.type = State!ACK /\ frame.message.destination = NodeAddress

\* The radio may hand over whatever is on the air, and ACKs to this node come
\* from its gateway alone.
ASSUME AirAssumption ==
  /\ NodeAddress \in State!NodeAddresses
  /\ \A seq \in 0..(SeqMod - 1) :
       AckFor([transaction_id |-> seq % IdMod, sequence |-> seq]) \in Frames
  /\ \A others \in Channels :
       /\ others \subseteq Frames \cup {NoFrame}
       /\ \A frame \in others \ {NoFrame} : ~IsAckToNode(frame)

GatewayAcknowledges ==
  /\ \E uplink \in heard : air' = air \cup {AckFor(uplink)}
  /\ air' # air
  /\ UNCHANGED <<pc, stateVars, flagVars, txVars, stampAge, radioVars, heard, foreign>>

FrameArrives ==
  /\ \E frame \in air \cup foreign : Radio!ChipReceives(frame)
  /\ UNCHANGED <<pc, stateVars, flagVars, txVars, stampAge, linkVars>>

Environment ==
  Tick \/ TransmissionEnds \/ GatewayAcknowledges \/ FrameArrives

Next == Loop \/ Halted \/ Environment

\* The processor keeps executing the loop, the RTC ends every sleep it accepted
\* and the millisecond counter runs.  Nothing is assumed of the gateway, of the
\* air or of the transmitter.
Fairness == WF_vars(Loop) /\ WF_vars(Tick)

Spec == Init /\ [][Next]_vars /\ Fairness
--------------------------------------------------------------------------------
(* Correctness.                                                            *)

\* The receiverStarted flag never lies: while the loop counts on an armed
\* receiver, whatever calls, timeouts and sleeps came since, the chip receives.
ReceiverFlagHonest == receiverStarted => mode = Radio!RX

\* LORA_APP_Tasks never starts a pass in WAIT_TX_RESULT: its branch for that state
\* only issues timer ticks, which that state ignores, and would never leave it.
NoStuckTransmission ==
  pc = "tasks" /\ loraReady => context.state # State!WAIT_TX_RESULT

\* The transmitter is on only inside a transaction, and never while the processor
\* sleeps, waits for an ACK or has stopped.
TransmitsOnlyInTransaction ==
  mode = Radio!TX =>
    context.state = State!WAIT_TX_RESULT /\ pc \in {"txPoll", "txCheck"}

\* The loop is a legal caller of the state machine: what is proved of every legal
\* caller holds of the node.
UsesStateMachine == State!Init /\ [][State!Next]_stateVars

Cycle == INSTANCE NodeCycle WITH
  phase   <- IF ~loraReady /\ pc # "boot" THEN "stopped"
             ELSE CASE context.state = State!WAIT_INTERVAL  -> "asleep"
                    [] context.state = State!WAIT_TX_RESULT -> "sending"
                    [] context.state = State!WAIT_ACK       -> "waiting",
  cycle   <- context.response_sequence,
  heard   <- \E uplink \in heard : uplink.sequence = context.response_sequence,
  outcome <- CASE action.type = State!TRANSACTION_COMPLETE -> "acknowledged"
               [] action.type = State!ACK_TIMEOUT          -> "timeout"
               [] action.type = State!TX_FAILED            -> "failed"
               [] OTHER                                    -> "none"

\* One uplink a cycle, numbered without a gap; acknowledged only if the gateway
\* heard this cycle's uplink, whatever stale, repeated, foreign or damaged frames
\* arrive; a stopped node never sends.
RefinesNodeCycle == Cycle!Init /\ [][Cycle!Next]_(Cycle!vars)

\* Every transaction ends and the next one starts, unless the node has stopped for
\* a fault: endless foreign traffic, a silent gateway or a dead transmitter never
\* keep it awake for ever.
KeepsCycling == Cycle!Progress

AckInFifo ==
  /\ fifo # NoFrame /\ State!Decodes(fifo)
  /\ fifo.message.type = State!ACK
  /\ fifo.message.destination = context.node_address
  /\ State!MatchesPending(fifo.message)

\* Nothing but ACKs of the running transaction came in since it began.
ChannelIsQuiet ==
  foreign = {} /\ \A frame \in air : State!MatchesPending(frame.message)

\* On a quiet channel the ACK of the running transaction, once in the radio, is not
\* thrown away by arming the receiver again: it is fetched, or the wait ends first.
AckIsNotDiscarded ==
  [][ ChannelIsQuiet /\ AckInFifo
        /\ context.state = State!WAIT_ACK /\ Radio!RxDone \in irq =>
          \/ Radio!RxDone \in irq' /\ fifo' = fifo
          \/ rxBuffer' = fifo
          \/ context'.state # State!WAIT_ACK ]_vars
================================================================================
