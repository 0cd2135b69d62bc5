----------------------------- MODULE LoraAppProofs -----------------------------
(***************************************************************************)
(* Proofs about the whole node, for every value of its constants: the      *)
(* flags and modes of the loop, that the loop is a legal caller of the     *)
(* state machine, so that what NodeStateProofs proves of every legal       *)
(* caller holds of the node, and that the node keeps the promise of        *)
(* NodeCycle.                                                              *)
(***************************************************************************)
EXTENDS LoraApp, TLAPS

\* The same state machine, with its theorems.
Proved == INSTANCE NodeStateProofs

--------------------------------------------------------------------------------
(* The inductive invariant.                                                *)

AsleepSteps  == {"boot", "sleep", "wake", "terminal"}
SendingSteps == {"sample", "transmit", "txPoll", "txCheck", "sent", "unsent"}
WaitingSteps == {"startReceiver", "arm", "available", "idle", "read"}

\* Where the loop is tells the state of the transaction; "tasks", where a pass
\* begins, is never reached while a transmission is under way.
StateFitsStep ==
  /\ pc \in AsleepSteps \cup SendingSteps \cup WaitingSteps \cup {"tasks"}
  /\ pc \in AsleepSteps  => context.state = State!WAIT_INTERVAL
  /\ pc \in SendingSteps => context.state = State!WAIT_TX_RESULT
  /\ pc \in WaitingSteps => context.state = State!WAIT_ACK
  /\ pc = "tasks" => context.state # State!WAIT_TX_RESULT

\* The radio was never found usable, or a fault stopped the node in its sleep.
StoppedIsIdle ==
  /\ loraReady \in BOOLEAN
  /\ ~loraReady => pc \in {"boot", "tasks"} /\ context.state = State!WAIT_INTERVAL
  /\ pc = "boot" => ~loraReady

\* The result of the last event, and the identity the sensor is read for.
ActionFitsState ==
  /\ context.state = State!WAIT_INTERVAL => action.type # State!READ_SENSOR
  /\ context.state = State!WAIT_ACK      => action.type = State!NONE
  /\ context.state = State!WAIT_TX_RESULT =>
       /\ action.type = State!READ_SENSOR
       /\ action.transaction_id = context.transaction_id
       /\ action.sequence = context.response_sequence
  /\ pc = "terminal" => action.type \in State!TerminalActions
  /\ context.node_address = NodeAddress

\* The steps between the sleep and the reception: no reception is under way and
\* nothing that was received is left.
QuietSteps == (SendingSteps \cup {"wake", "startReceiver"})

ReceiverIsKnown ==
  /\ receiverStarted \in BOOLEAN
  /\ receiverStarted => mode = Radio!RX
  /\ pc \in QuietSteps \cup {"boot", "sleep"} => ~receiverStarted
  /\ pc \in {"available", "idle", "read"} => receiverStarted

RadioIsQuiet ==
  /\ mode = Radio!TX => pc \in {"txPoll", "txCheck"}
  /\ pc \in QuietSteps => mode # Radio!RX /\ fifo = NoFrame /\ rxBuffer = NoFrame

\* The time stamp of a frame is not older than that of the event before it.
StampIsRecent ==
  /\ stampAge \in Nat /\ stampAge <= sincePoll
  /\ pc # "read" => stampAge = 0

\* The uplink carries the running cycle's identity.
UplinkIsCurrent ==
  pc \in {"transmit", "txPoll", "txCheck"} =>
    /\ txFrame.transaction_id = context.transaction_id
    /\ txFrame.sequence = context.response_sequence

Uplink(seq) == [transaction_id |-> seq % IdMod, sequence |-> seq]

\* What the gateway heard were uplinks of this node, what it sent ACKs of them.
AcksAreOfUplinks ==
  /\ \A uplink \in heard : \E seq \in 0..(SeqMod - 1) : uplink = Uplink(seq)
  /\ \A frame \in air : \E uplink \in heard : frame = AckFor(uplink)
  /\ foreign \in Channels

\* What the radio holds came over the air.
FramesAreFromAir ==
  /\ fifo # NoFrame => fifo \in air \cup foreign
  /\ rxBuffer # NoFrame => rxBuffer \in air \cup foreign
  /\ pc = "read" => rxBuffer # NoFrame

\* The wait goes on with the receiver not armed only after a frame was ignored,
\* and that frame was no ACK of the running transaction.
RearmsAfterOthers ==
  context.state = State!WAIT_ACK /\ ~receiverStarted /\ pc # "startReceiver" =>
    ~ChannelIsQuiet

IndInv ==
  /\ State!IndInv
  /\ StateFitsStep
  /\ StoppedIsIdle
  /\ ActionFitsState
  /\ ReceiverIsKnown
  /\ RadioIsQuiet
  /\ StampIsRecent
  /\ UplinkIsCurrent
  /\ AcksAreOfUplinks
  /\ FramesAreFromAir
  /\ RearmsAfterOthers

--------------------------------------------------------------------------------
(* The state machine with its theorems is the state machine of the loop.   *)

LEMMA SameInvariant == State!IndInv <=> Proved!IndInv
  BY DEF State!IndInv, State!TypeOK, State!IdTracksSequence, State!PendingIsCurrent,
         State!TerminalMeansIdle, State!CounterTellsWait, State!Contexts,
         State!Actions, State!ActionTypes, State!IgnoreReasons,
         State!TerminalActions, State!States, State!Ticks, State!Ids, State!Seqs,
         State!NodeAddresses, State!Elapsed, State!WAIT_INTERVAL,
         State!WAIT_TX_RESULT, State!WAIT_ACK, State!NONE, State!READ_SENSOR,
         State!TRANSACTION_COMPLETE, State!ACK_TIMEOUT, State!TX_FAILED,
         State!INVALID_PACKET, State!WRONG_DESTINATION, State!UNEXPECTED_TYPE,
         State!ACK_MISMATCH, State!UNEXPECTED_EVENT,
         Proved!IndInv, Proved!TypeOK, Proved!IdTracksSequence,
         Proved!PendingIsCurrent, Proved!TerminalMeansIdle,
         Proved!CounterTellsWait, Proved!Contexts, Proved!Actions,
         Proved!ActionTypes, Proved!IgnoreReasons, Proved!TerminalActions,
         Proved!States, Proved!Ticks, Proved!Ids, Proved!Seqs,
         Proved!NodeAddresses, Proved!Elapsed, Proved!WAIT_INTERVAL,
         Proved!WAIT_TX_RESULT, Proved!WAIT_ACK, Proved!NONE, Proved!READ_SENSOR,
         Proved!TRANSACTION_COMPLETE, Proved!ACK_TIMEOUT, Proved!TX_FAILED,
         Proved!INVALID_PACKET, Proved!WRONG_DESTINATION, Proved!UNEXPECTED_TYPE,
         Proved!ACK_MISMATCH, Proved!UNEXPECTED_EVENT

LEMMA SameHandler ==
  ASSUME NEW event
  PROVE  State!HandleEvent(event) <=> Proved!HandleEvent(event)
  BY DEF State!HandleEvent, State!HandleWaitInterval, State!HandleWaitTxResult,
         State!HandleWaitAck, State!HandleAckFrame, State!MatchesPending,
         State!AckIsLate, State!StartTransaction, State!CompleteTransaction,
         State!Ignore, State!NoWork, State!NoAction, State!Elapsed,
         State!Decodes, State!IsMessageValid, State!WAIT_INTERVAL,
         State!WAIT_TX_RESULT, State!WAIT_ACK, State!NONE, State!READ_SENSOR,
         State!TRANSACTION_COMPLETE, State!ACK_TIMEOUT, State!TX_FAILED,
         State!INVALID_PACKET, State!WRONG_DESTINATION, State!UNEXPECTED_TYPE,
         State!ACK_MISMATCH, State!UNEXPECTED_EVENT, State!FRAME_RECEIVED,
         State!TX_SUCCEEDED, State!TIMER_TICK, State!INTERVAL_ELAPSED,
         State!POLL, State!DATA, State!ACK, State!ERROR, State!GatewayAddress,
         State!NodeAddresses, State!MaxPayload, State!DataPayloadLength,
         State!ErrorPayloadLength, State!ErrorCodes,
         Proved!HandleEvent, Proved!HandleWaitInterval,
         Proved!HandleWaitTxResult, Proved!HandleWaitAck, Proved!HandleAckFrame,
         Proved!MatchesPending, Proved!AckIsLate, Proved!StartTransaction,
         Proved!CompleteTransaction, Proved!Ignore, Proved!NoWork,
         Proved!NoAction, Proved!Elapsed, Proved!Decodes,
         Proved!IsMessageValid, Proved!WAIT_INTERVAL, Proved!WAIT_TX_RESULT,
         Proved!WAIT_ACK, Proved!NONE, Proved!READ_SENSOR,
         Proved!TRANSACTION_COMPLETE, Proved!ACK_TIMEOUT, Proved!TX_FAILED,
         Proved!INVALID_PACKET, Proved!WRONG_DESTINATION,
         Proved!UNEXPECTED_TYPE, Proved!ACK_MISMATCH, Proved!UNEXPECTED_EVENT,
         Proved!FRAME_RECEIVED, Proved!TX_SUCCEEDED, Proved!TIMER_TICK,
         Proved!INTERVAL_ELAPSED, Proved!POLL, Proved!DATA, Proved!ACK,
         Proved!ERROR, Proved!GatewayAddress, Proved!NodeAddresses,
         Proved!MaxPayload, Proved!DataPayloadLength,
         Proved!ErrorPayloadLength, Proved!ErrorCodes

LEMMA SameNext == State!Next <=> Proved!Next
<1>1. State!HandleSome <=> Proved!HandleSome
  <2>1. ASSUME NEW event, NEW lag
        PROVE  State!Handle(event, lag) <=> Proved!Handle(event, lag)
    BY SameHandler DEF State!Handle, Proved!Handle, State!WAIT_TX_RESULT,
                       Proved!WAIT_TX_RESULT
  <2> QED
    BY <2>1 DEF State!HandleSome, Proved!HandleSome, State!Event, Proved!Event,
                State!FRAME_RECEIVED, State!TX_SUCCEEDED, State!TX_FAILED,
                State!TIMER_TICK, State!INTERVAL_ELAPSED, State!NONE,
                Proved!FRAME_RECEIVED, Proved!TX_SUCCEEDED, Proved!TX_FAILED,
                Proved!TIMER_TICK, Proved!INTERVAL_ELAPSED, Proved!NONE
<1>2. State!RestartInterval <=> Proved!RestartInterval
  BY DEF State!RestartInterval, Proved!RestartInterval, State!TerminalActions,
         State!TRANSACTION_COMPLETE, State!ACK_TIMEOUT, State!TX_FAILED,
         Proved!TerminalActions, Proved!TRANSACTION_COMPLETE,
         Proved!ACK_TIMEOUT, Proved!TX_FAILED
<1>3. State!Tick <=> Proved!Tick
  BY DEF State!Tick, Proved!Tick, State!WAIT_ACK, Proved!WAIT_ACK
<1> QED BY <1>1, <1>2, <1>3 DEF State!Next, Proved!Next

\* The state machine's own proof, for the loop's instance of it.
LEMMA StateKept == State!IndInv /\ [State!Next]_stateVars => State!IndInv'
<1> SUFFICES ASSUME State!IndInv, [State!Next]_stateVars PROVE State!IndInv'
  OBVIOUS
<1>1. [Proved!Next]_(Proved!vars)
  BY SameNext DEF stateVars, clockVars, Proved!vars
<1>2. NodeAddress \in Proved!NodeAddresses
  BY AirAssumption DEF State!NodeAddresses, Proved!NodeAddresses
<1>3. Proved!IndInv /\ [Proved!Next]_(Proved!vars) => Proved!IndInv'
  BY ONLY <1>2, CounterAssumption, TimingAssumption, Proved!NextIndInv
<1>4. Proved!IndInv'
  BY <1>1, <1>3, SameInvariant
<1> QED
  BY <1>4, SameInvariant, PTL

--------------------------------------------------------------------------------
(* What the loop's events do, in the state each of them is sent in.        *)

LEMMA ContextFields ==
  State!IndInv => /\ context \in State!Contexts /\ action \in State!Actions
                  /\ now \in 0..(TickMod - 1) /\ waited \in Nat
                  /\ sincePoll \in Nat
                  /\ context.response_sequence \in 0..(SeqMod - 1)
                  /\ context.transaction_id = context.response_sequence % IdMod
  BY TimingAssumption
  DEF State!IndInv, State!TypeOK, State!IdTracksSequence, State!Contexts,
      State!Seqs, State!Ticks

\* The transaction is over, with this result, and the next sequence is current.
Ended(result) ==
  /\ context'.state = State!WAIT_INTERVAL /\ action'.type = result
  /\ context'.response_sequence = (context.response_sequence + 1) % SeqMod
  /\ context'.node_address = context.node_address

\* The wait goes on as if nothing had happened.
Waits == context' = context /\ action'.type = State!NONE

Identity(c) == <<c.node_address, c.response_sequence, c.transaction_id>>

LEMMA CompleteEnds ==
  ASSUME State!IndInv, NEW result, NEW tick, State!CompleteTransaction(result, tick)
  PROVE  Ended(result)
  BY ContextFields
  DEF State!CompleteTransaction, State!NoAction, State!Contexts, Ended

LEMMA IntervalElapsed ==
  ASSUME State!IndInv, context.state = State!WAIT_INTERVAL,
         Notify(State!INTERVAL_ELAPSED, State!NONE, 0)
  PROVE  /\ context'.state = State!WAIT_TX_RESULT
         /\ Identity(context') = Identity(context)
         /\ action'.type = State!READ_SENSOR
         /\ action'.transaction_id = context.transaction_id
         /\ action'.sequence = context.response_sequence
<1>1. State!StartTransaction
  BY DEF Notify, State!Handle, State!HandleEvent, State!HandleWaitInterval,
         State!HandleWaitTxResult, State!HandleWaitAck, State!Event,
         State!WAIT_INTERVAL, State!WAIT_TX_RESULT, State!WAIT_ACK,
         State!INTERVAL_ELAPSED, State!TIMER_TICK
<1> QED
  BY <1>1, ContextFields
  DEF State!StartTransaction, State!NoAction, State!Contexts, Identity

LEMMA TransmissionSucceeded ==
  ASSUME State!IndInv, context.state = State!WAIT_TX_RESULT,
         Notify(State!TX_SUCCEEDED, State!NONE, 0)
  PROVE  /\ context'.state = State!WAIT_ACK
         /\ Identity(context') = Identity(context)
         /\ action'.type = State!NONE
<1>1. PICK tick : /\ context' = [context EXCEPT !.state = State!WAIT_ACK,
                                        !.ack_started_tick_ms = tick]
                  /\ action' = State!NoAction
  BY DEF Notify, State!Handle, State!HandleEvent, State!HandleWaitInterval,
         State!HandleWaitTxResult, State!HandleWaitAck, State!Event,
         State!WAIT_INTERVAL, State!WAIT_TX_RESULT, State!WAIT_ACK,
         State!TX_SUCCEEDED, State!TX_FAILED
<1> QED
  BY <1>1, ContextFields DEF State!NoAction, State!Contexts, Identity

LEMMA TransmissionFailed ==
  ASSUME State!IndInv, context.state = State!WAIT_TX_RESULT,
         Notify(State!TX_FAILED, State!NONE, 0)
  PROVE  Ended(State!TX_FAILED)
<1>1. PICK tick : State!CompleteTransaction(State!TX_FAILED, tick)
  BY DEF Notify, State!Handle, State!HandleEvent, State!HandleWaitInterval,
         State!HandleWaitTxResult, State!HandleWaitAck, State!Event,
         State!WAIT_INTERVAL, State!WAIT_TX_RESULT, State!WAIT_ACK,
         State!TX_SUCCEEDED, State!TX_FAILED
<1> QED BY <1>1, CompleteEnds

LEMMA WaitTicked ==
  ASSUME State!IndInv, context.state = State!WAIT_ACK,
         Notify(State!TIMER_TICK, State!NONE, 0)
  PROVE  Waits \/ Ended(State!ACK_TIMEOUT)
<1>1. State!NoWork \/ \E tick : State!CompleteTransaction(State!ACK_TIMEOUT, tick)
  BY DEF Notify, State!Handle, State!HandleEvent, State!HandleWaitInterval,
         State!HandleWaitTxResult, State!HandleWaitAck, State!Event,
         State!WAIT_INTERVAL, State!WAIT_TX_RESULT, State!WAIT_ACK,
         State!TIMER_TICK, State!FRAME_RECEIVED
<1> QED BY <1>1, CompleteEnds DEF State!NoWork, State!NoAction, Waits

\* The frame ends the wait exactly if it is the ACK of the running transaction.
IsPendingAck(frame) ==
  /\ State!Decodes(frame) /\ frame.message.type = State!ACK
  /\ frame.message.destination = context.node_address
  /\ State!MatchesPending(frame.message)

LEMMA FrameTaken ==
  ASSUME State!IndInv, context.state = State!WAIT_ACK, NEW frame, NEW lag,
         Notify(State!FRAME_RECEIVED, frame, lag)
  PROVE  \/ Waits /\ ~IsPendingAck(frame)
         \/ Ended(State!ACK_TIMEOUT)
         \/ Ended(State!TRANSACTION_COMPLETE) /\ IsPendingAck(frame)
<1> DEFINE tick == (now - lag) % TickMod
<1>1. State!HandleWaitAck(State!Event(State!FRAME_RECEIVED, frame, tick))
  BY DEF Notify, State!Handle, State!HandleEvent, State!HandleWaitInterval,
         State!HandleWaitTxResult,
         State!WAIT_INTERVAL, State!WAIT_TX_RESULT, State!WAIT_ACK
<1>2. \/ State!CompleteTransaction(State!ACK_TIMEOUT, tick)
      \/ State!HandleAckFrame(frame, tick)
  BY <1>1 DEF State!HandleWaitAck, State!Event, State!TIMER_TICK,
              State!FRAME_RECEIVED
<1>3. CASE State!CompleteTransaction(State!ACK_TIMEOUT, tick)
  BY <1>3, CompleteEnds
<1>4. CASE State!HandleAckFrame(frame, tick)
  <2>1. \/ (\E reason : State!Ignore(reason)) /\ ~IsPendingAck(frame)
        \/ /\ State!CompleteTransaction(State!TRANSACTION_COMPLETE, tick)
           /\ IsPendingAck(frame)
    BY <1>4 DEF State!HandleAckFrame, IsPendingAck
  <2>2. (\E reason : State!Ignore(reason)) => Waits
    BY DEF State!Ignore, State!NoAction, Waits
  <2> QED BY <2>1, <2>2, CompleteEnds
<1> QED BY <1>2, <1>3, <1>4

--------------------------------------------------------------------------------
(* The loop calls the state machine as its contract demands.               *)

LEMMA AcksAreFrames ==
  AcksAreOfUplinks => air \subseteq Frames /\ foreign \subseteq Frames \cup {NoFrame}
  BY AirAssumption DEF AcksAreOfUplinks, Uplink

LEMMA EventIsLegal ==
  ASSUME State!IndInv,
         NEW type \in {State!TX_SUCCEEDED, State!TX_FAILED, State!TIMER_TICK,
                       State!INTERVAL_ELAPSED},
         Notify(type, State!NONE, 0)
  PROVE  State!Next
<1>1. 0 \in 0..sincePoll
  BY ContextFields
<1> QED BY <1>1 DEF Notify, State!HandleSome, State!Next

LEMMA FrameIsLegal ==
  ASSUME IndInv, ReadFrame PROVE State!Next
<1>1. rxBuffer \in Frames
  BY AcksAreFrames DEF IndInv, FramesAreFromAir, ReadFrame
<1>2. stampAge \in 0..sincePoll
  BY ContextFields DEF IndInv, StampIsRecent
<1> QED BY <1>1, <1>2 DEF ReadFrame, Notify, State!HandleSome, State!Next

LEMMA StepIsLegal == IndInv /\ [Next]_vars => [State!Next]_stateVars
<1> SUFFICES ASSUME IndInv, [Next]_vars PROVE [State!Next]_stateVars
  OBVIOUS
<1>1. State!IndInv
  BY DEF IndInv
<1>2. CASE Boot \/ SleepInterval \/ SleepReturns \/ SleepFails \/ Sample
  BY <1>2 DEF Boot, SleepInterval, SleepReturns, SleepFails, Sample
<1>3. CASE StartTransmit \/ StartTransmitFails \/ PollTxDone \/ CheckTxTimeout
  BY <1>3 DEF StartTransmit, StartTransmitFails, PollTxDone, CheckTxTimeout
<1>4. CASE StartReceiver \/ Arm \/ Available
  BY <1>4 DEF StartReceiver, Arm, Available
<1>5. CASE Wake
  BY <1>1, <1>5, EventIsLegal DEF Wake
<1>6. CASE NotifySent
  BY <1>1, <1>6, EventIsLegal DEF NotifySent
<1>7. CASE NotifyUnsent
  BY <1>1, <1>7, EventIsLegal DEF NotifyUnsent
<1>8. CASE CheckDeadline
  BY <1>1, <1>8, EventIsLegal DEF CheckDeadline
<1>9. CASE IdleTick
  BY <1>1, <1>9, EventIsLegal DEF IdleTick
<1>10. CASE ReadFrame
  BY <1>10, FrameIsLegal
<1>11. CASE FinishCycle
  BY <1>11 DEF FinishCycle, State!Next
<1>12. CASE Tick
  BY <1>12 DEF Tick, State!Next
<1>13. CASE TransmissionEnds \/ GatewayAcknowledges \/ FrameArrives
  BY <1>13 DEF TransmissionEnds, GatewayAcknowledges, FrameArrives
<1>14. CASE Halted \/ UNCHANGED vars
  BY <1>14 DEF Halted, vars
<1> QED
  BY <1>2, <1>3, <1>4, <1>5, <1>6, <1>7, <1>8, <1>9, <1>10, <1>11, <1>12, <1>13,
     <1>14 DEF Next, Loop, Environment

--------------------------------------------------------------------------------
(* The invariant holds initially and every step keeps it.                  *)

USE DEF State!WAIT_INTERVAL, State!WAIT_TX_RESULT, State!WAIT_ACK,
        State!NONE, State!READ_SENSOR, State!TRANSACTION_COMPLETE,
        State!ACK_TIMEOUT, State!TX_FAILED, State!TerminalActions,
        Radio!SLEEP, Radio!STANDBY, Radio!RX, Radio!TX,
        AsleepSteps, SendingSteps, WaitingSteps, QuietSteps,
        stateVars, clockVars, radioVars, flagVars, txVars, linkVars

LEMMA StateStaysTyped == IndInv /\ [Next]_vars => State!IndInv /\ State!IndInv'
  BY StepIsLegal, StateKept DEF IndInv

\* A channel that carries anything else goes on doing so while the wait lasts.
LEMMA BusyStays ==
  ASSUME context' = context, foreign' = foreign, air \subseteq air', ~ChannelIsQuiet
  PROVE  ~ChannelIsQuiet'
  BY DEF ChannelIsQuiet, State!MatchesPending

\* A response carries the identity it was built for.
LEMMA ResponseKeepsIdentity ==
  ASSUME NEW request
  PROVE  /\ Response!Build(request).message.transaction_id = request.transaction_id
         /\ Response!Build(request).message.sequence = request.sequence
  BY DEF Response!Build, Response!BuildError, Response!DataMessage,
         Response!InitializeMessage

\* On a quiet channel what the radio hands over is the ACK waited for.
LEMMA QuietChannelAcks ==
  ASSUME IndInv, ChannelIsQuiet, NEW frame \in air \cup foreign
  PROVE  IsPendingAck(frame)
<1>1. PICK uplink \in heard : frame = AckFor(uplink)
  BY DEF ChannelIsQuiet, IndInv, AcksAreOfUplinks
<1>2. State!MatchesPending(frame.message)
  BY DEF ChannelIsQuiet
<1>3. State!Decodes(frame)
  BY <1>1, AirAssumption
  DEF AckFor, State!Decodes, State!IsMessageValid, State!MaxPayload
<1> QED BY <1>1, <1>2, <1>3, AirAssumption
  DEF AckFor, IsPendingAck, IndInv, ActionFitsState

LEMMA BootKeeps == ASSUME IndInv, Boot PROVE IndInv'
<1>1. State!IndInv /\ State!IndInv'
  BY StateStaysTyped DEF Next, Loop, Environment
<1> USE DEF Boot
<1>2. StateFitsStep' /\ ActionFitsState'
  BY <1>1 DEF IndInv, ActionFitsState, StateFitsStep
<1>3. StampIsRecent' /\ UplinkIsCurrent'
  BY <1>1 DEF IndInv, StampIsRecent, StateFitsStep, UplinkIsCurrent
<1>4. StoppedIsIdle' /\ ReceiverIsKnown' /\ RadioIsQuiet'
  BY <1>1 DEF IndInv, RadioIsQuiet, ReceiverIsKnown, StateFitsStep, StoppedIsIdle
<1>5. AcksAreOfUplinks' /\ FramesAreFromAir'
  BY <1>1 DEF IndInv, AcksAreOfUplinks, FramesAreFromAir, StateFitsStep
<1>6. RearmsAfterOthers'
  BY <1>1, BusyStays DEF IndInv, RearmsAfterOthers, StateFitsStep
<1> QED BY <1>1, <1>2, <1>3, <1>4, <1>5, <1>6 DEF IndInv

LEMMA SleepIntervalKeeps == ASSUME IndInv, SleepInterval PROVE IndInv'
<1>1. State!IndInv /\ State!IndInv'
  BY StateStaysTyped DEF Next, Loop, Environment
<1> USE DEF SleepInterval
<1>2. StateFitsStep' /\ ActionFitsState'
  BY <1>1 DEF IndInv, ActionFitsState, StateFitsStep
<1>3. StampIsRecent' /\ UplinkIsCurrent'
  BY <1>1 DEF IndInv, StampIsRecent, StateFitsStep, UplinkIsCurrent
<1>4. StoppedIsIdle' /\ ReceiverIsKnown' /\ RadioIsQuiet'
  BY <1>1 DEF IndInv, RadioIsQuiet, ReceiverIsKnown, StateFitsStep, StoppedIsIdle
<1>5. AcksAreOfUplinks' /\ FramesAreFromAir'
  BY <1>1 DEF IndInv, AcksAreOfUplinks, FramesAreFromAir, StateFitsStep
<1>6. RearmsAfterOthers'
  BY <1>1, BusyStays DEF IndInv, RearmsAfterOthers, StateFitsStep
<1> QED BY <1>1, <1>2, <1>3, <1>4, <1>5, <1>6 DEF IndInv

LEMMA SleepReturnsKeeps == ASSUME IndInv, SleepReturns PROVE IndInv'
<1>1. State!IndInv /\ State!IndInv'
  BY StateStaysTyped DEF Next, Loop, Environment
<1> USE DEF SleepReturns, Radio!SleepRadio
<1>2. StateFitsStep' /\ ActionFitsState'
  BY <1>1 DEF IndInv, ActionFitsState, StateFitsStep
<1>3. StampIsRecent' /\ UplinkIsCurrent'
  BY <1>1 DEF IndInv, StampIsRecent, StateFitsStep, UplinkIsCurrent
<1>4. StoppedIsIdle' /\ ReceiverIsKnown' /\ RadioIsQuiet'
  BY <1>1 DEF IndInv, RadioIsQuiet, ReceiverIsKnown, StateFitsStep, StoppedIsIdle
<1>5. AcksAreOfUplinks' /\ FramesAreFromAir'
  BY <1>1 DEF IndInv, AcksAreOfUplinks, FramesAreFromAir, StateFitsStep
<1>6. RearmsAfterOthers'
  BY <1>1, BusyStays DEF IndInv, RearmsAfterOthers, StateFitsStep
<1> QED BY <1>1, <1>2, <1>3, <1>4, <1>5, <1>6 DEF IndInv

LEMMA SleepFailsKeeps == ASSUME IndInv, SleepFails PROVE IndInv'
<1>1. State!IndInv /\ State!IndInv'
  BY StateStaysTyped DEF Next, Loop, Environment
<1> USE DEF SleepFails, Radio!SleepRadio
<1>2. StateFitsStep' /\ ActionFitsState'
  BY <1>1 DEF IndInv, ActionFitsState, StateFitsStep
<1>3. StampIsRecent' /\ UplinkIsCurrent'
  BY <1>1 DEF IndInv, StampIsRecent, StateFitsStep, UplinkIsCurrent
<1>4. StoppedIsIdle' /\ ReceiverIsKnown' /\ RadioIsQuiet'
  BY <1>1 DEF IndInv, RadioIsQuiet, ReceiverIsKnown, StateFitsStep, StoppedIsIdle
<1>5. AcksAreOfUplinks' /\ FramesAreFromAir'
  BY <1>1 DEF IndInv, AcksAreOfUplinks, FramesAreFromAir, StateFitsStep
<1>6. RearmsAfterOthers'
  BY <1>1, BusyStays DEF IndInv, RearmsAfterOthers, StateFitsStep
<1> QED BY <1>1, <1>2, <1>3, <1>4, <1>5, <1>6 DEF IndInv

LEMMA WakeKeeps == ASSUME IndInv, Wake PROVE IndInv'
<1>1. State!IndInv /\ State!IndInv'
  BY StateStaysTyped DEF Next, Loop, Environment
<1> USE DEF Wake, AfterEvent, Identity
<1>2. /\ context'.state = State!WAIT_TX_RESULT
      /\ Identity(context') = Identity(context)
      /\ action'.type = State!READ_SENSOR
      /\ action'.transaction_id = context.transaction_id
      /\ action'.sequence = context.response_sequence
  BY <1>1, IntervalElapsed DEF IndInv, StateFitsStep
<1>3. sincePoll' = 0
  BY DEF Notify, State!Handle
<1>4. StateFitsStep' /\ ActionFitsState'
  BY <1>1, <1>2, <1>3 DEF IndInv, ActionFitsState, StateFitsStep
<1>5. StampIsRecent' /\ UplinkIsCurrent'
  BY <1>1, <1>2, <1>3 DEF IndInv, StampIsRecent, StateFitsStep, UplinkIsCurrent
<1>6. StoppedIsIdle' /\ ReceiverIsKnown' /\ RadioIsQuiet'
  BY <1>1, <1>2, <1>3
  DEF IndInv, RadioIsQuiet, ReceiverIsKnown, StateFitsStep, StoppedIsIdle
<1>7. AcksAreOfUplinks'
  BY <1>1 DEF IndInv, AcksAreOfUplinks, AckFor
<1>8. FramesAreFromAir'
  BY <1>1, <1>2 DEF IndInv, RadioIsQuiet, FramesAreFromAir
<1>9. RearmsAfterOthers'
  BY <1>1, <1>2, <1>3, BusyStays DEF IndInv, RearmsAfterOthers, StateFitsStep
<1> QED BY <1>1, <1>4, <1>5, <1>6, <1>7, <1>8, <1>9 DEF IndInv

LEMMA SampleKeeps == ASSUME IndInv, Sample PROVE IndInv'
<1>1. State!IndInv /\ State!IndInv'
  BY StateStaysTyped DEF Next, Loop, Environment
<1> USE DEF Sample
<1>2. StateFitsStep' /\ ActionFitsState'
  BY <1>1 DEF IndInv, ActionFitsState, StateFitsStep
<1>3. UplinkIsCurrent'
  <2>1. PICK sensor \in SensorResults :
          LET built == Response!Build(
                [node_address |-> NodeAddress,
                 transaction_id |-> action.transaction_id,
                 sequence |-> action.sequence, sensor |-> sensor])
          IN pc' = "transmit" => txFrame' = built.message
    OBVIOUS
  <2>2. pc' = "transmit" => /\ txFrame'.transaction_id = action.transaction_id
                           /\ txFrame'.sequence = action.sequence
    BY <2>1, ResponseKeepsIdentity
  <2> QED
    BY <2>2 DEF IndInv, ActionFitsState, StateFitsStep, UplinkIsCurrent
<1>4. StampIsRecent'
  BY <1>1 DEF IndInv, StampIsRecent, StateFitsStep
<1>5. StoppedIsIdle' /\ ReceiverIsKnown' /\ RadioIsQuiet'
  BY <1>1 DEF IndInv, RadioIsQuiet, ReceiverIsKnown, StateFitsStep, StoppedIsIdle
<1>6. AcksAreOfUplinks' /\ FramesAreFromAir'
  BY <1>1 DEF IndInv, AcksAreOfUplinks, FramesAreFromAir, StateFitsStep
<1>7. RearmsAfterOthers'
  BY <1>1, BusyStays DEF IndInv, RearmsAfterOthers, StateFitsStep
<1> QED BY <1>1, <1>2, <1>3, <1>4, <1>5, <1>6, <1>7 DEF IndInv

LEMMA StartTransmitKeeps == ASSUME IndInv, StartTransmit PROVE IndInv'
<1>1. State!IndInv /\ State!IndInv'
  BY StateStaysTyped DEF Next, Loop, Environment
<1> USE DEF StartTransmit, Radio!StartTx
<1>2. StateFitsStep' /\ ActionFitsState'
  BY <1>1 DEF IndInv, ActionFitsState, StateFitsStep
<1>3. StampIsRecent' /\ UplinkIsCurrent'
  BY <1>1 DEF IndInv, StampIsRecent, StateFitsStep, UplinkIsCurrent
<1>4. StoppedIsIdle' /\ ReceiverIsKnown' /\ RadioIsQuiet'
  BY <1>1 DEF IndInv, RadioIsQuiet, ReceiverIsKnown, StateFitsStep, StoppedIsIdle
<1>5. AcksAreOfUplinks' /\ FramesAreFromAir'
  BY <1>1 DEF IndInv, AcksAreOfUplinks, FramesAreFromAir, StateFitsStep
<1>6. RearmsAfterOthers'
  BY <1>1, BusyStays DEF IndInv, RearmsAfterOthers, StateFitsStep
<1> QED BY <1>1, <1>2, <1>3, <1>4, <1>5, <1>6 DEF IndInv

LEMMA StartTransmitFailsKeeps == ASSUME IndInv, StartTransmitFails PROVE IndInv'
<1>1. State!IndInv /\ State!IndInv'
  BY StateStaysTyped DEF Next, Loop, Environment
<1> USE DEF StartTransmitFails, Radio!ResetAndConfig
<1>2. StateFitsStep' /\ ActionFitsState'
  BY <1>1 DEF IndInv, ActionFitsState, StateFitsStep
<1>3. StampIsRecent' /\ UplinkIsCurrent'
  BY <1>1 DEF IndInv, StampIsRecent, StateFitsStep, UplinkIsCurrent
<1>4. StoppedIsIdle' /\ ReceiverIsKnown' /\ RadioIsQuiet'
  BY <1>1 DEF IndInv, RadioIsQuiet, ReceiverIsKnown, StateFitsStep, StoppedIsIdle
<1>5. AcksAreOfUplinks' /\ FramesAreFromAir'
  BY <1>1 DEF IndInv, AcksAreOfUplinks, FramesAreFromAir, StateFitsStep
<1>6. RearmsAfterOthers'
  BY <1>1, BusyStays DEF IndInv, RearmsAfterOthers, StateFitsStep
<1> QED BY <1>1, <1>2, <1>3, <1>4, <1>5, <1>6 DEF IndInv

LEMMA PollTxDoneKeeps == ASSUME IndInv, PollTxDone PROVE IndInv'
<1>1. State!IndInv /\ State!IndInv'
  BY StateStaysTyped DEF Next, Loop, Environment
<1> USE DEF PollTxDone, Radio!FinishTx
<1>2. StateFitsStep' /\ ActionFitsState'
  BY <1>1 DEF IndInv, ActionFitsState, StateFitsStep
<1>3. StampIsRecent' /\ UplinkIsCurrent'
  BY <1>1 DEF IndInv, StampIsRecent, StateFitsStep, UplinkIsCurrent
<1>4. StoppedIsIdle' /\ ReceiverIsKnown' /\ RadioIsQuiet'
  BY <1>1 DEF IndInv, RadioIsQuiet, ReceiverIsKnown, StateFitsStep, StoppedIsIdle
<1>5. AcksAreOfUplinks' /\ FramesAreFromAir'
  BY <1>1 DEF IndInv, AcksAreOfUplinks, FramesAreFromAir, StateFitsStep
<1>6. RearmsAfterOthers'
  BY <1>1, BusyStays DEF IndInv, RearmsAfterOthers, StateFitsStep
<1> QED BY <1>1, <1>2, <1>3, <1>4, <1>5, <1>6 DEF IndInv

LEMMA CheckTxTimeoutKeeps == ASSUME IndInv, CheckTxTimeout PROVE IndInv'
<1>1. State!IndInv /\ State!IndInv'
  BY StateStaysTyped DEF Next, Loop, Environment
<1> USE DEF CheckTxTimeout, Radio!ResetAndConfig
<1>2. StateFitsStep' /\ ActionFitsState'
  BY <1>1 DEF IndInv, ActionFitsState, StateFitsStep
<1>3. StampIsRecent' /\ UplinkIsCurrent'
  BY <1>1 DEF IndInv, StampIsRecent, StateFitsStep, UplinkIsCurrent
<1>4. StoppedIsIdle' /\ ReceiverIsKnown' /\ RadioIsQuiet'
  BY <1>1 DEF IndInv, RadioIsQuiet, ReceiverIsKnown, StateFitsStep, StoppedIsIdle
<1>5. AcksAreOfUplinks' /\ FramesAreFromAir'
  BY <1>1 DEF IndInv, AcksAreOfUplinks, FramesAreFromAir, StateFitsStep
<1>6. RearmsAfterOthers'
  BY <1>1, BusyStays DEF IndInv, RearmsAfterOthers, StateFitsStep
<1> QED BY <1>1, <1>2, <1>3, <1>4, <1>5, <1>6 DEF IndInv

LEMMA NotifySentKeeps == ASSUME IndInv, NotifySent PROVE IndInv'
<1>1. State!IndInv /\ State!IndInv'
  BY StateStaysTyped DEF Next, Loop, Environment
<1> USE DEF NotifySent, Identity
<1>2. /\ context'.state = State!WAIT_ACK
      /\ Identity(context') = Identity(context)
      /\ action'.type = State!NONE
  BY <1>1, TransmissionSucceeded DEF IndInv, StateFitsStep
<1>3. sincePoll' = 0
  BY DEF Notify, State!Handle
<1>4. StateFitsStep' /\ ActionFitsState'
  BY <1>1, <1>2, <1>3 DEF IndInv, ActionFitsState, StateFitsStep
<1>5. StampIsRecent' /\ UplinkIsCurrent'
  BY <1>1, <1>2, <1>3 DEF IndInv, StampIsRecent, StateFitsStep, UplinkIsCurrent
<1>6. StoppedIsIdle' /\ ReceiverIsKnown' /\ RadioIsQuiet'
  BY <1>1, <1>2, <1>3
  DEF IndInv, RadioIsQuiet, ReceiverIsKnown, StateFitsStep, StoppedIsIdle
<1>7. AcksAreOfUplinks' /\ FramesAreFromAir'
  BY <1>1, <1>2, <1>3 DEF IndInv, AcksAreOfUplinks, FramesAreFromAir, StateFitsStep
<1>8. RearmsAfterOthers'
  BY <1>1, <1>2, <1>3, BusyStays DEF IndInv, RearmsAfterOthers, StateFitsStep
<1> QED BY <1>1, <1>4, <1>5, <1>6, <1>7, <1>8 DEF IndInv

LEMMA NotifyUnsentKeeps == ASSUME IndInv, NotifyUnsent PROVE IndInv'
<1>1. State!IndInv /\ State!IndInv'
  BY StateStaysTyped DEF Next, Loop, Environment
<1> USE DEF NotifyUnsent, AfterEvent, Ended, Waits, Identity
<1>2. Ended(State!TX_FAILED)
  BY <1>1, TransmissionFailed DEF IndInv, StateFitsStep
<1>3. sincePoll' = 0
  BY DEF Notify, State!Handle
<1>4. StateFitsStep' /\ ActionFitsState'
  BY <1>1, <1>2, <1>3 DEF IndInv, ActionFitsState, StateFitsStep
<1>5. StampIsRecent' /\ UplinkIsCurrent'
  BY <1>1, <1>2, <1>3 DEF IndInv, StampIsRecent, StateFitsStep, UplinkIsCurrent
<1>6. StoppedIsIdle' /\ ReceiverIsKnown' /\ RadioIsQuiet'
  BY <1>1, <1>2, <1>3
  DEF IndInv, RadioIsQuiet, ReceiverIsKnown, StateFitsStep, StoppedIsIdle
<1>7. AcksAreOfUplinks' /\ FramesAreFromAir'
  BY <1>1, <1>2, <1>3 DEF IndInv, AcksAreOfUplinks, FramesAreFromAir, StateFitsStep
<1>8. RearmsAfterOthers'
  BY <1>1, <1>2, <1>3, BusyStays DEF IndInv, RearmsAfterOthers, StateFitsStep
<1> QED BY <1>1, <1>4, <1>5, <1>6, <1>7, <1>8 DEF IndInv

LEMMA StartReceiverKeeps == ASSUME IndInv, StartReceiver PROVE IndInv'
<1>1. State!IndInv /\ State!IndInv'
  BY StateStaysTyped DEF Next, Loop, Environment
<1> USE DEF StartReceiver, Radio!Receive
<1>2. StateFitsStep' /\ ActionFitsState'
  BY <1>1 DEF IndInv, ActionFitsState, StateFitsStep
<1>3. StampIsRecent' /\ UplinkIsCurrent'
  BY <1>1 DEF IndInv, StampIsRecent, StateFitsStep, UplinkIsCurrent
<1>4. StoppedIsIdle' /\ ReceiverIsKnown' /\ RadioIsQuiet'
  BY <1>1 DEF IndInv, RadioIsQuiet, ReceiverIsKnown, StateFitsStep, StoppedIsIdle
<1>5. AcksAreOfUplinks' /\ FramesAreFromAir'
  BY <1>1 DEF IndInv, AcksAreOfUplinks, FramesAreFromAir, StateFitsStep
<1>6. RearmsAfterOthers'
  BY <1>1, BusyStays DEF IndInv, RearmsAfterOthers, StateFitsStep
<1> QED BY <1>1, <1>2, <1>3, <1>4, <1>5, <1>6 DEF IndInv

LEMMA CheckDeadlineKeeps == ASSUME IndInv, CheckDeadline PROVE IndInv'
<1>1. State!IndInv /\ State!IndInv'
  BY StateStaysTyped DEF Next, Loop, Environment
<1> USE DEF CheckDeadline, Ended, Waits, Identity
<1>2. Waits \/ Ended(State!ACK_TIMEOUT)
  BY <1>1, WaitTicked
<1>3. sincePoll' = 0
  BY DEF Notify, State!Handle
<1>4. StateFitsStep' /\ ActionFitsState'
  BY <1>1, <1>2, <1>3 DEF IndInv, ActionFitsState, StateFitsStep
<1>5. StampIsRecent' /\ UplinkIsCurrent'
  BY <1>1, <1>2, <1>3 DEF IndInv, StampIsRecent, StateFitsStep, UplinkIsCurrent
<1>6. StoppedIsIdle' /\ ReceiverIsKnown' /\ RadioIsQuiet'
  BY <1>1, <1>2, <1>3
  DEF IndInv, RadioIsQuiet, ReceiverIsKnown, StateFitsStep, StoppedIsIdle
<1>7. AcksAreOfUplinks' /\ FramesAreFromAir'
  BY <1>1, <1>2, <1>3 DEF IndInv, AcksAreOfUplinks, FramesAreFromAir, StateFitsStep
<1>8. RearmsAfterOthers'
  BY <1>1, <1>2, <1>3, BusyStays DEF IndInv, RearmsAfterOthers, StateFitsStep
<1> QED BY <1>1, <1>4, <1>5, <1>6, <1>7, <1>8 DEF IndInv

LEMMA ArmKeeps == ASSUME IndInv, Arm PROVE IndInv'
<1>1. State!IndInv /\ State!IndInv'
  BY StateStaysTyped DEF Next, Loop, Environment
<1> USE DEF Arm, Radio!Receive
<1>2. StateFitsStep' /\ ActionFitsState'
  BY <1>1 DEF IndInv, ActionFitsState, StateFitsStep
<1>3. StampIsRecent' /\ UplinkIsCurrent'
  BY <1>1 DEF IndInv, StampIsRecent, StateFitsStep, UplinkIsCurrent
<1>4. StoppedIsIdle' /\ ReceiverIsKnown' /\ RadioIsQuiet'
  BY <1>1 DEF IndInv, RadioIsQuiet, ReceiverIsKnown, StateFitsStep, StoppedIsIdle
<1>5. AcksAreOfUplinks' /\ FramesAreFromAir'
  BY <1>1 DEF IndInv, AcksAreOfUplinks, FramesAreFromAir, StateFitsStep
<1>6. RearmsAfterOthers'
  BY <1>1, BusyStays DEF IndInv, RearmsAfterOthers, StateFitsStep
<1> QED BY <1>1, <1>2, <1>3, <1>4, <1>5, <1>6 DEF IndInv

LEMMA AvailableKeeps == ASSUME IndInv, Available PROVE IndInv'
<1>1. State!IndInv /\ State!IndInv'
  BY StateStaysTyped DEF Next, Loop, Environment
<1> USE DEF Available, Radio!Available, Radio!radioVars
<1>2. StateFitsStep' /\ ActionFitsState'
  BY <1>1 DEF IndInv, ActionFitsState, StateFitsStep
<1>3. StampIsRecent' /\ UplinkIsCurrent'
  BY <1>1 DEF IndInv, StampIsRecent, StateFitsStep, UplinkIsCurrent
<1>4. StoppedIsIdle' /\ ReceiverIsKnown' /\ RadioIsQuiet'
  BY <1>1 DEF IndInv, RadioIsQuiet, ReceiverIsKnown, StateFitsStep, StoppedIsIdle
<1>5. AcksAreOfUplinks' /\ FramesAreFromAir'
  BY <1>1 DEF IndInv, AcksAreOfUplinks, FramesAreFromAir, StateFitsStep
<1>6. RearmsAfterOthers'
  BY <1>1, BusyStays DEF IndInv, RearmsAfterOthers, StateFitsStep
<1> QED BY <1>1, <1>2, <1>3, <1>4, <1>5, <1>6 DEF IndInv

LEMMA IdleTickKeeps == ASSUME IndInv, IdleTick PROVE IndInv'
<1>1. State!IndInv /\ State!IndInv'
  BY StateStaysTyped DEF Next, Loop, Environment
<1> USE DEF IdleTick, AfterEvent, Ended, Waits, Identity
<1>2. Waits \/ Ended(State!ACK_TIMEOUT)
  BY <1>1, WaitTicked DEF IndInv, StateFitsStep
<1>3. sincePoll' = 0
  BY DEF Notify, State!Handle
<1>4. StateFitsStep' /\ ActionFitsState'
  BY <1>1, <1>2, <1>3 DEF IndInv, ActionFitsState, StateFitsStep
<1>5. StampIsRecent' /\ UplinkIsCurrent'
  BY <1>1, <1>2, <1>3 DEF IndInv, StampIsRecent, StateFitsStep, UplinkIsCurrent
<1>6. StoppedIsIdle' /\ ReceiverIsKnown' /\ RadioIsQuiet'
  BY <1>1, <1>2, <1>3
  DEF IndInv, RadioIsQuiet, ReceiverIsKnown, StateFitsStep, StoppedIsIdle
<1>7. AcksAreOfUplinks' /\ FramesAreFromAir'
  BY <1>1, <1>2, <1>3 DEF IndInv, AcksAreOfUplinks, FramesAreFromAir, StateFitsStep
<1>8. RearmsAfterOthers'
  BY <1>1, <1>2, <1>3, BusyStays DEF IndInv, RearmsAfterOthers, StateFitsStep
<1> QED BY <1>1, <1>4, <1>5, <1>6, <1>7, <1>8 DEF IndInv

LEMMA ReadFrameKeeps == ASSUME IndInv, ReadFrame PROVE IndInv'
<1>1. State!IndInv /\ State!IndInv'
  BY StateStaysTyped DEF Next, Loop, Environment
<1> USE DEF ReadFrame, Radio!Read, AfterEvent, Ended, Waits, Identity
<1>2. \/ Waits /\ ~IsPendingAck(rxBuffer)
      \/ Ended(State!ACK_TIMEOUT)
      \/ Ended(State!TRANSACTION_COMPLETE) /\ IsPendingAck(rxBuffer)
  BY <1>1, FrameTaken DEF IndInv, StateFitsStep
<1>3. StateFitsStep' /\ ActionFitsState'
  BY <1>1, <1>2 DEF IndInv, ActionFitsState, StateFitsStep
<1>4. StampIsRecent'
  BY <1>1 DEF IndInv, StampIsRecent, Notify, State!Handle
<1>5. UplinkIsCurrent'
  BY <1>1, <1>2 DEF IndInv, StateFitsStep, UplinkIsCurrent
<1>6. StoppedIsIdle' /\ ReceiverIsKnown' /\ RadioIsQuiet'
  BY <1>1, <1>2
  DEF IndInv, RadioIsQuiet, ReceiverIsKnown, StateFitsStep, StoppedIsIdle
<1>7. AcksAreOfUplinks' /\ FramesAreFromAir'
  BY <1>1, <1>2 DEF IndInv, AcksAreOfUplinks, FramesAreFromAir, StateFitsStep
<1>8. RearmsAfterOthers'
  <2>1. rxBuffer \in air \cup foreign
    BY DEF IndInv, FramesAreFromAir
  <2>2. CASE ~IsPendingAck(rxBuffer) /\ Waits
    BY <2>1, <2>2, QuietChannelAcks, BusyStays DEF RearmsAfterOthers
  <2> QED BY <1>2, <2>2 DEF RearmsAfterOthers
<1> QED BY <1>1, <1>3, <1>4, <1>5, <1>6, <1>7, <1>8 DEF IndInv

LEMMA FinishCycleKeeps == ASSUME IndInv, FinishCycle PROVE IndInv'
<1>1. State!IndInv /\ State!IndInv'
  BY StateStaysTyped DEF Next, Loop, Environment
<1> USE DEF FinishCycle, State!RestartInterval, Identity
<1>2. /\ context'.state = context.state
      /\ Identity(context') = Identity(context)
  BY <1>1 DEF State!Contexts, Identity
<1>3. StateFitsStep' /\ ActionFitsState'
  BY <1>1, <1>2 DEF IndInv, ActionFitsState, StateFitsStep
<1>4. StampIsRecent' /\ UplinkIsCurrent'
  BY <1>1, <1>2 DEF IndInv, StampIsRecent, StateFitsStep, UplinkIsCurrent
<1>5. StoppedIsIdle' /\ ReceiverIsKnown' /\ RadioIsQuiet'
  BY <1>1, <1>2
  DEF IndInv, RadioIsQuiet, ReceiverIsKnown, StateFitsStep, StoppedIsIdle
<1>6. AcksAreOfUplinks' /\ FramesAreFromAir'
  BY <1>1, <1>2 DEF IndInv, AcksAreOfUplinks, FramesAreFromAir, StateFitsStep
<1>7. RearmsAfterOthers'
  BY <1>1, <1>2, BusyStays DEF IndInv, RearmsAfterOthers, StateFitsStep
<1> QED BY <1>1, <1>3, <1>4, <1>5, <1>6, <1>7 DEF IndInv

LEMMA TickKeeps == ASSUME IndInv, Tick PROVE IndInv'
<1>1. State!IndInv /\ State!IndInv'
  BY StateStaysTyped DEF Next, Loop, Environment
<1> USE DEF Tick, State!Tick
<1>2. StateFitsStep' /\ ActionFitsState'
  BY <1>1 DEF IndInv, ActionFitsState, StateFitsStep
<1>3. StampIsRecent' /\ UplinkIsCurrent'
  BY <1>1, ContextFields DEF IndInv, StampIsRecent, StateFitsStep, UplinkIsCurrent
<1>4. StoppedIsIdle' /\ ReceiverIsKnown' /\ RadioIsQuiet'
  BY <1>1 DEF IndInv, RadioIsQuiet, ReceiverIsKnown, StateFitsStep, StoppedIsIdle
<1>5. AcksAreOfUplinks' /\ FramesAreFromAir'
  BY <1>1 DEF IndInv, AcksAreOfUplinks, FramesAreFromAir, StateFitsStep
<1>6. RearmsAfterOthers'
  BY <1>1, BusyStays DEF IndInv, RearmsAfterOthers, StateFitsStep
<1> QED BY <1>1, <1>2, <1>3, <1>4, <1>5, <1>6 DEF IndInv

LEMMA TransmissionEndsKeeps == ASSUME IndInv, TransmissionEnds PROVE IndInv'
<1>1. State!IndInv /\ State!IndInv'
  BY StateStaysTyped DEF Next, Loop, Environment
<1> USE DEF TransmissionEnds, Radio!ChipTxDone
<1>2. StateFitsStep' /\ ActionFitsState'
  BY <1>1 DEF IndInv, ActionFitsState, StateFitsStep
<1>3. StampIsRecent' /\ UplinkIsCurrent'
  BY <1>1 DEF IndInv, StampIsRecent, StateFitsStep, UplinkIsCurrent
<1>4. StoppedIsIdle' /\ ReceiverIsKnown' /\ RadioIsQuiet'
  BY <1>1 DEF IndInv, RadioIsQuiet, ReceiverIsKnown, StateFitsStep, StoppedIsIdle
<1>5. AcksAreOfUplinks'
  <2>1. [transaction_id |-> txFrame.transaction_id, sequence |-> txFrame.sequence]
          = Uplink(context.response_sequence)
    BY <1>1, ContextFields DEF IndInv, RadioIsQuiet, UplinkIsCurrent, Uplink
  <2> QED BY <1>1, <2>1, ContextFields DEF IndInv, AcksAreOfUplinks
<1>6. FramesAreFromAir'
  BY <1>1 DEF IndInv, FramesAreFromAir, StateFitsStep
<1>7. RearmsAfterOthers'
  BY <1>1, BusyStays DEF IndInv, RearmsAfterOthers, StateFitsStep
<1> QED BY <1>1, <1>2, <1>3, <1>4, <1>5, <1>6, <1>7 DEF IndInv

LEMMA GatewayAcknowledgesKeeps == ASSUME IndInv, GatewayAcknowledges PROVE IndInv'
<1>1. State!IndInv /\ State!IndInv'
  BY StateStaysTyped DEF Next, Loop, Environment
<1> USE DEF GatewayAcknowledges
<1>2. StateFitsStep' /\ ActionFitsState'
  BY <1>1 DEF IndInv, ActionFitsState, StateFitsStep
<1>3. StampIsRecent' /\ UplinkIsCurrent'
  BY <1>1 DEF IndInv, StampIsRecent, StateFitsStep, UplinkIsCurrent
<1>4. StoppedIsIdle' /\ ReceiverIsKnown' /\ RadioIsQuiet'
  BY <1>1 DEF IndInv, RadioIsQuiet, ReceiverIsKnown, StateFitsStep, StoppedIsIdle
<1>5. AcksAreOfUplinks' /\ FramesAreFromAir'
  BY <1>1 DEF IndInv, AcksAreOfUplinks, FramesAreFromAir, StateFitsStep
<1>6. RearmsAfterOthers'
  BY <1>1, BusyStays DEF IndInv, RearmsAfterOthers, StateFitsStep
<1> QED BY <1>1, <1>2, <1>3, <1>4, <1>5, <1>6 DEF IndInv

LEMMA FrameArrivesKeeps == ASSUME IndInv, FrameArrives PROVE IndInv'
<1>1. State!IndInv /\ State!IndInv'
  BY StateStaysTyped DEF Next, Loop, Environment
<1> USE DEF FrameArrives, Radio!ChipReceives
<1>2. StateFitsStep' /\ ActionFitsState'
  BY <1>1 DEF IndInv, ActionFitsState, StateFitsStep
<1>3. StampIsRecent' /\ UplinkIsCurrent'
  BY <1>1 DEF IndInv, StampIsRecent, StateFitsStep, UplinkIsCurrent
<1>4. StoppedIsIdle' /\ ReceiverIsKnown' /\ RadioIsQuiet'
  BY <1>1 DEF IndInv, RadioIsQuiet, ReceiverIsKnown, StateFitsStep, StoppedIsIdle
<1>5. AcksAreOfUplinks' /\ FramesAreFromAir'
  BY <1>1 DEF IndInv, AcksAreOfUplinks, FramesAreFromAir, StateFitsStep
<1>6. RearmsAfterOthers'
  BY <1>1, BusyStays DEF IndInv, RearmsAfterOthers, StateFitsStep
<1> QED BY <1>1, <1>2, <1>3, <1>4, <1>5, <1>6 DEF IndInv

\* Start-up establishes the invariant.
LEMMA InitInv == Init => IndInv
<1> SUFFICES ASSUME Init PROVE IndInv
  OBVIOUS
<1>1. State!IndInv
  <2>1. NodeAddress \in Proved!NodeAddresses
    BY AirAssumption DEF State!NodeAddresses, Proved!NodeAddresses
  <2>2. Proved!Init => Proved!IndInv
    BY ONLY <2>1, CounterAssumption, TimingAssumption, Proved!InitIndInv
  <2>3. Proved!Init
    BY DEF Init, State!Init, Proved!Init, State!Initialized, Proved!Initialized,
           State!NoAction, Proved!NoAction, Proved!WAIT_INTERVAL, Proved!NONE
  <2> QED BY <2>2, <2>3, SameInvariant
<1>2. StateFitsStep /\ StoppedIsIdle /\ ActionFitsState
  BY DEF Init, State!Init, State!Initialized, State!NoAction, StateFitsStep,
         StoppedIsIdle, ActionFitsState
<1>3. ReceiverIsKnown /\ RadioIsQuiet
  BY DEF Init, Radio!Initialize, ReceiverIsKnown, RadioIsQuiet
<1>4. StampIsRecent /\ UplinkIsCurrent
  BY DEF Init, State!Init, StampIsRecent, UplinkIsCurrent
<1>5. AcksAreOfUplinks /\ FramesAreFromAir
  BY DEF Init, Radio!Initialize, AcksAreOfUplinks, FramesAreFromAir
<1>6. RearmsAfterOthers
  BY DEF Init, State!Init, State!Initialized, RearmsAfterOthers
<1> QED BY <1>1, <1>2, <1>3, <1>4, <1>5, <1>6 DEF IndInv

LEMMA NextInv == IndInv /\ [Next]_vars => IndInv'
<1> SUFFICES ASSUME IndInv, [Next]_vars PROVE IndInv'
  OBVIOUS
<1>1. ASSUME Loop PROVE IndInv'
  BY <1>1, BootKeeps, SleepIntervalKeeps, SleepReturnsKeeps, SleepFailsKeeps,
     WakeKeeps, SampleKeeps, StartTransmitKeeps, StartTransmitFailsKeeps,
     PollTxDoneKeeps, CheckTxTimeoutKeeps, NotifySentKeeps, NotifyUnsentKeeps,
     StartReceiverKeeps, CheckDeadlineKeeps, ArmKeeps, AvailableKeeps,
     IdleTickKeeps, ReadFrameKeeps, FinishCycleKeeps DEF Loop
<1>2. ASSUME Environment PROVE IndInv'
  BY <1>2, TickKeeps, TransmissionEndsKeeps, GatewayAcknowledgesKeeps,
     FrameArrivesKeeps DEF Environment
<1>3. ASSUME UNCHANGED vars PROVE IndInv'
  <2>1. State!IndInv'
    BY StepIsLegal, StateKept DEF IndInv
  <2> USE <1>3 DEF vars
  <2>2. /\ StateFitsStep' /\ StoppedIsIdle' /\ ActionFitsState'
        /\ ReceiverIsKnown' /\ RadioIsQuiet' /\ StampIsRecent' /\ UplinkIsCurrent'
        /\ AcksAreOfUplinks' /\ FramesAreFromAir'
    BY DEF IndInv, StateFitsStep, StoppedIsIdle, ActionFitsState,
           ReceiverIsKnown, RadioIsQuiet, StampIsRecent, UplinkIsCurrent,
           AcksAreOfUplinks, FramesAreFromAir
  <2>3. RearmsAfterOthers'
    BY BusyStays DEF IndInv, RearmsAfterOthers
  <2> QED BY <2>1, <2>2, <2>3 DEF IndInv
<1> QED BY <1>1, <1>2, <1>3 DEF Next, Halted

\* The inductive invariant: the loop's steps, flags and event results, the radio's
\* mode and what the air and the gateway hold fit one another in every state.
THEOREM NodeInvariance == Spec => []IndInv
  BY InitInv, NextInv, PTL DEF Spec

--------------------------------------------------------------------------------
(* The loop and the radio.                                                 *)

\* ReceiverFlagHonest holds: the flag the loop relies on instead of asking the
\* radio is never wrong, whatever ends a wait, a transmission or a sleep.
THEOREM FlagIsHonest == Spec => []ReceiverFlagHonest
<1>1. IndInv => ReceiverFlagHonest
  BY DEF IndInv, ReceiverIsKnown, ReceiverFlagHonest
<1> QED BY <1>1, NodeInvariance, PTL

\* NoStuckTransmission holds: every way out of the transmission tells the state
\* machine how it ended.
THEOREM TransmissionNeverSticks == Spec => []NoStuckTransmission
<1>1. IndInv => NoStuckTransmission
  BY DEF IndInv, StateFitsStep, NoStuckTransmission
<1> QED BY <1>1, NodeInvariance, PTL

\* TransmitsOnlyInTransaction holds: the transmitter never stays on behind the back
\* of LORA_APP_Tasks.
THEOREM TransmitterIsOwned == Spec => []TransmitsOnlyInTransaction
<1>1. IndInv => TransmitsOnlyInTransaction
  BY DEF IndInv, StateFitsStep, RadioIsQuiet, TransmitsOnlyInTransaction
<1> QED BY <1>1, NodeInvariance, PTL

--------------------------------------------------------------------------------
(* The loop and the state machine.                                         *)

\* UsesStateMachine holds: main.c and app/lora_app.c send NODE_STATE_HandleEvent
\* time stamps in order and restart the interval only after a terminal action.
THEOREM LoopIsLegalCaller == Spec => UsesStateMachine
<1>1. Init => State!Init
  BY DEF Init
<1> QED BY <1>1, StepIsLegal, NodeInvariance, PTL DEF Spec, UsesStateMachine

\* What NodeStateProofs proves of every legal caller holds of the node: it waits
\* for an ACK no longer than the timeout and one gap between two polls.
THEOREM NodeWaitIsBounded == Spec => []State!WaitIsBounded
<1>1. State!IndInv => State!WaitIsBounded
  BY ContextFields, TimingAssumption
  DEF State!IndInv, State!TypeOK, State!CounterTellsWait, State!WaitIsBounded
<1> QED BY <1>1, NodeInvariance, PTL DEF IndInv

--------------------------------------------------------------------------------
(* The ACK in the radio.                                                   *)

LEMMA AckKept ==
  IndInv /\ [Next]_vars =>
    [ ChannelIsQuiet /\ AckInFifo
        /\ context.state = State!WAIT_ACK /\ Radio!RxDone \in irq =>
          \/ Radio!RxDone \in irq' /\ fifo' = fifo
          \/ rxBuffer' = fifo
          \/ context'.state # State!WAIT_ACK ]_vars
<1> SUFFICES ASSUME IndInv, Next, ChannelIsQuiet, AckInFifo,
                    context.state = State!WAIT_ACK, Radio!RxDone \in irq
             PROVE  \/ Radio!RxDone \in irq' /\ fifo' = fifo
                    \/ rxBuffer' = fifo
                    \/ context'.state # State!WAIT_ACK
  OBVIOUS
<1>1. pc \in WaitingSteps \cup {"tasks"} /\ loraReady
  BY DEF IndInv, StateFitsStep, StoppedIsIdle
<1>2. fifo # NoFrame /\ pc # "startReceiver" /\ receiverStarted
  BY DEF AckInFifo, IndInv, RadioIsQuiet, RearmsAfterOthers
<1>3. CASE Arm \/ Available
  BY <1>2, <1>3 DEF Arm, Available, Radio!Available, Radio!radioVars
<1>4. CASE CheckDeadline \/ IdleTick
  BY <1>4 DEF CheckDeadline, IdleTick
<1>5. CASE ReadFrame
  BY <1>5 DEF ReadFrame, Radio!Read
<1>6. CASE Tick \/ GatewayAcknowledges
  BY <1>6 DEF Tick, GatewayAcknowledges
<1>7. CASE TransmissionEnds
  BY <1>7, <1>1 DEF TransmissionEnds, Radio!ChipTxDone, IndInv, RadioIsQuiet
<1>8. CASE FrameArrives
  \* Two ACKs of one transaction are the same frame.
  <2>1. PICK frame \in air \cup foreign : Radio!ChipReceives(frame)
    BY <1>8 DEF FrameArrives
  <2>2. /\ frame \in air /\ fifo \in air
        /\ State!MatchesPending(frame.message) /\ State!MatchesPending(fifo.message)
    BY <2>1, <1>2 DEF IndInv, FramesAreFromAir, ChannelIsQuiet
  <2>3. PICK one \in heard, other \in heard :
          frame = AckFor(one) /\ fifo = AckFor(other)
    BY <2>2 DEF IndInv, AcksAreOfUplinks
  <2>4. /\ one.sequence = other.sequence
        /\ one.transaction_id = other.transaction_id
    BY <2>2, <2>3 DEF AckFor, State!MatchesPending
  <2>5. frame = fifo
    BY <2>3, <2>4 DEF AckFor
  <2> QED BY <2>1, <2>5 DEF Radio!ChipReceives
<1> QED
  BY <1>1, <1>2, <1>3, <1>4, <1>5, <1>6, <1>7, <1>8
  DEF Next, Loop, Environment, Halted, vars, Boot, SleepInterval, SleepReturns,
      SleepFails, Wake, Sample, StartTransmit, StartTransmitFails, PollTxDone,
      CheckTxTimeout, NotifySent, NotifyUnsent, StartReceiver, FinishCycle

\* AckIsNotDiscarded holds: on a quiet channel SX1278_receive is never called over
\* an ACK that the radio holds.
THEOREM AckSurvivesRearming == Spec => AckIsNotDiscarded
  BY AckKept, NodeInvariance, PTL DEF Spec, AckIsNotDiscarded

--------------------------------------------------------------------------------
(* The promise of NodeCycle.                                               *)

\* How many cycles before the current one the sequence was used.
Age(current, seq) == IF current >= seq THEN current - seq ELSE current - seq + SeqMod

\* Nothing the gateway remembers has the sequence of the coming cycle.
NothingHeardAhead ==
  \A uplink \in heard :
    LET age == Age(context.response_sequence, uplink.sequence)
    IN IF context.state = State!WAIT_INTERVAL THEN age \in 1..(AckLife + 1)
                                              ELSE age \in 0..AckLife

HeardNow == \E uplink \in heard : uplink.sequence = context.response_sequence

\* The sequence k cycles back, without the modulus.
LEMMA SequenceBack ==
  ASSUME NEW s \in 0..(SeqMod - 1), NEW k \in 0..(SeqMod - 1)
  PROVE  /\ (s - k) % SeqMod \in 0..(SeqMod - 1)
         /\ Age(s, (s - k) % SeqMod) = k
<1>1. (s - k) % SeqMod = IF s >= k THEN s - k ELSE s - k + SeqMod
  BY CounterAssumption
<1> QED BY <1>1, CounterAssumption DEF Age

\* A cycle later everything is one cycle older, until the round is complete.
LEMMA AgeGrows ==
  ASSUME NEW s \in 0..(SeqMod - 1), NEW seq \in 0..(SeqMod - 1),
         Age(s, seq) + 1 < SeqMod
  PROVE  Age((s + 1) % SeqMod, seq) = Age(s, seq) + 1
<1>1. (s + 1) % SeqMod = IF s = SeqMod - 1 THEN 0 ELSE s + 1
  BY CounterAssumption
<1> QED BY <1>1, CounterAssumption DEF Age

LEMMA AgeZero ==
  ASSUME NEW s \in 0..(SeqMod - 1), NEW seq \in 0..(SeqMod - 1)
  PROVE  Age(s, seq) = 0 <=> s = seq
  BY CounterAssumption DEF Age

LEMMA HeardSequences ==
  ASSUME IndInv, NEW uplink \in heard
  PROVE  uplink.sequence \in 0..(SeqMod - 1)
  BY DEF IndInv, AcksAreOfUplinks, Uplink

\* The kinds of step that the promise tells apart.
Rests ==
  /\ context'.state = context.state /\ action'.type = action.type
  /\ context'.response_sequence = context.response_sequence
  /\ heard' = heard

Stops ==
  /\ Rests /\ context.state = State!WAIT_INTERVAL
  /\ ~loraReady' /\ pc' # "boot" /\ (loraReady \/ pc = "boot")

Wakes ==
  /\ context.state = State!WAIT_INTERVAL /\ context'.state = State!WAIT_TX_RESULT
  /\ context'.response_sequence = context.response_sequence
  /\ heard' = { uplink \in heard : uplink.sequence \in LiveSequences }
  /\ action'.type = State!READ_SENSOR

Sends ==
  /\ context.state = State!WAIT_TX_RESULT /\ context'.state = State!WAIT_ACK
  /\ context'.response_sequence = context.response_sequence
  /\ action.type = State!READ_SENSOR /\ action'.type = State!NONE
  /\ heard' = heard

Ends(state, result) ==
  context.state = state /\ Ended(result) /\ heard' = heard

Hears ==
  /\ context.state = State!WAIT_TX_RESULT /\ context' = context
  /\ action' = action
  /\ heard' = heard \cup {Uplink(context.response_sequence)}

\* The node counts as running before and after the step.
Runs == (loraReady \/ pc = "boot") /\ (loraReady' \/ pc' = "boot")

\* The node counts as stopped before and after the step, or never did.
KeepsRunning ==
  (loraReady \/ pc = "boot") <=> (loraReady' \/ pc' = "boot")

\* An ACK that ends the wait answers an uplink of the running cycle.
LEMMA AcceptedWasHeard ==
  ASSUME IndInv, context.state = State!WAIT_ACK, rxBuffer # NoFrame,
         IsPendingAck(rxBuffer)
  PROVE  HeardNow
<1>1. rxBuffer \in air
  BY AirAssumption DEF IndInv, FramesAreFromAir, AcksAreOfUplinks, IsPendingAck,
                       IsAckToNode, ActionFitsState
<1>2. PICK uplink \in heard : rxBuffer = AckFor(uplink)
  BY <1>1 DEF IndInv, AcksAreOfUplinks
<1>3. uplink.sequence = context.pending_sequence
  BY <1>2 DEF AckFor, IsPendingAck, State!MatchesPending
<1>4. context.pending_sequence = context.response_sequence
  BY DEF IndInv, State!IndInv, State!PendingIsCurrent
<1> QED BY <1>3, <1>4 DEF HeardNow

LEMMA StepKinds ==
  ASSUME IndInv, [Next]_vars
  PROVE  \/ Rests /\ KeepsRunning
         \/ Stops
         \/ Runs /\ \/ Wakes \/ Sends \/ Hears
                    \/ Ends(State!WAIT_TX_RESULT, State!TX_FAILED)
                    \/ Ends(State!WAIT_ACK, State!ACK_TIMEOUT)
                    \/ Ends(State!WAIT_ACK, State!TRANSACTION_COMPLETE) /\ HeardNow
<1>1. State!IndInv /\ StateFitsStep /\ StoppedIsIdle /\ ActionFitsState
  BY DEF IndInv
<1>2. CASE \/ SleepInterval \/ SleepReturns \/ Sample \/ StartTransmit
           \/ StartTransmitFails \/ PollTxDone \/ CheckTxTimeout
           \/ StartReceiver \/ Arm \/ Available
  BY <1>1, <1>2
  DEF SleepInterval, SleepReturns, Sample, StartTransmit, StartTransmitFails,
      PollTxDone, CheckTxTimeout, StartReceiver, Arm, Available,
      Rests, KeepsRunning, StoppedIsIdle
<1>3. CASE Boot \/ SleepFails
  BY <1>1, <1>3 DEF Boot, SleepFails, Rests, KeepsRunning, Stops, StateFitsStep,
                    StoppedIsIdle
<1>4. CASE Wake
  <2>1. /\ context.state = State!WAIT_INTERVAL
        /\ Notify(State!INTERVAL_ELAPSED, State!NONE, 0)
    BY <1>1, <1>4 DEF Wake, StateFitsStep
  <2>2. Wakes
    BY <1>1, <1>4, <2>1, IntervalElapsed DEF Wake, Wakes, Identity
  <2> QED BY <1>1, <1>4, <2>2 DEF Wake, Runs, StoppedIsIdle
<1>5. CASE NotifySent
  <2>1. /\ context.state = State!WAIT_TX_RESULT
        /\ Notify(State!TX_SUCCEEDED, State!NONE, 0)
    BY <1>1, <1>5 DEF NotifySent, StateFitsStep
  <2>2. Sends
    BY <1>1, <1>5, <2>1, TransmissionSucceeded
    DEF NotifySent, Sends, Identity, ActionFitsState
  <2> QED BY <1>1, <1>5, <2>2 DEF NotifySent, Runs, StoppedIsIdle
<1>6. CASE NotifyUnsent
  <2>1. /\ context.state = State!WAIT_TX_RESULT
        /\ Notify(State!TX_FAILED, State!NONE, 0)
    BY <1>1, <1>6 DEF NotifyUnsent, StateFitsStep
  <2>2. Ends(State!WAIT_TX_RESULT, State!TX_FAILED)
    BY <1>1, <1>6, <2>1, TransmissionFailed DEF NotifyUnsent, Ends
  <2> QED BY <1>1, <1>6, <2>2 DEF NotifyUnsent, Runs, StoppedIsIdle
<1>7. CASE CheckDeadline \/ IdleTick
  <2>1. /\ context.state = State!WAIT_ACK /\ heard' = heard
        /\ Notify(State!TIMER_TICK, State!NONE, 0)
        /\ loraReady /\ loraReady'
    BY <1>1, <1>7 DEF CheckDeadline, IdleTick, StateFitsStep, StoppedIsIdle
  <2>2. Rests \/ Ends(State!WAIT_ACK, State!ACK_TIMEOUT)
    BY <1>1, <2>1, WaitTicked DEF Waits, Rests, Ends, ActionFitsState
  <2> QED BY <2>1, <2>2 DEF Runs, KeepsRunning
<1>8. CASE ReadFrame
  <2>1. /\ context.state = State!WAIT_ACK /\ heard' = heard
        /\ rxBuffer # NoFrame
        /\ Notify(State!FRAME_RECEIVED, rxBuffer, stampAge)
        /\ loraReady /\ loraReady'
    BY <1>1, <1>8 DEF ReadFrame, StateFitsStep, StoppedIsIdle, IndInv,
                      FramesAreFromAir
  <2>2. \/ Rests \/ Ends(State!WAIT_ACK, State!ACK_TIMEOUT)
        \/ Ends(State!WAIT_ACK, State!TRANSACTION_COMPLETE) /\ HeardNow
    BY <1>1, <2>1, FrameTaken, AcceptedWasHeard
    DEF Waits, Rests, Ends, ActionFitsState
  <2> QED BY <2>1, <2>2 DEF Runs, KeepsRunning
<1>9. CASE FinishCycle
  BY <1>1, <1>9, ContextFields
  DEF FinishCycle, State!RestartInterval, State!Contexts, Rests, KeepsRunning,
      StoppedIsIdle
<1>10. CASE Tick \/ GatewayAcknowledges \/ FrameArrives
  BY <1>10 DEF Tick, State!Tick, GatewayAcknowledges, FrameArrives, Rests,
               KeepsRunning
<1>11. CASE TransmissionEnds
  <2>1. /\ pc \in {"txPoll", "txCheck"} /\ loraReady
        /\ context.state = State!WAIT_TX_RESULT
    BY <1>11 DEF TransmissionEnds, Radio!ChipTxDone, IndInv, RadioIsQuiet,
                 StateFitsStep, StoppedIsIdle
  <2>2. [transaction_id |-> txFrame.transaction_id, sequence |-> txFrame.sequence]
          = Uplink(context.response_sequence)
    BY <1>1, <2>1, ContextFields DEF IndInv, UplinkIsCurrent, Uplink
  <2> QED
    BY <1>11, <2>1, <2>2 DEF TransmissionEnds, Rests, KeepsRunning, Hears, Runs
<1>12. CASE Halted \/ UNCHANGED vars
  BY <1>12 DEF Halted, vars, Rests, KeepsRunning
<1> QED
  BY <1>2, <1>3, <1>4, <1>5, <1>6, <1>7, <1>8, <1>9, <1>10, <1>11, <1>12
  DEF Next, Loop, Environment

LEMMA AheadKept ==
  ASSUME AckLife \in Nat, AckLife + 1 < SeqMod,
         IndInv, NothingHeardAhead, [Next]_vars
  PROVE  NothingHeardAhead'
<1> DEFINE current == context.response_sequence
<1>1. /\ current \in 0..(SeqMod - 1) /\ SeqMod \in Nat \ {0}
      /\ \A uplink \in heard : uplink.sequence \in 0..(SeqMod - 1)
  BY ContextFields, HeardSequences, CounterAssumption DEF IndInv
<1>2. CASE Rests
  BY <1>2 DEF Rests, NothingHeardAhead
<1>3. CASE Wakes
  <2>1. ASSUME NEW uplink \in heard' PROVE Age(current, uplink.sequence) \in 0..AckLife
    <3>1. PICK k \in 1..AckLife : uplink.sequence = (current - k) % SeqMod
      BY <1>3, <2>1 DEF Wakes, LiveSequences
    <3>2. k \in 0..(SeqMod - 1)
      BY <1>1
    <3>3. Age(current, uplink.sequence) = k
      BY <1>1, <3>1, <3>2, SequenceBack
    <3> QED BY <3>3
  <2> QED BY <1>3, <2>1 DEF Wakes, NothingHeardAhead
<1>4. CASE Sends
  BY <1>4 DEF Sends, NothingHeardAhead
<1>5. CASE Hears
  <2>1. Age(current, Uplink(current).sequence) \in 0..AckLife
    BY <1>1 DEF Age, Uplink
  <2> QED BY <1>5, <2>1 DEF Hears, NothingHeardAhead
<1>6. ASSUME NEW state, NEW result, Ends(state, result),
             state \in {State!WAIT_TX_RESULT, State!WAIT_ACK}
      PROVE  NothingHeardAhead'
  <2>1. ASSUME NEW uplink \in heard
        PROVE  Age((current + 1) % SeqMod, uplink.sequence) \in 1..(AckLife + 1)
    <3>1. Age(current, uplink.sequence) \in 0..AckLife
      BY <1>6 DEF Ends, NothingHeardAhead
    <3>2. Age((current + 1) % SeqMod, uplink.sequence)
            = Age(current, uplink.sequence) + 1
      BY <1>1, <3>1, AgeGrows
    <3> QED BY <3>1, <3>2
  <2> QED BY <1>6, <2>1 DEF Ends, Ended, NothingHeardAhead
<1> QED
  BY StepKinds, <1>2, <1>3, <1>4, <1>5, <1>6 DEF Stops

\* Asleep, the node's coming uplink has not been heard.
LEMMA NothingHeardYet ==
  IndInv /\ NothingHeardAhead /\ context.state = State!WAIT_INTERVAL => ~HeardNow
  BY ContextFields, HeardSequences, AgeZero
  DEF IndInv, NothingHeardAhead, HeardNow

LEMMA CycleStep ==
  ASSUME AckLife \in Nat, AckLife + 1 < SeqMod,
         IndInv, NothingHeardAhead, [Next]_vars
  PROVE  [Cycle!Next]_(Cycle!vars)
<1>1. context'.state = State!WAIT_INTERVAL => ~HeardNow'
  <2>1. NothingHeardAhead' /\ IndInv'
    BY AheadKept, NextInv
  <2>2. (context.state = State!WAIT_INTERVAL => ~HeardNow)'
    BY <2>1, NothingHeardYet, PTL
  <2> QED BY <2>2
<1> USE DEF HeardNow
<1>2. CASE Rests /\ KeepsRunning
  <2>1. HeardNow' <=> HeardNow
    BY <1>2 DEF Rests
  <2>2. (~loraReady /\ pc # "boot") <=> (~loraReady' /\ pc' # "boot")
    BY <1>2 DEF KeepsRunning
  <2>3. context'.state = context.state /\ action'.type = action.type
        /\ context'.response_sequence = context.response_sequence
    BY <1>2 DEF Rests
  <2> DEFINE phase == IF ~loraReady /\ pc # "boot" THEN "stopped"
                      ELSE CASE context.state = State!WAIT_INTERVAL  -> "asleep"
                             [] context.state = State!WAIT_TX_RESULT -> "sending"
                             [] context.state = State!WAIT_ACK       -> "waiting"
             cycle == context.response_sequence
             outcome == CASE action.type = State!TRANSACTION_COMPLETE -> "acknowledged"
                          [] action.type = State!ACK_TIMEOUT -> "timeout"
                          [] action.type = State!TX_FAILED   -> "failed"
                          [] OTHER                           -> "none"
  <2>4. phase' = phase
    <3>1. context.state \in {State!WAIT_INTERVAL, State!WAIT_TX_RESULT,
                             State!WAIT_ACK}
      BY ContextFields DEF IndInv, State!Contexts, State!States
    <3>2. CASE ~loraReady /\ pc # "boot"
      BY ONLY <2>2, <3>2
    <3>3. CASE ~(~loraReady /\ pc # "boot")
      BY ONLY <2>2, <2>3, <3>1, <3>3
    <3> QED BY <3>2, <3>3
  <2>5. cycle' = cycle /\ outcome' = outcome
    BY ONLY <2>3
  <2>6. HeardNow' = HeardNow
    BY ONLY <2>1
  <2>7. UNCHANGED <<phase, cycle, HeardNow, outcome>>
    <3> HIDE DEF phase, cycle, outcome, HeardNow
    <3> QED BY ONLY <2>4, <2>5, <2>6
  <2> QED BY <2>7 DEF Cycle!vars
<1>3. CASE Stops
  <2>1. Cycle!Stop
    BY <1>3 DEF Stops, Rests, Cycle!Stop
  <2> QED BY <2>1 DEF Cycle!Next
<1>4. CASE Wakes /\ Runs
  <2>1. ~HeardNow /\ ~HeardNow'
    BY <1>4, NothingHeardYet DEF Wakes
  <2>2. Cycle!Wake
    BY <1>4, <2>1 DEF Wakes, Runs, Cycle!Wake
  <2> QED BY <2>2 DEF Cycle!Next
<1>5. CASE Sends /\ Runs
  <2>1. Cycle!Sent
    BY <1>5 DEF Sends, Runs, Cycle!Sent
  <2> QED BY <2>1 DEF Cycle!Next
<1>6. CASE Hears /\ Runs
  <2>1. HeardNow'
    <3>1. Uplink(context.response_sequence) \in heard'
      BY <1>6 DEF Hears
    <3>2. Uplink(context.response_sequence).sequence = context'.response_sequence
      BY <1>6 DEF Hears, Uplink
    <3> QED BY <3>1, <3>2
  <2>2. CASE HeardNow
    BY <1>6, <2>1, <2>2 DEF Hears, Runs, Cycle!vars
  <2>3. CASE ~HeardNow
    <3>1. Cycle!GatewayHears
      BY <1>6, <2>1, <2>3 DEF Hears, Runs, Cycle!GatewayHears
    <3> QED BY <3>1 DEF Cycle!Next
  <2> QED BY <2>2, <2>3
<1>7. CASE Ends(State!WAIT_TX_RESULT, State!TX_FAILED) /\ Runs
  <2>1. ~HeardNow'
    BY <1>1, <1>7 DEF Ends, Ended
  <2>2. Cycle!NotSent
    BY <1>7, <2>1 DEF Ends, Ended, Runs, Cycle!NotSent, Cycle!Finish
  <2> QED BY <2>2 DEF Cycle!Next
<1>8. CASE Ends(State!WAIT_ACK, State!ACK_TIMEOUT) /\ Runs
  <2>1. ~HeardNow'
    BY <1>1, <1>8 DEF Ends, Ended
  <2>2. Cycle!TimedOut
    BY <1>8, <2>1 DEF Ends, Ended, Runs, Cycle!TimedOut, Cycle!Finish
  <2> QED BY <2>2 DEF Cycle!Next
<1>9. CASE Ends(State!WAIT_ACK, State!TRANSACTION_COMPLETE) /\ HeardNow /\ Runs
  <2>1. ~HeardNow'
    BY <1>1, <1>9 DEF Ends, Ended
  <2>2. Cycle!Acknowledged
    BY <1>9, <2>1 DEF Ends, Ended, Runs, Cycle!Acknowledged, Cycle!Finish
  <2> QED BY <2>2 DEF Cycle!Next
<1> QED
  BY StepKinds, <1>2, <1>3, <1>4, <1>5, <1>6, <1>7, <1>8, <1>9

\* RefinesNodeCycle holds if the sequence outlives the gateway's ACKs: one uplink a
\* cycle, numbered without a gap, and acknowledged only if the gateway heard it.
THEOREM NodeKeepsItsPromise ==
  ASSUME AckLife \in Nat, AckLife + 1 < SeqMod
  PROVE  Spec => RefinesNodeCycle
<1>1. Init => Cycle!Init
  BY DEF Init, State!Init, State!Initialized, State!NoAction, Cycle!Init
<1>2. Init => NothingHeardAhead
  BY DEF Init, NothingHeardAhead
<1>3. IndInv /\ NothingHeardAhead /\ [Next]_vars => NothingHeardAhead'
  BY AheadKept
<1>4. IndInv /\ NothingHeardAhead /\ [Next]_vars => [Cycle!Next]_(Cycle!vars)
  BY CycleStep
<1> QED
  BY <1>1, <1>2, <1>3, <1>4, NodeInvariance, PTL DEF Spec, RefinesNodeCycle

================================================================================
