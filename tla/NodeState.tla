------------------------------- MODULE NodeState -------------------------------
(***************************************************************************)
(* The sensor node's transaction state machine (app/node_state.c) driven   *)
(* by a caller that stamps every event with the active-time millisecond    *)
(* counter, a counter that wraps.                                          *)
(*                                                                         *)
(* context and action are the two structs NODE_STATE_HandleEvent reads and *)
(* writes.  now is the millisecond counter.  waited and sincePoll are      *)
(* history: the true time, which does not wrap, since the running ACK      *)
(* deadline began and since the last event's time stamp was taken.         *)
(***************************************************************************)
EXTENDS PacketContract

CONSTANTS
  TickMod,       \* the millisecond counter counts modulo this (2^32)
  IdMod,         \* transaction IDs count modulo this (2^8)
  SeqMod,        \* sequence numbers count modulo this (2^16)
  IntervalMs,    \* NODE_STATE_INTERVAL_MS
  AckTimeoutMs,  \* NODE_STATE_ACK_TIMEOUT_MS
  PollGapMs,     \* the longest time between two events of the caller's loop
  NodeAddress,   \* the address this node was built for
  Frames         \* the frames the radio may hand over

ASSUME CounterAssumption ==
  /\ TickMod \in Nat \ {0} /\ IdMod \in Nat \ {0} /\ SeqMod \in Nat \ {0}
  /\ \E k \in 1..SeqMod : SeqMod = k * IdMod

ASSUME TimingAssumption ==
  /\ IntervalMs \in Nat /\ AckTimeoutMs \in Nat \ {0} /\ PollGapMs \in Nat
  /\ AckTimeoutMs + PollGapMs <= TickMod

ASSUME AddressAssumption == NodeAddress \in NodeAddresses

VARIABLES context, action, now, waited, sincePoll
vars == <<context, action, now, waited, sincePoll>>

--------------------------------------------------------------------------------
\* NODE_STATE_State
WAIT_INTERVAL  == "WAIT_INTERVAL"
WAIT_TX_RESULT == "WAIT_TX_RESULT"
WAIT_ACK       == "WAIT_ACK"
States == {WAIT_INTERVAL, WAIT_TX_RESULT, WAIT_ACK}

\* NODE_STATE_EventType
FRAME_RECEIVED   == "FRAME_RECEIVED"
TX_SUCCEEDED     == "TX_SUCCEEDED"
TX_FAILED        == "TX_FAILED"
TIMER_TICK       == "TIMER_TICK"
INTERVAL_ELAPSED == "INTERVAL_ELAPSED"

\* NODE_STATE_ActionType; TX_FAILED is also an action type.
NONE                 == "NONE"
READ_SENSOR          == "READ_SENSOR"
TRANSACTION_COMPLETE == "TRANSACTION_COMPLETE"
ACK_TIMEOUT          == "ACK_TIMEOUT"
TerminalActions      == {TRANSACTION_COMPLETE, ACK_TIMEOUT, TX_FAILED}
ActionTypes          == {NONE, READ_SENSOR} \cup TerminalActions

\* NODE_STATE_IgnoreReason; NONE is also an ignore reason.
INVALID_PACKET    == "INVALID_PACKET"
WRONG_DESTINATION == "WRONG_DESTINATION"
UNEXPECTED_TYPE   == "UNEXPECTED_TYPE"
ACK_MISMATCH      == "ACK_MISMATCH"
UNEXPECTED_EVENT  == "UNEXPECTED_EVENT"
IgnoreReasons == {NONE, INVALID_PACKET, WRONG_DESTINATION, UNEXPECTED_TYPE,
                  ACK_MISMATCH, UNEXPECTED_EVENT}

Ticks == 0..(TickMod - 1)
Ids   == 0..(IdMod - 1)
Seqs  == 0..(SeqMod - 1)

Contexts ==
  [state : States, node_address : NodeAddresses,
   response_sequence : Seqs, transaction_id : Ids,
   pending_sequence : Seqs, pending_transaction_id : Ids,
   ack_started_tick_ms : Ticks, interval_started_tick_ms : Ticks]

Actions ==
  [type : ActionTypes, ignore_reason : IgnoreReasons,
   transaction_id : Ids, sequence : Seqs]

NoAction == [type |-> NONE, ignore_reason |-> NONE,
             transaction_id |-> 0, sequence |-> 0]

\* Faulty variant: a comparison that is not made in unsigned arithmetic.
ElapsedSaturating(tick, since) == IF tick < since THEN 0 ELSE tick - since

\* Unsigned subtraction: right across one wrap of the counter.
Elapsed(tick, since) == (tick - since) % TickMod

--------------------------------------------------------------------------------
(* The handlers: what one call of NODE_STATE_HandleEvent does.             *)

NoWork == context' = context /\ action' = NoAction

Ignore(reason) ==
  context' = context /\ action' = [NoAction EXCEPT !.ignore_reason = reason]

\* Faulty variants of the end of a transaction: the sequence outgrows its width,
\* a failed transmission keeps its ID, the pending pair survives.
CompleteWithoutWrap(actionType, tick) ==
  /\ context' = [context EXCEPT
        !.response_sequence = @ + 1, !.transaction_id = (@ + 1) % IdMod,
        !.state = WAIT_INTERVAL, !.interval_started_tick_ms = tick,
        !.pending_transaction_id = 0, !.pending_sequence = 0,
        !.ack_started_tick_ms = 0]
  /\ action' = [NoAction EXCEPT !.type = actionType]

CompleteKeepingId(actionType, tick) ==
  /\ context' = [context EXCEPT
        !.response_sequence = (@ + 1) % SeqMod,
        !.transaction_id = IF actionType = TX_FAILED THEN @ ELSE (@ + 1) % IdMod,
        !.state = WAIT_INTERVAL, !.interval_started_tick_ms = tick,
        !.pending_transaction_id = 0, !.pending_sequence = 0,
        !.ack_started_tick_ms = 0]
  /\ action' = [NoAction EXCEPT !.type = actionType]

CompleteKeepingPending(actionType, tick) ==
  /\ context' = [context EXCEPT
        !.response_sequence = (@ + 1) % SeqMod,
        !.transaction_id = (@ + 1) % IdMod,
        !.state = WAIT_INTERVAL, !.interval_started_tick_ms = tick]
  /\ action' = [NoAction EXCEPT !.type = actionType]

CompleteTransaction(actionType, tick) ==
  /\ context' = [context EXCEPT
        !.response_sequence = (@ + 1) % SeqMod,
        !.state = WAIT_INTERVAL,
        !.interval_started_tick_ms = tick,
        !.transaction_id = (@ + 1) % IdMod,
        !.pending_transaction_id = 0,
        !.pending_sequence = 0,
        !.ack_started_tick_ms = 0]
  /\ action' = [NoAction EXCEPT !.type = actionType]

StartTransaction ==
  /\ context' = [context EXCEPT
        !.pending_transaction_id = context.transaction_id,
        !.pending_sequence = context.response_sequence,
        !.state = WAIT_TX_RESULT]
  /\ action' = [NoAction EXCEPT !.type = READ_SENSOR,
                                !.transaction_id = context.transaction_id,
                                !.sequence = context.response_sequence]

HandleWaitInterval(event) ==
  /\ context.state = WAIT_INTERVAL
  /\ LET early == Elapsed(event.tick_ms, context.interval_started_tick_ms)
                    < IntervalMs
     IN \/ /\ event.type \notin {TIMER_TICK, INTERVAL_ELAPSED}
           /\ Ignore(UNEXPECTED_EVENT)
        \/ event.type = TIMER_TICK /\ early /\ NoWork
        \/ event.type = TIMER_TICK /\ ~early /\ StartTransaction
        \/ event.type = INTERVAL_ELAPSED /\ StartTransaction

HandleWaitTxResult(event) ==
  /\ context.state = WAIT_TX_RESULT
  /\ \/ /\ event.type = TX_SUCCEEDED
        /\ context' = [context EXCEPT !.state = WAIT_ACK,
                                      !.ack_started_tick_ms = event.tick_ms]
        /\ action' = NoAction
     \/ /\ event.type = TX_FAILED
        /\ CompleteTransaction(TX_FAILED, event.tick_ms)
     \/ /\ event.type \notin {TX_SUCCEEDED, TX_FAILED}
        /\ Ignore(UNEXPECTED_EVENT)

\* Faulty variant: an ACK observed at the deadline itself is taken.
AckIsLateAfter(tick) == Elapsed(tick, context.ack_started_tick_ms) > AckTimeoutMs

\* The deadline has passed for an event stamped with this tick.
AckIsLate(tick) == Elapsed(tick, context.ack_started_tick_ms) >= AckTimeoutMs

\* Faulty variant: the 8-bit ID alone identifies a transaction.
MatchesPendingId(packet) ==
  packet.transaction_id = context.pending_transaction_id

MatchesPending(packet) ==
  /\ packet.transaction_id = context.pending_transaction_id
  /\ packet.sequence = context.pending_sequence

\* A frame taken while WAIT_ACK, before the deadline.
HandleAckFrame(frame, tick) ==
  LET packet == frame.message
      addressed == Decodes(frame) /\ packet.destination = context.node_address
  IN \/ ~Decodes(frame) /\ Ignore(INVALID_PACKET)
     \/ /\ Decodes(frame) /\ packet.destination # context.node_address
        /\ Ignore(WRONG_DESTINATION)
     \/ addressed /\ packet.type # ACK /\ Ignore(UNEXPECTED_TYPE)
     \/ /\ addressed /\ packet.type = ACK /\ ~MatchesPending(packet)
        /\ Ignore(ACK_MISMATCH)
     \/ /\ addressed /\ packet.type = ACK /\ MatchesPending(packet)
        /\ CompleteTransaction(TRANSACTION_COMPLETE, tick)

\* The deadline is looked at first, whatever the event is.
HandleWaitAck(event) ==
  /\ context.state = WAIT_ACK
  /\ \/ AckIsLate(event.tick_ms) /\ CompleteTransaction(ACK_TIMEOUT, event.tick_ms)
     \/ /\ ~AckIsLate(event.tick_ms)
        /\ \/ event.type = TIMER_TICK /\ NoWork
           \/ /\ event.type \notin {TIMER_TICK, FRAME_RECEIVED}
              /\ Ignore(UNEXPECTED_EVENT)
           \/ /\ event.type = FRAME_RECEIVED
              /\ HandleAckFrame(event.frame, event.tick_ms)

HandleEvent(event) ==
  HandleWaitInterval(event) \/ HandleWaitTxResult(event) \/ HandleWaitAck(event)

--------------------------------------------------------------------------------
(* The caller and the clock.                                               *)

Event(type, frame, tick) == [type |-> type, frame |-> frame, tick_ms |-> tick]

Initialized(tick) ==
  [state |-> WAIT_INTERVAL, node_address |-> NodeAddress,
   response_sequence |-> 0, transaction_id |-> 0,
   pending_sequence |-> 0, pending_transaction_id |-> 0,
   ack_started_tick_ms |-> 0, interval_started_tick_ms |-> tick]

Init ==
  /\ now = 0 /\ waited = 0 /\ sincePoll = 0
  /\ context = Initialized(now)
  /\ action = NoAction

\* An event whose time stamp was taken lag milliseconds ago, not before the
\* stamp of the event handled last.
Handle(event, lag) ==
  /\ event.tick_ms = (now - lag) % TickMod
  /\ HandleEvent(event)
  /\ sincePoll' = lag
  /\ waited' = IF context.state = WAIT_TX_RESULT THEN lag ELSE waited
  /\ now' = now

HandleSome ==
  \E lag \in 0..sincePoll :
    \/ \E frame \in Frames :
         Handle(Event(FRAME_RECEIVED, frame, (now - lag) % TickMod), lag)
    \/ \E type \in {TX_SUCCEEDED, TX_FAILED, TIMER_TICK, INTERVAL_ELAPSED} :
         Handle(Event(type, NONE, (now - lag) % TickMod), lag)

\* After a terminal action the caller restarts the interval from the present.
RestartInterval ==
  /\ action.type \in TerminalActions
  /\ context' = [context EXCEPT !.interval_started_tick_ms = now]
  /\ sincePoll' = 0
  /\ UNCHANGED <<action, now, waited>>

\* A millisecond of active time.
Tick ==
  /\ sincePoll < PollGapMs
  /\ now' = (now + 1) % TickMod
  /\ sincePoll' = sincePoll + 1
  /\ waited' = IF context.state = WAIT_ACK THEN waited + 1 ELSE waited
  /\ UNCHANGED <<context, action>>

Next == HandleSome \/ RestartInterval \/ Tick

Spec == Init /\ [][Next]_vars

--------------------------------------------------------------------------------
(* Correctness.                                                            *)

\* The structs keep their field types and the clock its width.
TypeOK ==
  /\ context \in Contexts
  /\ action \in Actions
  /\ now \in Ticks
  /\ waited \in Nat
  /\ sincePoll \in 0..PollGapMs

\* The 8-bit ID and the 16-bit sequence advance in two separate statements of
\* NODE_STATE_CompleteTransaction and wrap at different cycles, yet the ID is
\* always the low part of the sequence: the pair a gateway sees repeats only
\* after SeqMod cycles, never after IdMod.
IdTracksSequence ==
  context.transaction_id = context.response_sequence % IdMod

\* While a transaction runs, what an ACK is compared with is what the READ_SENSOR
\* action told the caller to send; between transactions nothing is pending and
\* no deadline is left over from the previous one.
PendingIsCurrent ==
  IF context.state = WAIT_INTERVAL
  THEN /\ context.pending_transaction_id = 0 /\ context.pending_sequence = 0
       /\ context.ack_started_tick_ms = 0
  ELSE /\ context.pending_transaction_id = context.transaction_id
       /\ context.pending_sequence = context.response_sequence

\* No traffic, however heavy or wrong, and no counter wrap keeps the node
\* waiting for an ACK past the deadline by more than the gap between two polls.
WaitIsBounded ==
  context.state = WAIT_ACK => waited < AckTimeoutMs + PollGapMs

\* A wait ends by an accepted ACK exactly when the frame was observed before the
\* deadline in true time, and by a timeout exactly when it was not: the wrapping
\* counter causes neither a late acceptance nor an early timeout.
DeadlineIsExact ==
  [][(context.state = WAIT_ACK /\ context'.state # WAIT_ACK) =>
       /\ action'.type \in {TRANSACTION_COMPLETE, ACK_TIMEOUT}
       /\ action'.type = TRANSACTION_COMPLETE
            <=> waited - sincePoll' < AckTimeoutMs]_vars

--------------------------------------------------------------------------------
(* The inductive invariant behind these properties.                        *)

\* What the caller restarts the interval after is the end of a transaction.
TerminalMeansIdle ==
  action.type \in TerminalActions => context.state = WAIT_INTERVAL

\* While waiting, the counter difference is the true time waited, and the last
\* event, sincePoll ago, was still before the deadline.
CounterTellsWait ==
  context.state = WAIT_ACK =>
    /\ Elapsed(now, context.ack_started_tick_ms) = waited
    /\ sincePoll <= waited
    /\ waited - sincePoll < AckTimeoutMs

IndInv ==
  /\ TypeOK
  /\ IdTracksSequence
  /\ PendingIsCurrent
  /\ TerminalMeansIdle
  /\ CounterTellsWait

================================================================================
