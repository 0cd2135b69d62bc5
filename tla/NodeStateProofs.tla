---------------------------- MODULE NodeStateProofs ----------------------------
(***************************************************************************)
(* Proofs about NodeState for every value of its constants: counters of    *)
(* any width, any timing and any set of frames.                            *)
(***************************************************************************)
EXTENDS NodeState, TLAPS

\* Elapsed, restricted to the counter's range, without the modulus.
LEMMA ElapsedInRange ==
  ASSUME NEW a \in Ticks, NEW b \in Ticks
  PROVE  Elapsed(a, b) = IF a >= b THEN a - b ELSE a - b + TickMod
  BY CounterAssumption DEF Elapsed, Ticks

\* The counter's successor.
LEMMA TickSuccessor ==
  ASSUME NEW a \in Ticks
  PROVE  (a + 1) % TickMod = IF a = TickMod - 1 THEN 0 ELSE a + 1
  BY CounterAssumption DEF Ticks

\* A quotient and a remainder in range determine the remainder.
LEMMA RemainderIs ==
  ASSUME NEW m \in Nat \ {0}, NEW q \in Int, NEW r \in 0..(m - 1)
  PROVE  (q * m + r) % m = r
  OBVIOUS

LEMMA QuotientAndRemainder ==
  ASSUME NEW m \in Nat \ {0}, NEW a \in Int
  PROVE  \E q \in Int : a = q * m + (a % m) /\ a % m \in 0..(m - 1)
<1>1. a = (a \div m) * m + (a % m) /\ a % m \in 0..(m - 1) /\ a \div m \in Int
  OBVIOUS
<1> QED BY <1>1

LEMMA RemainderOfSuccessor ==
  ASSUME NEW m \in Nat \ {0}, NEW a \in Int
  PROVE  (a + 1) % m = IF a % m = m - 1 THEN 0 ELSE (a % m) + 1
<1>1. PICK q \in Int : a = q * m + (a % m) /\ a % m \in 0..(m - 1)
  BY QuotientAndRemainder
<1>2. CASE a % m = m - 1
  <2>1. a + 1 = (q + 1) * m + 0
    BY <1>1, <1>2
  <2> QED BY <2>1, <1>2, RemainderIs
<1>3. CASE a % m # m - 1
  <2> DEFINE r == (a % m) + 1
  <2>1. a + 1 = q * m + r /\ r \in 0..(m - 1)
    BY <1>1, <1>3
  <2> HIDE DEF r
  <2>2. (a + 1) % m = r
    BY <2>1, RemainderIs
  <2> QED BY <2>2, <1>3 DEF r
<1> QED BY <1>2, <1>3

\* Because IDs wrap a whole number of times while sequences wrap once, the ID of
\* the next sequence is the next ID, at the sequence's own wrap as well.
LEMMA IdOfNextSequence ==
  ASSUME NEW s \in Seqs
  PROVE  ((s + 1) % SeqMod) % IdMod = ((s % IdMod) + 1) % IdMod
<1>1. PICK k \in 1..SeqMod : SeqMod = k * IdMod
  BY CounterAssumption
<1>2. s \in Int /\ SeqMod \in Nat \ {0} /\ IdMod \in Nat \ {0}
  BY CounterAssumption DEF Seqs
<1>3. s % IdMod \in 0..(IdMod - 1)
  BY <1>2
<1>4. (s + 1) % IdMod = ((s % IdMod) + 1) % IdMod
  <2>1. CASE s % IdMod = IdMod - 1
    <3>1. (s + 1) % IdMod = 0
      BY <1>2, <2>1, RemainderOfSuccessor
    <3>2. (s % IdMod) + 1 = IdMod /\ IdMod % IdMod = 0
      BY <1>2, <2>1
    <3> QED BY <3>1, <3>2
  <2>2. CASE s % IdMod # IdMod - 1
    <3>1. (s % IdMod) + 1 \in 0..(IdMod - 1)
      BY <1>2, <1>3, <2>2
    <3>2. ((s % IdMod) + 1) % IdMod = (s % IdMod) + 1
      BY <1>2, <3>1
    <3> QED BY <1>2, <2>2, <3>2, RemainderOfSuccessor
  <2> QED BY <2>1, <2>2
<1>5. CASE s = SeqMod - 1
  <2>1. (s + 1) % SeqMod = 0
    BY <1>2, <1>5
  <2>2. s + 1 = k * IdMod + 0
    BY <1>1, <1>2, <1>5
  <2>3. (s + 1) % IdMod = 0
    BY <1>1, <1>2, <2>2, RemainderIs
  <2>4. 0 % IdMod = 0
    BY <1>2
  <2> QED BY <1>4, <2>1, <2>3, <2>4
<1>6. CASE s # SeqMod - 1
  <2>1. (s + 1) % SeqMod = s + 1
    BY <1>2, <1>6 DEF Seqs
  <2> QED BY <1>4, <2>1
<1> QED BY <1>5, <1>6

--------------------------------------------------------------------------------
(* Unsigned time arithmetic.                                               *)

\* A time stamp taken n milliseconds earlier shows n milliseconds less.
LEMMA ElapsedEarlier ==
  ASSUME NEW a \in Ticks, NEW b \in Ticks, NEW n \in Nat, n <= Elapsed(a, b)
  PROVE  /\ (a - n) % TickMod \in Ticks
         /\ Elapsed((a - n) % TickMod, b) = Elapsed(a, b) - n
<1>1. Elapsed(a, b) = IF a >= b THEN a - b ELSE a - b + TickMod
  BY ElapsedInRange
<1>2. (a - n) % TickMod = IF a >= n THEN a - n ELSE a - n + TickMod
  BY <1>1, CounterAssumption DEF Ticks
<1>3. (a - n) % TickMod \in Ticks
  BY CounterAssumption DEF Ticks
<1>4. Elapsed((a - n) % TickMod, b) =
        IF ((a - n) % TickMod) >= b THEN ((a - n) % TickMod) - b
                                  ELSE ((a - n) % TickMod) - b + TickMod
  BY <1>3, ElapsedInRange
<1> QED BY <1>1, <1>2, <1>3, <1>4, CounterAssumption DEF Ticks

\* The present, seen from a time stamp taken n milliseconds ago.
LEMMA ElapsedSinceStamp ==
  ASSUME NEW a \in Ticks, NEW n \in Ticks
  PROVE  /\ (a - n) % TickMod \in Ticks
         /\ Elapsed(a, (a - n) % TickMod) = n
<1>1. (a - n) % TickMod = IF a >= n THEN a - n ELSE a - n + TickMod
  BY CounterAssumption DEF Ticks
<1>2. (a - n) % TickMod \in Ticks
  BY CounterAssumption DEF Ticks
<1> QED BY <1>1, <1>2, ElapsedInRange, CounterAssumption DEF Ticks

\* One millisecond later, as long as less than a whole wrap has passed.
LEMMA ElapsedLater ==
  ASSUME NEW a \in Ticks, NEW b \in Ticks, Elapsed(a, b) + 1 < TickMod
  PROVE  /\ (a + 1) % TickMod \in Ticks
         /\ Elapsed((a + 1) % TickMod, b) = Elapsed(a, b) + 1
<1>1. (a + 1) % TickMod \in Ticks
  BY CounterAssumption DEF Ticks
<1>2. Elapsed(a, b) = IF a >= b THEN a - b ELSE a - b + TickMod
  BY ElapsedInRange
<1>3. (a + 1) % TickMod = IF a = TickMod - 1 THEN 0 ELSE a + 1
  BY TickSuccessor
<1>4. Elapsed((a + 1) % TickMod, b) =
        IF ((a + 1) % TickMod) >= b THEN ((a + 1) % TickMod) - b
                                  ELSE ((a + 1) % TickMod) - b + TickMod
  BY <1>1, ElapsedInRange
<1> QED BY <1>1, <1>2, <1>3, <1>4, CounterAssumption DEF Ticks

--------------------------------------------------------------------------------
(* The handlers.                                                           *)

LEMMA ZeroInRange == 0 \in Ticks /\ 0 \in Ids /\ 0 \in Seqs
  BY CounterAssumption DEF Ticks, Ids, Seqs

LEMMA NoActionType == NoAction \in Actions
  BY ZeroInRange DEF NoAction, Actions, ActionTypes, IgnoreReasons

\* Ending a transaction keeps the fields' types and the ID in step.
LEMMA CompleteTransactionLemma ==
  ASSUME IndInv, NEW type \in TerminalActions, NEW tick \in Ticks,
         CompleteTransaction(type, tick)
  PROVE  /\ context' \in Contexts /\ action' \in Actions
         /\ IdTracksSequence' /\ PendingIsCurrent'
         /\ context'.state = WAIT_INTERVAL /\ action'.type = type
<1>1. context \in Contexts /\ IdTracksSequence
  BY DEF IndInv, TypeOK
<1>2. /\ (context.response_sequence + 1) % SeqMod \in Seqs
      /\ (context.transaction_id + 1) % IdMod \in Ids
  BY <1>1, CounterAssumption DEF Contexts, Seqs, Ids
<1>3. context' \in Contexts
  BY <1>1, <1>2, ZeroInRange DEF CompleteTransaction, Contexts, States
<1>4. action' \in Actions /\ action'.type = type
  BY ZeroInRange DEF CompleteTransaction, NoAction, Actions, ActionTypes,
                     IgnoreReasons
<1>5. IdTracksSequence'
  <2>1. /\ context'.transaction_id = (context.transaction_id + 1) % IdMod
        /\ context'.response_sequence = (context.response_sequence + 1) % SeqMod
    BY <1>1 DEF CompleteTransaction, Contexts
  <2>2. context.response_sequence \in Seqs
    BY <1>1 DEF Contexts
  <2> QED BY <1>1, <2>1, <2>2, IdOfNextSequence DEF IdTracksSequence
<1>6. PendingIsCurrent' /\ context'.state = WAIT_INTERVAL
  BY <1>1 DEF CompleteTransaction, PendingIsCurrent, Contexts
<1> QED BY <1>3, <1>4, <1>5, <1>6

\* Starting a transaction makes the current pair the pending one.
LEMMA StartTransactionLemma ==
  ASSUME IndInv, context.state = WAIT_INTERVAL, StartTransaction
  PROVE  /\ context' \in Contexts /\ action' \in Actions
         /\ IdTracksSequence' /\ PendingIsCurrent'
         /\ context'.state = WAIT_TX_RESULT /\ action'.type = READ_SENSOR
<1>1. context \in Contexts /\ IdTracksSequence
  BY DEF IndInv, TypeOK
<1>2. context' \in Contexts /\ action' \in Actions
  BY <1>1, ZeroInRange DEF StartTransaction, Contexts, States, NoAction, Actions,
                           ActionTypes, IgnoreReasons
<1>3. IdTracksSequence' /\ PendingIsCurrent'
  BY <1>1 DEF StartTransaction, IdTracksSequence, PendingIsCurrent, Contexts,
              WAIT_INTERVAL, WAIT_TX_RESULT
<1> QED BY <1>1, <1>2, <1>3 DEF StartTransaction, Contexts, NoAction

\* An event that asks for no work changes nothing but the reported action.
LEMMA NoChangeLemma ==
  ASSUME IndInv,
         NoWork \/ \E reason \in IgnoreReasons : Ignore(reason)
  PROVE  /\ context' = context /\ action' \in Actions /\ action'.type = NONE
         /\ IdTracksSequence' /\ PendingIsCurrent'
  BY NoActionType, ZeroInRange
  DEF NoWork, Ignore, NoAction, Actions, ActionTypes, IgnoreReasons, IndInv,
      IdTracksSequence, PendingIsCurrent

\* What one call of HandleEvent can do: nothing, start a transaction, start the
\* wait for the ACK, or end the transaction.  A wait ends by an accepted ACK
\* before the deadline or by a timeout after it, and goes on only before it.
Outcome(tick) ==
  \/ /\ context' = context /\ action'.type = NONE
     /\ context.state = WAIT_ACK => ~AckIsLate(tick)
  \/ /\ context.state = WAIT_INTERVAL
     /\ context'.state = WAIT_TX_RESULT /\ action'.type = READ_SENSOR
  \/ /\ context.state = WAIT_TX_RESULT /\ context'.state = WAIT_ACK
     /\ context'.ack_started_tick_ms = tick /\ action'.type = NONE
  \/ /\ context'.state = WAIT_INTERVAL /\ action'.type \in TerminalActions
     /\ context.state = WAIT_ACK =>
          action'.type = IF AckIsLate(tick) THEN ACK_TIMEOUT
                                            ELSE TRANSACTION_COMPLETE

Preserved ==
  /\ context' \in Contexts /\ action' \in Actions
  /\ IdTracksSequence' /\ PendingIsCurrent'

LEMMA WaitIntervalLemma ==
  ASSUME IndInv, NEW event, event.tick_ms \in Ticks, HandleWaitInterval(event)
  PROVE  Preserved /\ Outcome(event.tick_ms)
<1>1. context \in Contexts /\ context.state = WAIT_INTERVAL
  BY DEF IndInv, TypeOK, HandleWaitInterval
<1>2. CASE NoWork \/ Ignore(UNEXPECTED_EVENT)
  BY <1>1, <1>2, NoChangeLemma DEF IgnoreReasons, Preserved, Outcome,
                                   WAIT_INTERVAL, WAIT_ACK
<1>3. CASE StartTransaction
  BY <1>1, <1>3, StartTransactionLemma DEF Preserved, Outcome
<1> QED BY <1>2, <1>3 DEF HandleWaitInterval

LEMMA WaitTxResultLemma ==
  ASSUME IndInv, NEW event, event.tick_ms \in Ticks, HandleWaitTxResult(event)
  PROVE  Preserved /\ Outcome(event.tick_ms)
<1>1. /\ context \in Contexts /\ context.state = WAIT_TX_RESULT
      /\ IdTracksSequence /\ PendingIsCurrent
  BY DEF IndInv, TypeOK, HandleWaitTxResult
<1>2. CASE /\ context' = [context EXCEPT !.state = WAIT_ACK,
                             !.ack_started_tick_ms = event.tick_ms]
           /\ action' = NoAction
  <2>1. context' \in Contexts /\ action' \in Actions
    BY <1>1, <1>2, NoActionType DEF Contexts, States
  <2>2. IdTracksSequence' /\ PendingIsCurrent'
    BY <1>1, <1>2 DEF Contexts, IdTracksSequence, PendingIsCurrent,
                      WAIT_INTERVAL, WAIT_TX_RESULT, WAIT_ACK
  <2> QED BY <1>1, <1>2, <2>1, <2>2 DEF Preserved, Outcome, Contexts, NoAction
<1>3. CASE CompleteTransaction(TX_FAILED, event.tick_ms)
  <2>1. TX_FAILED \in TerminalActions
    BY DEF TerminalActions
  <2> QED BY <1>1, <1>3, <2>1, CompleteTransactionLemma
          DEF Preserved, Outcome, WAIT_TX_RESULT, WAIT_ACK
<1>4. CASE Ignore(UNEXPECTED_EVENT)
  BY <1>1, <1>4, NoChangeLemma DEF IgnoreReasons, Preserved, Outcome,
                                   WAIT_TX_RESULT, WAIT_ACK
<1> QED BY <1>2, <1>3, <1>4 DEF HandleWaitTxResult

LEMMA WaitAckLemma ==
  ASSUME IndInv, NEW event, event.tick_ms \in Ticks, HandleWaitAck(event)
  PROVE  Preserved /\ Outcome(event.tick_ms)
<1>1. context \in Contexts /\ context.state = WAIT_ACK
  BY DEF IndInv, TypeOK, HandleWaitAck
<1>2. CASE /\ AckIsLate(event.tick_ms)
           /\ CompleteTransaction(ACK_TIMEOUT, event.tick_ms)
  <2>1. ACK_TIMEOUT \in TerminalActions
    BY DEF TerminalActions
  <2> QED BY <1>1, <1>2, <2>1, CompleteTransactionLemma DEF Preserved, Outcome
<1>3. CASE /\ ~AckIsLate(event.tick_ms)
           /\ NoWork \/ \E reason \in IgnoreReasons : Ignore(reason)
  BY <1>1, <1>3, NoChangeLemma DEF Preserved, Outcome
<1>4. CASE /\ ~AckIsLate(event.tick_ms)
           /\ CompleteTransaction(TRANSACTION_COMPLETE, event.tick_ms)
  <2>1. TRANSACTION_COMPLETE \in TerminalActions
    BY DEF TerminalActions
  <2> QED BY <1>1, <1>4, <2>1, CompleteTransactionLemma DEF Preserved, Outcome
<1> QED BY <1>2, <1>3, <1>4 DEF HandleWaitAck, HandleAckFrame, IgnoreReasons

LEMMA HandleEventLemma ==
  ASSUME IndInv, NEW event, event.tick_ms \in Ticks, HandleEvent(event)
  PROVE  Preserved /\ Outcome(event.tick_ms)
  BY WaitIntervalLemma, WaitTxResultLemma, WaitAckLemma DEF HandleEvent

--------------------------------------------------------------------------------
(* The inductive invariant.                                                *)

LEMMA InitIndInv == Init => IndInv
<1> SUFFICES ASSUME Init PROVE IndInv
  OBVIOUS
<1>1. context \in Contexts
  BY ZeroInRange, AddressAssumption DEF Init, Initialized, Contexts, States
<1>2. action \in Actions
  BY NoActionType DEF Init
<1>3. TypeOK
  BY <1>1, <1>2, ZeroInRange, TimingAssumption DEF Init, TypeOK
<1>4. IdTracksSequence
  <2>1. 0 % IdMod = 0
    BY CounterAssumption
  <2> QED BY <2>1 DEF Init, Initialized, IdTracksSequence
<1>5. PendingIsCurrent /\ TerminalMeansIdle /\ CounterTellsWait
  BY DEF Init, Initialized, NoAction, PendingIsCurrent, TerminalMeansIdle,
         CounterTellsWait, WAIT_INTERVAL, WAIT_ACK
<1> QED BY <1>3, <1>4, <1>5 DEF IndInv

\* A time stamp the caller may use: in range, and while waiting it shows the true
\* time waited when it was taken.
LEMMA StampLemma ==
  ASSUME IndInv, NEW lag \in 0..sincePoll
  PROVE  /\ lag \in Nat /\ lag <= PollGapMs /\ lag \in Ticks
         /\ (now - lag) % TickMod \in Ticks
         /\ Elapsed(now, (now - lag) % TickMod) = lag
         /\ context.state = WAIT_ACK =>
              Elapsed((now - lag) % TickMod, context.ack_started_tick_ms)
                = waited - lag
<1>1. /\ now \in Ticks /\ sincePoll \in 0..PollGapMs /\ context \in Contexts
      /\ waited \in Nat /\ CounterTellsWait
  BY DEF IndInv, TypeOK
<1>2. lag \in Nat /\ lag <= PollGapMs /\ lag \in Ticks
  BY <1>1, CounterAssumption, TimingAssumption DEF Ticks
<1>3. /\ (now - lag) % TickMod \in Ticks
      /\ Elapsed(now, (now - lag) % TickMod) = lag
  BY <1>1, <1>2, ElapsedSinceStamp
<1>4. ASSUME context.state = WAIT_ACK
      PROVE  Elapsed((now - lag) % TickMod, context.ack_started_tick_ms)
               = waited - lag
  <2>1. context.ack_started_tick_ms \in Ticks
    BY <1>1 DEF Contexts
  <2>2. Elapsed(now, context.ack_started_tick_ms) = waited /\ lag <= waited
    BY <1>1, <1>2, <1>4 DEF CounterTellsWait
  <2> QED BY <1>1, <1>2, <2>1, <2>2, ElapsedEarlier
<1> QED BY <1>2, <1>3, <1>4

\* Handling an event, whatever its type, its frame and the age of its stamp.
LEMMA HandleIndInv ==
  ASSUME IndInv, NEW event, NEW lag \in 0..sincePoll, Handle(event, lag)
  PROVE  IndInv'
<1> DEFINE tick == (now - lag) % TickMod
<1>1. event.tick_ms = tick /\ HandleEvent(event)
  BY DEF Handle
<1>2. /\ lag \in Nat /\ lag <= PollGapMs /\ lag \in Ticks /\ tick \in Ticks
      /\ Elapsed(now, tick) = lag
      /\ context.state = WAIT_ACK =>
           Elapsed(tick, context.ack_started_tick_ms) = waited - lag
  BY StampLemma
<1> HIDE DEF tick
<1>3. /\ context \in Contexts /\ now \in Ticks /\ waited \in Nat
      /\ sincePoll \in 0..PollGapMs /\ CounterTellsWait /\ TerminalMeansIdle
  BY DEF IndInv, TypeOK
<1>4. Preserved /\ Outcome(tick)
  BY <1>1, <1>2, HandleEventLemma
<1>5. /\ sincePoll' = lag /\ now' = now
      /\ waited' = IF context.state = WAIT_TX_RESULT THEN lag ELSE waited
  BY DEF Handle
<1>6. TypeOK' /\ IdTracksSequence' /\ PendingIsCurrent'
  BY <1>2, <1>3, <1>4, <1>5, TimingAssumption DEF Preserved, TypeOK
<1>7. TerminalMeansIdle'
  BY <1>3, <1>4 DEF Outcome, TerminalMeansIdle, TerminalActions, NONE, READ_SENSOR,
                    TRANSACTION_COMPLETE, ACK_TIMEOUT, TX_FAILED
<1>8. CounterTellsWait'
  <2> SUFFICES ASSUME context'.state = WAIT_ACK
               PROVE  /\ Elapsed(now', context'.ack_started_tick_ms) = waited'
                      /\ sincePoll' <= waited'
                      /\ waited' - sincePoll' < AckTimeoutMs
    BY DEF CounterTellsWait, Elapsed
  <2>1. CASE context' = context /\ ~AckIsLate(tick)
    <3>1. /\ context.state = WAIT_ACK /\ waited' = waited
          /\ Elapsed(now, context.ack_started_tick_ms) = waited
          /\ sincePoll <= waited
      BY <1>3, <1>5, <2>1 DEF CounterTellsWait, WAIT_TX_RESULT, WAIT_ACK
    <3>2. waited - lag < AckTimeoutMs
      BY <1>2, <1>3, <2>1, <3>1, TimingAssumption DEF AckIsLate
    <3> QED BY <1>2, <1>3, <1>5, <2>1, <3>1, <3>2
  <2>2. CASE /\ context.state = WAIT_TX_RESULT
             /\ context'.ack_started_tick_ms = tick
    BY <1>2, <1>5, <2>2, TimingAssumption
  <2> QED BY <1>4, <2>1, <2>2 DEF Outcome, WAIT_INTERVAL, WAIT_TX_RESULT, WAIT_ACK
<1> QED BY <1>6, <1>7, <1>8 DEF IndInv

LEMMA RestartIntervalIndInv == IndInv /\ RestartInterval => IndInv'
<1> SUFFICES ASSUME IndInv, RestartInterval PROVE IndInv'
  OBVIOUS
<1>1. /\ TypeOK /\ IdTracksSequence /\ PendingIsCurrent /\ TerminalMeansIdle
      /\ context \in Contexts /\ now \in Ticks
  BY DEF IndInv, TypeOK
<1>2. /\ context' = [context EXCEPT !.interval_started_tick_ms = now]
      /\ context.state = WAIT_INTERVAL
      /\ action' = action /\ now' = now /\ waited' = waited /\ sincePoll' = 0
  BY <1>1 DEF RestartInterval, TerminalMeansIdle
<1>3. context' \in Contexts /\ context'.state = WAIT_INTERVAL
  BY <1>1, <1>2 DEF Contexts
<1>4. TypeOK'
  BY <1>1, <1>2, <1>3, TimingAssumption DEF TypeOK
<1>5. IdTracksSequence' /\ PendingIsCurrent'
  BY <1>1, <1>2 DEF Contexts, IdTracksSequence, PendingIsCurrent
<1>6. TerminalMeansIdle' /\ CounterTellsWait'
  BY <1>3 DEF TerminalMeansIdle, CounterTellsWait, WAIT_INTERVAL, WAIT_ACK
<1> QED BY <1>4, <1>5, <1>6 DEF IndInv

LEMMA TickIndInv == IndInv /\ Tick => IndInv'
<1> SUFFICES ASSUME IndInv, Tick PROVE IndInv'
  OBVIOUS
<1>1. /\ TypeOK /\ IdTracksSequence /\ PendingIsCurrent /\ TerminalMeansIdle
      /\ CounterTellsWait /\ context \in Contexts /\ now \in Ticks
      /\ waited \in Nat /\ sincePoll \in 0..PollGapMs
  BY DEF IndInv, TypeOK
<1>2. /\ context' = context /\ action' = action /\ now' = (now + 1) % TickMod
      /\ sincePoll' = sincePoll + 1 /\ sincePoll < PollGapMs
      /\ waited' = IF context.state = WAIT_ACK THEN waited + 1 ELSE waited
  BY DEF Tick
<1>3. now' \in Ticks
  BY <1>1, <1>2, CounterAssumption DEF Ticks
<1>4. TypeOK'
  BY <1>1, <1>2, <1>3, TimingAssumption DEF TypeOK
<1>5. IdTracksSequence' /\ PendingIsCurrent' /\ TerminalMeansIdle'
  BY <1>1, <1>2 DEF IdTracksSequence, PendingIsCurrent, TerminalMeansIdle
<1>6. CounterTellsWait'
  <2> SUFFICES ASSUME context.state = WAIT_ACK
               PROVE  /\ Elapsed(now', context'.ack_started_tick_ms) = waited'
                      /\ sincePoll' <= waited'
                      /\ waited' - sincePoll' < AckTimeoutMs
    BY <1>2 DEF CounterTellsWait, Elapsed
  <2>1. /\ Elapsed(now, context.ack_started_tick_ms) = waited
        /\ sincePoll <= waited /\ waited - sincePoll < AckTimeoutMs
        /\ context.ack_started_tick_ms \in Ticks
    BY <1>1 DEF CounterTellsWait, Contexts
  <2>2. waited + 1 < TickMod
    BY <1>1, <1>2, <2>1, TimingAssumption, CounterAssumption
  <2>3. Elapsed(now', context.ack_started_tick_ms) = waited + 1
    BY <1>1, <1>2, <2>1, <2>2, ElapsedLater
  <2> QED BY <1>1, <1>2, <2>1, <2>3
<1> QED BY <1>4, <1>5, <1>6 DEF IndInv

LEMMA NextIndInv == IndInv /\ [Next]_vars => IndInv'
<1> SUFFICES ASSUME IndInv, [Next]_vars PROVE IndInv'
  OBVIOUS
<1>1. CASE HandleSome
  BY <1>1, HandleIndInv DEF HandleSome
<1>2. CASE RestartInterval
  BY <1>2, RestartIntervalIndInv
<1>3. CASE Tick
  BY <1>3, TickIndInv
<1>4. CASE UNCHANGED vars
  BY <1>4 DEF vars, IndInv, TypeOK, IdTracksSequence, PendingIsCurrent,
              TerminalMeansIdle, CounterTellsWait, Elapsed
<1> QED BY <1>1, <1>2, <1>3, <1>4 DEF Next

THEOREM Invariance == Spec => []IndInv
<1>1. Init => IndInv
  BY InitIndInv
<1>2. IndInv /\ [Next]_vars => IndInv'
  BY NextIndInv
<1> QED BY <1>1, <1>2, PTL DEF Spec

--------------------------------------------------------------------------------
(* What the invariant gives.                                               *)

\* The structs of node_state.c keep their field widths.
THEOREM TypeCorrectness == Spec => []TypeOK
<1>1. IndInv => TypeOK
  BY DEF IndInv
<1> QED BY <1>1, Invariance, PTL

\* The ID is the low part of the sequence for ever, across both wraps.
THEOREM IdNeverDrifts == Spec => []IdTracksSequence
<1>1. IndInv => IdTracksSequence
  BY DEF IndInv
<1> QED BY <1>1, Invariance, PTL

\* What an ACK is compared with is the transaction in progress.
THEOREM PendingIsNeverStale == Spec => []PendingIsCurrent
<1>1. IndInv => PendingIsCurrent
  BY DEF IndInv
<1> QED BY <1>1, Invariance, PTL

\* No frame and no wrap prolongs the wait for an ACK.
THEOREM WaitEndsInTime == Spec => []WaitIsBounded
<1>1. IndInv => WaitIsBounded
  BY TimingAssumption DEF IndInv, TypeOK, CounterTellsWait, WaitIsBounded
<1> QED BY <1>1, Invariance, PTL

\* ACK or timeout is decided by true time, exactly at the deadline.
THEOREM DeadlineDecides == Spec => DeadlineIsExact
<1> DEFINE A == (context.state = WAIT_ACK /\ context'.state # WAIT_ACK) =>
                  /\ action'.type \in {TRANSACTION_COMPLETE, ACK_TIMEOUT}
                  /\ action'.type = TRANSACTION_COMPLETE
                       <=> waited - sincePoll' < AckTimeoutMs
<1>1. IndInv /\ [Next]_vars => [A]_vars
  <2> SUFFICES ASSUME IndInv, Next, context.state = WAIT_ACK,
                      context'.state # WAIT_ACK
               PROVE  /\ action'.type \in {TRANSACTION_COMPLETE, ACK_TIMEOUT}
                      /\ action'.type = TRANSACTION_COMPLETE
                           <=> waited - sincePoll' < AckTimeoutMs
    OBVIOUS
  <2>1. HandleSome
    BY DEF Next, Tick, RestartInterval, IndInv, TerminalMeansIdle,
           WAIT_INTERVAL, WAIT_ACK
  <2>a. PICK lag \in 0..sincePoll : \E event : Handle(event, lag)
    BY <2>1 DEF HandleSome
  <2>2. PICK event : Handle(event, lag)
    BY <2>a
  <2> DEFINE tick == (now - lag) % TickMod
  <2>3. /\ tick \in Ticks
        /\ Elapsed(tick, context.ack_started_tick_ms) = waited - lag
    BY StampLemma
  <2>4. event.tick_ms = tick /\ HandleEvent(event) /\ sincePoll' = lag
    BY <2>2 DEF Handle
  <2> HIDE DEF tick
  <2>5. Outcome(tick)
    BY <2>3, <2>4, HandleEventLemma
  <2>6. action'.type = IF AckIsLate(tick) THEN ACK_TIMEOUT
                                          ELSE TRANSACTION_COMPLETE
    BY <2>5 DEF Outcome, WAIT_INTERVAL, WAIT_TX_RESULT, WAIT_ACK
  <2>7. waited \in Nat /\ sincePoll \in Nat /\ lag \in Nat
    BY TimingAssumption DEF IndInv, TypeOK
  <2>8. AckIsLate(tick) <=> waited - lag >= AckTimeoutMs
    BY <2>3 DEF AckIsLate
  <2> QED BY <2>4, <2>6, <2>7, <2>8, TimingAssumption
          DEF TRANSACTION_COMPLETE, ACK_TIMEOUT
<1> QED BY <1>1, Invariance, PTL DEF Spec, DeadlineIsExact
================================================================================
