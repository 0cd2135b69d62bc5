-------------------------------- MODULE LogProofs --------------------------------
(***************************************************************************)
(* Proofs about the debug log: UartLog for lines of any length, FrameDump  *)
(* for every size of frame and buffer.                                     *)
(***************************************************************************)
EXTENDS UartLog, FrameDump, TLAPS

--------------------------------------------------------------------------------
(* The inductive invariant.                                                *)

Locations == {"boot", "task", "waitFree", "write", "fill", "waitSent",
              "drainBusy", "drainComplete", "drained", "undrained"}

Types ==
  /\ pc \in Locations /\ busy \in BOOLEAN /\ interrupt \in BOOLEAN
  /\ isr \in BOOLEAN /\ txc \in BOOLEAN /\ stalls \in BOOLEAN

\* The counts.
Counters ==
  /\ length \in Nat /\ size \in Nat /\ processed \in Nat /\ emitted \in Nat

\* A transfer is first filled by the call and then carried on by the handler, never
\* by both.
OneWriter ==
  /\ pc = "fill" => busy /\ ~interrupt
  /\ busy /\ pc # "fill" => interrupt /\ processed = emitted
  /\ isr => interrupt
  /\ interrupt => busy

\* What is transferred is the static buffer, whole.
TransfersBuffer ==
  /\ busy => owner = line /\ size = length /\ emitted <= size
  /\ busy \/ pc = "write" => line \in Lines /\ length > 0

\* The places the code reaches only with the writer idle.
WriterIdle == pc \in {"write", "drainComplete", "drained"} => ~busy

\* TXC is up exactly when all that was ever written has gone.
SentIsComplete ==
  /\ txc => data = None /\ shift = None
  /\ Debug =>
       \/ txc \/ data # None \/ shift # None
       \/ pc \in {"boot", "waitFree", "write"} /\ owner = None
       \/ pc = "fill" /\ emitted = 0

\* After the transfer every byte of the line has been written.
Complete == ~busy /\ owner # None => emitted = length \/ pc = "write"

IndInv ==
  /\ Types /\ Counters /\ OneWriter /\ TransfersBuffer /\ WriterIdle
  /\ SentIsComplete /\ Complete
  /\ pc = "drained" => data = None /\ shift = None
  /\ Debug => DrainSucceeds

--------------------------------------------------------------------------------
(* The invariant holds initially and every step keeps it.                  *)

\* After SERCOM5_USART_Initialize nothing is on its way.
LEMMA InitInv == Init => IndInv
<1> SUFFICES ASSUME Init PROVE IndInv
  OBVIOUS
<1>1. Types
  <2>1. stalls \in BOOLEAN
    BY LogAssumption DEF Init
  <2> QED BY <2>1 DEF Init, Types, Locations
<1>2. Counters
  BY DEF Init, Counters
<1>3. /\ OneWriter /\ TransfersBuffer /\ WriterIdle /\ SentIsComplete /\ Complete
      /\ pc = "drained" => data = None /\ shift = None
      /\ Debug => DrainSucceeds
  BY DEF Init, OneWriter, TransfersBuffer, WriterIdle, SentIsComplete, Complete,
         DrainSucceeds
<1> QED BY <1>1, <1>2, <1>3 DEF IndInv

\* No step of the program, of the handler or of the transmitter breaks it.
LEMMA NextInv == IndInv /\ [Next]_vars => IndInv'
<1> SUFFICES ASSUME IndInv, [Next]_vars PROVE IndInv'
  OBVIOUS
<1> USE LogAssumption
  DEF vars, logVars, objVars, chipVars, IndInv, Types, Counters, Locations, OneWriter,
      TransfersBuffer, WriterIdle, SentIsComplete, Complete, DrainSucceeds
<1>1. CASE Boot /\ UNCHANGED stalls
  <2> USE <1>1 DEF Boot, At, DRE
  <2>1. Types'
    OBVIOUS
  <2>2. Counters'
    OBVIOUS
  <2>3. OneWriter'
    OBVIOUS
  <2>4. TransfersBuffer'
    OBVIOUS
  <2>5. WriterIdle'
    OBVIOUS
  <2>6. SentIsComplete'
    OBVIOUS
  <2>7. Complete'
    OBVIOUS
  <2>8. (pc = "drained" => data = None /\ shift = None)'
    OBVIOUS
  <2>9. (Debug => DrainSucceeds)'
    OBVIOUS
  <2> QED BY <2>1, <2>2, <2>3, <2>4, <2>5, <2>6, <2>7, <2>8, <2>9
<1>2. CASE Log /\ UNCHANGED stalls
  <2> USE <1>2 DEF Log, At, DRE
  <2>1. Types'
    OBVIOUS
  <2>2. Counters'
    OBVIOUS
  <2>3. OneWriter'
    OBVIOUS
  <2>4. TransfersBuffer'
    OBVIOUS
  <2>5. WriterIdle'
    OBVIOUS
  <2>6. SentIsComplete'
    OBVIOUS
  <2>7. Complete'
    OBVIOUS
  <2>8. (pc = "drained" => data = None /\ shift = None)'
    OBVIOUS
  <2>9. (Debug => DrainSucceeds)'
    OBVIOUS
  <2> QED BY <2>1, <2>2, <2>3, <2>4, <2>5, <2>6, <2>7, <2>8, <2>9
<1>3. CASE Format /\ UNCHANGED stalls
  <2> USE <1>3 DEF Format, At, DRE
  <2>1. Types'
    OBVIOUS
  <2>2. Counters'
    OBVIOUS
  <2>3. OneWriter'
    OBVIOUS
  <2>4. TransfersBuffer'
    OBVIOUS
  <2>5. WriterIdle'
    OBVIOUS
  <2>6. SentIsComplete'
    OBVIOUS
  <2>7. Complete'
    OBVIOUS
  <2>8. (pc = "drained" => data = None /\ shift = None)'
    OBVIOUS
  <2>9. (Debug => DrainSucceeds)'
    OBVIOUS
  <2> QED BY <2>1, <2>2, <2>3, <2>4, <2>5, <2>6, <2>7, <2>8, <2>9
<1>4. CASE Write /\ UNCHANGED stalls
  <2> USE <1>4 DEF Write, At, DRE
  <2>1. Types'
    OBVIOUS
  <2>2. Counters'
    OBVIOUS
  <2>3. OneWriter'
    OBVIOUS
  <2>4. TransfersBuffer'
    OBVIOUS
  <2>5. WriterIdle'
    OBVIOUS
  <2>6. SentIsComplete'
    OBVIOUS
  <2>7. Complete'
    OBVIOUS
  <2>8. (pc = "drained" => data = None /\ shift = None)'
    OBVIOUS
  <2>9. (Debug => DrainSucceeds)'
    OBVIOUS
  <2> QED BY <2>1, <2>2, <2>3, <2>4, <2>5, <2>6, <2>7, <2>8, <2>9
<1>5. CASE Fill /\ UNCHANGED stalls
  <2> USE <1>5 DEF Fill, At, WriteData, DRE
  <2>1. Types'
    OBVIOUS
  <2>2. Counters'
    OBVIOUS
  <2>3. OneWriter'
    OBVIOUS
  <2>4. TransfersBuffer'
    OBVIOUS
  <2>5. WriterIdle'
    OBVIOUS
  <2>6. SentIsComplete'
    OBVIOUS
  <2>7. Complete'
    OBVIOUS
  <2>8. (pc = "drained" => data = None /\ shift = None)'
    OBVIOUS
  <2>9. (Debug => DrainSucceeds)'
    OBVIOUS
  <2> QED BY <2>1, <2>2, <2>3, <2>4, <2>5, <2>6, <2>7, <2>8, <2>9
<1>6. CASE StartInterrupt /\ UNCHANGED stalls
  <2> USE <1>6 DEF StartInterrupt, At, DRE
  <2>1. Types'
    OBVIOUS
  <2>2. Counters'
    OBVIOUS
  <2>3. OneWriter'
    OBVIOUS
  <2>4. TransfersBuffer'
    OBVIOUS
  <2>5. WriterIdle'
    OBVIOUS
  <2>6. SentIsComplete'
    OBVIOUS
  <2>7. Complete'
    OBVIOUS
  <2>8. (pc = "drained" => data = None /\ shift = None)'
    OBVIOUS
  <2>9. (Debug => DrainSucceeds)'
    OBVIOUS
  <2> QED BY <2>1, <2>2, <2>3, <2>4, <2>5, <2>6, <2>7, <2>8, <2>9
<1>7. CASE Logged /\ UNCHANGED stalls
  <2> USE <1>7 DEF Logged, At, DRE
  <2>1. Types'
    OBVIOUS
  <2>2. Counters'
    OBVIOUS
  <2>3. OneWriter'
    OBVIOUS
  <2>4. TransfersBuffer'
    OBVIOUS
  <2>5. WriterIdle'
    OBVIOUS
  <2>6. SentIsComplete'
    OBVIOUS
  <2>7. Complete'
    OBVIOUS
  <2>8. (pc = "drained" => data = None /\ shift = None)'
    OBVIOUS
  <2>9. (Debug => DrainSucceeds)'
    OBVIOUS
  <2> QED BY <2>1, <2>2, <2>3, <2>4, <2>5, <2>6, <2>7, <2>8, <2>9
<1>8. CASE GiveUp /\ UNCHANGED stalls
  <2> USE <1>8 DEF GiveUp, At, AttemptsRunOut, DRE
  <2>1. Types'
    OBVIOUS
  <2>2. Counters'
    OBVIOUS
  <2>3. OneWriter'
    OBVIOUS
  <2>4. TransfersBuffer'
    OBVIOUS
  <2>5. WriterIdle'
    OBVIOUS
  <2>6. SentIsComplete'
    OBVIOUS
  <2>7. Complete'
    OBVIOUS
  <2>8. (pc = "drained" => data = None /\ shift = None)'
    OBVIOUS
  <2>9. (Debug => DrainSucceeds)'
    OBVIOUS
  <2> QED BY <2>1, <2>2, <2>3, <2>4, <2>5, <2>6, <2>7, <2>8, <2>9
<1>9. CASE Drain /\ UNCHANGED stalls
  <2> USE <1>9 DEF Drain, At, DRE
  <2>1. Types'
    OBVIOUS
  <2>2. Counters'
    OBVIOUS
  <2>3. OneWriter'
    OBVIOUS
  <2>4. TransfersBuffer'
    OBVIOUS
  <2>5. WriterIdle'
    OBVIOUS
  <2>6. SentIsComplete'
    OBVIOUS
  <2>7. Complete'
    OBVIOUS
  <2>8. (pc = "drained" => data = None /\ shift = None)'
    OBVIOUS
  <2>9. (Debug => DrainSucceeds)'
    OBVIOUS
  <2> QED BY <2>1, <2>2, <2>3, <2>4, <2>5, <2>6, <2>7, <2>8, <2>9
<1>10. CASE DrainLooks /\ UNCHANGED stalls
  <2> USE <1>10 DEF DrainLooks, At, AttemptsRunOut, LooksIdle, DRE
  <2>1. Types'
    OBVIOUS
  <2>2. Counters'
    OBVIOUS
  <2>3. OneWriter'
    OBVIOUS
  <2>4. TransfersBuffer'
    OBVIOUS
  <2>5. WriterIdle'
    OBVIOUS
  <2>6. SentIsComplete'
    OBVIOUS
  <2>7. Complete'
    OBVIOUS
  <2>8. (pc = "drained" => data = None /\ shift = None)'
    OBVIOUS
  <2>9. (Debug => DrainSucceeds)'
    OBVIOUS
  <2> QED BY <2>1, <2>2, <2>3, <2>4, <2>5, <2>6, <2>7, <2>8, <2>9
<1>11. CASE Wake /\ UNCHANGED stalls
  <2> USE <1>11 DEF Wake, At, DRE
  <2>1. Types'
    OBVIOUS
  <2>2. Counters'
    OBVIOUS
  <2>3. OneWriter'
    OBVIOUS
  <2>4. TransfersBuffer'
    OBVIOUS
  <2>5. WriterIdle'
    OBVIOUS
  <2>6. SentIsComplete'
    OBVIOUS
  <2>7. Complete'
    OBVIOUS
  <2>8. (pc = "drained" => data = None /\ shift = None)'
    OBVIOUS
  <2>9. (Debug => DrainSucceeds)'
    OBVIOUS
  <2> QED BY <2>1, <2>2, <2>3, <2>4, <2>5, <2>6, <2>7, <2>8, <2>9
<1>12. CASE IsrStarts /\ UNCHANGED stalls
  <2> USE <1>12 DEF IsrStarts, DRE
  <2>1. Types'
    OBVIOUS
  <2>2. Counters'
    OBVIOUS
  <2>3. OneWriter'
    OBVIOUS
  <2>4. TransfersBuffer'
    OBVIOUS
  <2>5. WriterIdle'
    OBVIOUS
  <2>6. SentIsComplete'
    OBVIOUS
  <2>7. Complete'
    OBVIOUS
  <2>8. (pc = "drained" => data = None /\ shift = None)'
    OBVIOUS
  <2>9. (Debug => DrainSucceeds)'
    OBVIOUS
  <2> QED BY <2>1, <2>2, <2>3, <2>4, <2>5, <2>6, <2>7, <2>8, <2>9
<1>13. CASE IsrWrites /\ UNCHANGED stalls
  <2> USE <1>13 DEF IsrWrites, WriteData, DRE
  <2>1. Types'
    OBVIOUS
  <2>2. Counters'
    OBVIOUS
  <2>3. OneWriter'
    OBVIOUS
  <2>4. TransfersBuffer'
    OBVIOUS
  <2>5. WriterIdle'
    OBVIOUS
  <2>6. SentIsComplete'
    OBVIOUS
  <2>7. Complete'
    OBVIOUS
  <2>8. (pc = "drained" => data = None /\ shift = None)'
    OBVIOUS
  <2>9. (Debug => DrainSucceeds)'
    OBVIOUS
  <2> QED BY <2>1, <2>2, <2>3, <2>4, <2>5, <2>6, <2>7, <2>8, <2>9
<1>14. CASE IsrReturns /\ UNCHANGED stalls
  <2> USE <1>14 DEF IsrReturns, DRE
  <2>1. Types'
    OBVIOUS
  <2>2. Counters'
    <3>1. /\ length' = length /\ processed' = processed /\ emitted' = emitted
          /\ size' = 0 \/ size' = size
      OBVIOUS
    <3> QED BY <3>1
  <2>3. OneWriter'
    OBVIOUS
  <2>4. TransfersBuffer'
    OBVIOUS
  <2>5. WriterIdle'
    OBVIOUS
  <2>6. SentIsComplete'
    OBVIOUS
  <2>7. Complete'
    <3>1. /\ length' = length /\ emitted' = emitted /\ owner' = owner /\ pc' = pc
          /\ ~busy' => ~busy \/ (busy /\ processed >= size)
      OBVIOUS
    <3>2. busy /\ processed >= size => emitted = length
      OBVIOUS
    <3> QED BY <3>1, <3>2
  <2>8. (pc = "drained" => data = None /\ shift = None)'
    OBVIOUS
  <2>9. (Debug => DrainSucceeds)'
    OBVIOUS
  <2> QED BY <2>1, <2>2, <2>3, <2>4, <2>5, <2>6, <2>7, <2>8, <2>9
<1>15. CASE Load /\ UNCHANGED stalls
  <2> USE <1>15 DEF Load
  <2>1. Types'
    OBVIOUS
  <2>2. Counters'
    OBVIOUS
  <2>3. OneWriter'
    OBVIOUS
  <2>4. TransfersBuffer'
    OBVIOUS
  <2>5. WriterIdle'
    OBVIOUS
  <2>6. SentIsComplete'
    OBVIOUS
  <2>7. Complete'
    OBVIOUS
  <2>8. (pc = "drained" => data = None /\ shift = None)'
    OBVIOUS
  <2>9. (Debug => DrainSucceeds)'
    OBVIOUS
  <2> QED BY <2>1, <2>2, <2>3, <2>4, <2>5, <2>6, <2>7, <2>8, <2>9
<1>16. CASE ShiftOut /\ UNCHANGED stalls
  <2> USE <1>16 DEF ShiftOut
  <2>1. Types'
    OBVIOUS
  <2>2. Counters'
    OBVIOUS
  <2>3. OneWriter'
    OBVIOUS
  <2>4. TransfersBuffer'
    OBVIOUS
  <2>5. WriterIdle'
    OBVIOUS
  <2>6. SentIsComplete'
    OBVIOUS
  <2>7. Complete'
    OBVIOUS
  <2>8. (pc = "drained" => data = None /\ shift = None)'
    OBVIOUS
  <2>9. (Debug => DrainSucceeds)'
    OBVIOUS
  <2> QED BY <2>1, <2>2, <2>3, <2>4, <2>5, <2>6, <2>7, <2>8, <2>9
<1>17. CASE UNCHANGED vars
  BY <1>17
<1> QED BY <1>1, <1>2, <1>3, <1>4, <1>5, <1>6, <1>7, <1>8, <1>9, <1>10, <1>11,
           <1>12, <1>13, <1>14, <1>15, <1>16, <1>17 DEF Next, Program, Handler,
           Transmitter, Halted

\* IndInv is an invariant of every execution.
THEOREM LogInvariance == Spec => []IndInv
  BY InitInv, NextInv, PTL DEF Spec

--------------------------------------------------------------------------------
(* What the invariant gives.                                               *)

\* The line buffer is not reformatted under the handler, not even after a wait of
\* DEBUG_LOG_Printf ran out.
THEOREM LinesAreNotTorn == Spec => []NoTornLine
<1>1. IndInv => NoTornLine
  BY DEF IndInv, TransfersBuffer, NoTornLine
<1> QED BY <1>1, LogInvariance, PTL

\* The call and the handler between them write every byte of a line once, however
\* long it is and wherever the call stopped.
THEOREM LinesAreWhole == Spec => []LineIsWhole
<1>1. IndInv => LineIsWhole
  BY DEF IndInv, TransfersBuffer, Complete, LineIsWhole
<1> QED BY <1>1, LogInvariance, PTL

\* A successful drain leaves nothing on its way.
THEOREM DrainIsComplete == Spec => []DrainedIsSilent
<1>1. IndInv => DrainedIsSilent
  BY DEF IndInv, WriterIdle, DrainedIsSilent
<1> QED BY <1>1, LogInvariance, PTL

\* With the logs on, the node stops at a drain only if the UART stalls: the first
\* line, logged before the first drain, is what brings TXC up.
THEOREM LoggingNodeDrains ==
  ASSUME Debug
  PROVE  Spec => []DrainSucceeds
<1>1. IndInv => DrainSucceeds
  BY Debug DEF IndInv
<1> QED BY <1>1, LogInvariance, PTL

--------------------------------------------------------------------------------
(* The dump of a frame.                                                    *)

\* The sizes as the provers need them.
LEMMA DumpSizes ==
  /\ BeforeLength = 15 /\ BeforeBytes = 5
  /\ MaxFrame \in Nat /\ MinFrame \in Nat /\ MinFrame >= 1
  /\ MaxFrame >= 1 /\ MaxFrame <= 99
  /\ Capacity \in Nat /\ 24 + 3 * MaxFrame <= Capacity
<1>1. BeforeLength = 15 /\ BeforeBytes = 5
  BY DEF BeforeLength, BeforeBytes
<1>2. /\ MaxFrame \in Nat /\ MinFrame \in Nat /\ MinFrame >= 1
      /\ MaxFrame >= 1 /\ MaxFrame <= 99
  BY CapacityAssumption
<1>3. /\ Capacity \in Nat
      /\ BeforeLength + 2 + BeforeBytes + (3 * MaxFrame - 1) + 3 <= Capacity
  BY CapacityAssumption
<1> QED
  BY <1>1, <1>2, <1>3

LEMMA DumpInitInv == DumpInit => DumpInv
<1> SUFFICES ASSUME DumpInit PROVE DumpInv
  OBVIOUS
<1>1. dropped \in BOOLEAN /\ ~dropped
  BY DEF DumpInit
<1>2. DumpTypeOK
  BY <1>1, DumpSizes DEF DumpInit, DumpTypeOK
<1>3. CursorFollows /\ DumpFits
  BY <1>1, DumpSizes DEF DumpInit, CursorFollows, DumpFits
<1> QED
  BY <1>2, <1>3 DEF DumpInv

LEMMA StartKeepsDumpInv ==
  ASSUME DumpInv, NEW n \in 1..MaxFrame, Start(n)
  PROVE  DumpInv'
<1>1. dropped' \in BOOLEAN /\ ~dropped'
  BY DEF DumpInv, DumpFits, DumpTypeOK, Start
<1>2. DumpTypeOK'
  BY <1>1, DumpSizes DEF DumpInv, DumpTypeOK, Start
<1>3. CursorFollows' /\ DumpFits'
  BY <1>1, DumpSizes DEF CursorFollows, DumpFits, Start
<1> QED
  BY <1>2, <1>3 DEF DumpInv

LEMMA FindDigitKeepsDumpInv == DumpInv /\ FindDigit => DumpInv'
<1> SUFFICES ASSUME DumpInv, FindDigit PROVE DumpInv'
  OBVIOUS
<1>1. dropped' \in BOOLEAN /\ ~dropped'
  BY DEF DumpInv, DumpFits, DumpTypeOK, FindDigit
<1>2. /\ value' \in 0..MaxFrame /\ value' <= 9 /\ (value <= 9 => value' = 0)
  BY DumpSizes DEF DumpInv, DumpTypeOK, FindDigit
<1>3. count' \in 0..2 /\ (stage' = "digits" => count' = 1)
  BY <1>2 DEF DumpInv, DumpTypeOK, CursorFollows, FindDigit
<1>4. DumpTypeOK'
  BY <1>1, <1>2, <1>3 DEF DumpInv, DumpTypeOK, FindDigit
<1>5. CursorFollows' /\ DumpFits'
  BY <1>1, <1>2, <1>3, DumpSizes DEF DumpInv, CursorFollows, DumpFits, FindDigit
<1> QED
  BY <1>4, <1>5 DEF DumpInv

LEMMA AppendDigitsKeepsDumpInv == DumpInv /\ AppendDigits => DumpInv'
<1> SUFFICES ASSUME DumpInv, AppendDigits PROVE DumpInv'
  OBVIOUS
<1>1. dropped' \in BOOLEAN /\ ~dropped'
  BY DEF DumpInv, DumpFits, DumpTypeOK, AppendDigits
<1>2. DumpTypeOK'
  BY <1>1, DumpSizes DEF DumpInv, DumpTypeOK, AppendDigits
<1>3. CursorFollows' /\ DumpFits'
  BY <1>1, DumpSizes DEF DumpInv, DumpTypeOK, CursorFollows, DumpFits, AppendDigits
<1> QED
  BY <1>2, <1>3 DEF DumpInv

LEMMA AppendByteKeepsDumpInv == DumpInv /\ AppendByte => DumpInv'
<1> SUFFICES ASSUME DumpInv, AppendByte PROVE DumpInv'
  OBVIOUS
<1>1. dropped' \in BOOLEAN /\ ~dropped'
  BY DEF DumpInv, DumpFits, DumpTypeOK, AppendByte
<1>2. cursor' = BeforeLength + count + BeforeBytes + 3 * index'
                  - (IF index' = frameLength THEN 1 ELSE 0)
  BY DumpSizes DEF DumpInv, DumpTypeOK, CursorFollows, AppendByte
<1>3. DumpTypeOK'
  BY <1>1, <1>2, DumpSizes DEF DumpInv, DumpTypeOK, AppendByte
<1>4. CursorFollows' /\ DumpFits'
  BY <1>1, <1>2, DumpSizes DEF DumpInv, DumpTypeOK, CursorFollows, DumpFits, AppendByte
<1> QED
  BY <1>3, <1>4 DEF DumpInv

LEMMA LogDumpKeepsDumpInv == DumpInv /\ LogDump => DumpInv'
<1> SUFFICES ASSUME DumpInv, LogDump PROVE DumpInv'
  OBVIOUS
<1>1. cursor' \in Nat /\ cursor' <= Capacity
  BY DumpSizes DEF DumpInv, DumpTypeOK, CursorFollows, LogDump
<1>2. UNCHANGED dropped
  <2> DEFINE end == cursor'
  <2>1. end \in Int /\ end <= Capacity /\ Capacity \in Int
    BY <1>1, DumpSizes
  <2> HIDE DEF end
  <2>2. end - 1 < Capacity
    BY <2>1
  <2> QED
    BY <2>2, Zenon DEF LogDump, end
<1>3. dropped' \in BOOLEAN /\ ~dropped'
  BY <1>2 DEF DumpInv, DumpTypeOK, DumpFits
<1>4. DumpTypeOK'
  BY <1>1, <1>3 DEF DumpInv, DumpTypeOK, LogDump
<1>5. CursorFollows' /\ DumpFits'
  BY <1>1, <1>3 DEF DumpInv, CursorFollows, DumpFits, LogDump
<1> QED
  BY <1>4, <1>5 DEF DumpInv

LEMMA DumpNextKeepsDumpInv == DumpInv /\ [DumpNext]_dumpVars => DumpInv'
<1> SUFFICES ASSUME DumpInv, [DumpNext]_dumpVars PROVE DumpInv'
  OBVIOUS
<1>1. CASE DumpSent
  <2>1. PICK n \in MinFrame..MaxFrame : Start(n)
    BY <1>1 DEF DumpSent
  <2>2. n \in 1..MaxFrame
    BY DumpSizes
  <2> QED
    BY <2>1, <2>2, StartKeepsDumpInv
<1>2. CASE DumpReceived
  <2>1. PICK n \in 1..MaxReceived : n <= MaxFrame /\ Start(n)
    BY <1>2 DEF DumpReceived
  <2>2. n \in 1..MaxFrame
    BY <2>1, DumpSizes
  <2> QED
    BY <2>1, <2>2, StartKeepsDumpInv
<1>3. CASE UNCHANGED dumpVars
  BY <1>3 DEF dumpVars, DumpInv, DumpTypeOK, CursorFollows, DumpFits
<1> QED
  BY <1>1, <1>2, <1>3, FindDigitKeepsDumpInv, AppendDigitsKeepsDumpInv,
     AppendByteKeepsDumpInv, LogDumpKeepsDumpInv DEF DumpNext

\* For every maximal frame length up to 99 and every buffer that holds its dump,
\* neither buffer overflows and the log refuses no dump.
THEOREM EveryDumpFits == DumpSpec => []DumpFits
<1>1. DumpInv => DumpFits
  BY DEF DumpInv
<1> QED
  BY DumpInitInv, DumpNextKeepsDumpInv, <1>1, PTL DEF DumpSpec
================================================================================
