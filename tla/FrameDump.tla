------------------------------- MODULE FrameDump -------------------------------
(***************************************************************************)
(* The hexadecimal dump of a frame, LORA_APP_PrintFrame in                 *)
(* app/lora_app.c: a line put together piece by piece in a buffer on the   *)
(* stack, with no bound checked on the way, and handed to the debug log,   *)
(* which drops a line that does not fit its own buffer.                    *)
(*                                                                         *)
(* cursor is how many bytes of the line buffer have been written.  What    *)
(* the bytes are is left out, but for the digits of the length, whose      *)
(* number depends on it.                                                   *)
(***************************************************************************)
EXTENDS Integers

CONSTANTS
  Capacity,       \* DEBUG_LOG_CAPACITY, of both buffers
  MinFrame,       \* LORA_PACKET_MIN_LENGTH
  MaxFrame,       \* LORA_PACKET_MAX_LENGTH
  MaxReceived     \* what SX1278_read may return

\* "status: ", "tx" or "rx", " len=", then the digits, then " hex=".
BeforeLength == 8 + 2 + 5
BeforeBytes  == 5

\* A length has one or two digits, and a frame of maximal length fits.
ASSUME CapacityAssumption ==
  /\ MinFrame \in Nat \ {0} /\ MaxFrame \in MinFrame..99 /\ MaxReceived \in Nat
  /\ Capacity \in Nat
  /\ BeforeLength + 2 + BeforeBytes + (3 * MaxFrame - 1) + 3 <= Capacity

VARIABLES
  stage,
  frameLength,
  cursor,
  value, count,   \* of LORA_APP_AppendUnsigned
  index,          \* the byte of the frame that comes next
  dropped         \* the log refused the line
dumpVars == <<stage, frameLength, cursor, value, count, index, dropped>>

DumpInit ==
  /\ stage = "idle" /\ frameLength = 0 /\ cursor = 0 /\ value = 0 /\ count = 0
  /\ index = 0 /\ dropped = FALSE

Start(length) ==
  /\ stage = "idle" /\ stage' = "digits" /\ frameLength' = length /\ value' = length
  /\ cursor' = BeforeLength /\ count' = 0 /\ index' = 0 /\ UNCHANGED dropped

\* LORA_APP_BuildAndTransmit dumps what NODE_RESPONSE_Build encoded.
DumpSent == \E length \in MinFrame..MaxFrame : Start(length)

\* Faulty variant: whatever the radio handed over is dumped.
DumpAnyReceived == \E length \in 1..MaxReceived : Start(length)

\* LORA_APP_Tasks reports a longer frame by its length alone.
DumpReceived == \E length \in 1..MaxReceived : length <= MaxFrame /\ Start(length)

\* LORA_APP_AppendUnsigned: at least one digit, found in reverse.
FindDigit ==
  /\ stage = "digits" /\ value' = value \div 10 /\ count' = count + 1
  /\ stage' = IF value' = 0 THEN "length" ELSE "digits"
  /\ UNCHANGED <<frameLength, cursor, index, dropped>>

AppendDigits ==
  /\ stage = "length" /\ stage' = "bytes" /\ cursor' = cursor + count + BeforeBytes
  /\ UNCHANGED <<frameLength, value, count, index, dropped>>

\* LORA_APP_AppendHexByte, and a space unless it was the last byte.
AppendByte ==
  /\ stage = "bytes" /\ index < frameLength /\ index' = index + 1
  /\ cursor' = cursor + (IF index' < frameLength THEN 3 ELSE 2)
  /\ UNCHANGED <<stage, frameLength, value, count, dropped>>

\* The end of the line with its NUL; DEBUG_LOG_Printf counts without the NUL.
LogDump ==
  /\ stage = "bytes" /\ index = frameLength /\ stage' = "idle"
  /\ cursor' = cursor + 3
  /\ dropped' = IF cursor' - 1 < Capacity THEN dropped ELSE TRUE
  /\ UNCHANGED <<frameLength, value, count, index>>

DumpNext == DumpSent \/ DumpReceived \/ FindDigit \/ AppendDigits \/ AppendByte \/ LogDump

DumpSpec == DumpInit /\ [][DumpNext]_dumpVars
--------------------------------------------------------------------------------
(* Correctness.                                                            *)

\* Neither buffer overflows, the line's nor the ten digits', whatever was sent or
\* received, and the log never refuses a dump for being too long.
DumpFits == cursor <= Capacity /\ count <= 10 /\ ~dropped

DumpTypeOK ==
  /\ stage \in {"idle", "digits", "length", "bytes"}
  /\ frameLength \in 0..MaxFrame /\ value \in 0..MaxFrame /\ count \in 0..2
  /\ index \in 0..MaxFrame /\ cursor \in Nat /\ dropped \in BOOLEAN

\* How far the cursor is, and how many digits are still to come.
CursorFollows ==
  /\ stage = "idle" => cursor <= Capacity
  /\ stage # "idle" => index <= frameLength /\ frameLength >= 1
  /\ stage \in {"digits", "length"} => cursor = BeforeLength /\ index = 0
  /\ stage = "digits" => count = 0 \/ (count = 1 /\ value <= 9)
  /\ stage = "bytes" =>
       cursor = BeforeLength + count + BeforeBytes + 3 * index
                  - (IF index = frameLength THEN 1 ELSE 0)

DumpInv == DumpTypeOK /\ CursorFollows /\ DumpFits
================================================================================
