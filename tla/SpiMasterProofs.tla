---------------------------- MODULE SpiMasterProofs ----------------------------
(***************************************************************************)
(* Proofs about SpiMaster for transfers of any length and any patience of  *)
(* node_power.c.                                                           *)
(***************************************************************************)
EXTENDS SpiMaster, TLAPS

--------------------------------------------------------------------------------
(* The inductive invariant.                                                *)

\* No byte anywhere between DATA and the receive buffer.
WireEmpty == txReg = None /\ shift = None /\ rxReg = << >>

\* Byte k, alone, on its way from DATA to the receive buffer.
OnTheWay(k) ==
  \/ txReg = k /\ shift = None /\ rxReg = << >>
  \/ txReg = None /\ shift = k /\ rxReg = << >>
  \/ txReg = None /\ shift = None /\ rxReg = << <<tag, k>> >>

\* The handler sends a byte only after it has read the answer to the one before, so
\* that there is never more than one on the way and none is lost.
OneByteAtATime ==
  transferIsBusy =>
    /\ size > 0 /\ inten \subseteq {"RXC", "TXC"}
    /\ isLast => txCount = size
    /\ "TXC" \in inten => isLast
    /\ handler = "transmit" => txCount = rxCount /\ WireEmpty
    /\ handler # "transmit" =>
         \/ txCount = rxCount + 1 /\ OnTheWay(txCount)
         \/ txCount = rxCount /\ txCount = size /\ isLast /\ WireEmpty

\* Without a transfer nothing is on the way and no interrupt can come.
FreeIsQuiet ==
  ~transferIsBusy =>
    /\ WireEmpty /\ ~isLast /\ inten = {} /\ handler \in {"idle", "rearm"}
    /\ size > 0 => txc /\ txCount = size /\ rxCount = size

\* TXC tells the truth about DATA and the shift register.
CompleteIsEmpty == txc => txReg = None /\ shift = None

\* What was received so far is the answers to the first bytes, in order.
AnswersInOrder == rxBuffer = [k \in 1..rxCount |-> <<tag, k>>]

\* A transfer belongs to a call that waits for it, or to one that gave up.
CallerWaits ==
  /\ transferIsBusy => pc \in {"wait", "failed"}
  /\ pc \in {"start", "wait"} => nss
  /\ pc = "wait" => size > 0
  /\ pc # "failed" => polls < WaitAttempts

\* TypeOK, in parts.
MainTypes ==
  /\ pc \in Locations /\ client \in Clients
  /\ polls \in 0..WaitAttempts /\ nss \in BOOLEAN

ObjTypes ==
  /\ size \in Sizes \cup {0} /\ txCount \in 0..size
  /\ transferIsBusy \in BOOLEAN /\ isLast \in BOOLEAN
  /\ handler \in {"idle", "transmit", "complete", "rearm"}
  /\ inten \subseteq Flags /\ txc \in BOOLEAN

BufferTypes == tag \in 0..1 /\ rxBuffer \in Seq((0..1) \X Nat) /\ rxCount <= size

WireTypes ==
  /\ txReg \in 1..size \cup {None} /\ shift \in 1..size \cup {None}
  /\ rxReg \in Seq((0..1) \X (1..size)) /\ Len(rxReg) <= 2

IndInv ==
  /\ TypeOK /\ OneByteAtATime /\ FreeIsQuiet /\ CompleteIsEmpty
  /\ AnswersInOrder /\ CallerWaits

--------------------------------------------------------------------------------
(* Sequences.                                                              *)

\* The next answer, appended, is the next in order.
LEMMA AppendAnswer ==
  ASSUME NEW n \in Nat, NEW t
  PROVE  /\ Append([k \in 1..n |-> <<t, k>>], <<t, n + 1>>) =
               [k \in 1..(n + 1) |-> <<t, k>>]
         /\ Len([k \in 1..n |-> <<t, k>>]) = n
<1> DEFINE s == [k \in 1..n |-> <<t, k>>]
           u == Append(s, <<t, n + 1>>)
<1>1. s \in Seq({t} \X (1..n)) /\ Len(s) = n
  OBVIOUS
<1>2. u = [k \in 1..(n + 1) |-> IF k <= n THEN s[k] ELSE <<t, n + 1>>]
  BY <1>1
<1>3. \A k \in 1..(n + 1) : (IF k <= n THEN s[k] ELSE <<t, n + 1>>) = <<t, k>>
  OBVIOUS
<1> QED BY <1>1, <1>2, <1>3

\* A sequence of one element.
LEMMA OneElement ==
  ASSUME NEW e PROVE Head(<<e>>) = e /\ Tail(<<e>>) = << >>
  OBVIOUS

\* The parts are the whole.
LEMMA TypeParts == TypeOK <=> MainTypes /\ ObjTypes /\ BufferTypes /\ WireTypes
  BY DEF TypeOK, MainTypes, ObjTypes, BufferTypes, WireTypes

--------------------------------------------------------------------------------
(* The invariant holds initially and every step keeps it.                  *)

\* SERCOM1_SPI_Initialize leaves the SPI free.
LEMMA InitInv == Init => IndInv
<1>1. Init => MainTypes
  <2>1. Init => polls \in 0..WaitAttempts
    BY SpiAssumption DEF Init
  <2> QED BY <2>1 DEF Init, MainTypes, Locations, Clients
<1>2. Init => ObjTypes
  <2>1. Init => txCount \in 0..size
    BY DEF Init
  <2> QED BY <2>1 DEF Init, ObjTypes, Sizes, Flags
<1>3. Init => BufferTypes
  BY SpiAssumption DEF Init, BufferTypes, rxCount
<1>4. Init => WireTypes
  BY SpiAssumption DEF Init, WireTypes
<1>5. Init => OneByteAtATime
  BY SpiAssumption DEF Init, OneByteAtATime
<1>6. Init => FreeIsQuiet
  BY SpiAssumption DEF Init, FreeIsQuiet, WireEmpty
<1>7. Init => CompleteIsEmpty
  BY SpiAssumption DEF Init, CompleteIsEmpty
<1>8. Init => AnswersInOrder
  BY SpiAssumption DEF Init, AnswersInOrder, rxCount
<1>9. Init => CallerWaits
  BY SpiAssumption DEF Init, CallerWaits
<1> QED BY <1>1, <1>2, <1>3, <1>4, <1>5, <1>6, <1>7, <1>8, <1>9, TypeParts
   DEF IndInv

\* No step of a caller, of the handler or of the bus breaks it.
LEMMA NextInv == IndInv /\ [Next]_vars => IndInv'
<1> SUFFICES ASSUME IndInv, [Next]_vars PROVE IndInv'
  OBVIOUS
<1>a. /\ MainTypes /\ ObjTypes /\ BufferTypes /\ WireTypes
      /\ OneByteAtATime /\ FreeIsQuiet /\ CompleteIsEmpty
      /\ AnswersInOrder /\ CallerWaits
  BY TypeParts DEF IndInv
<1>b. ASSUME (MainTypes /\ ObjTypes /\ BufferTypes /\ WireTypes
              /\ OneByteAtATime /\ FreeIsQuiet /\ CompleteIsEmpty
              /\ AnswersInOrder /\ CallerWaits)'
      PROVE  IndInv'
  BY <1>b, TypeParts, PTL DEF IndInv
<1> USE SpiAssumption
<1>1. CASE Load
  <2> USE <1>1 DEF Load
  <2>1. MainTypes'
    BY <1>a DEF MainTypes, CallerWaits, mainVars, Locations, Clients
  <2>2. ObjTypes'
    BY <1>a DEF ObjTypes, objVars, busVars, Flags, Sizes
  <2>3. BufferTypes'
    BY <1>a DEF BufferTypes, ObjTypes, objVars, rxCount, Sizes
  <2>4. WireTypes'
    BY <1>a DEF WireTypes, ObjTypes, BufferTypes, busVars, objVars
  <2>5. OneByteAtATime'
    BY <1>a
    DEF OneByteAtATime, FreeIsQuiet, CompleteIsEmpty, ObjTypes, BufferTypes,
        WireTypes, WireEmpty, OnTheWay, rxCount, objVars, busVars
  <2>6. FreeIsQuiet'
    BY <1>a
    DEF OneByteAtATime, FreeIsQuiet, CompleteIsEmpty, ObjTypes, BufferTypes,
        WireTypes, WireEmpty, OnTheWay, rxCount, objVars, busVars
  <2>7. CompleteIsEmpty'
    BY <1>a
    DEF CompleteIsEmpty, OneByteAtATime, FreeIsQuiet, WireEmpty, ObjTypes, busVars,
        objVars
  <2>8. AnswersInOrder'
    BY <1>a DEF AnswersInOrder, rxCount, objVars, BufferTypes
  <2>9. CallerWaits'
    BY <1>a DEF CallerWaits, MainTypes, ObjTypes, FreeIsQuiet, mainVars, objVars
  <2> QED BY ONLY <1>b, <2>1, <2>2, <2>3, <2>4, <2>5, <2>6, <2>7, <2>8, <2>9
<1>2. CASE ShiftByte
  <2> USE <1>2 DEF ShiftByte
  <2>a. /\ transferIsBusy /\ txCount = rxCount + 1 /\ handler # "transmit"
        /\ txReg = None /\ shift = txCount /\ rxReg = << >>
    BY <1>a DEF OneByteAtATime, FreeIsQuiet, WireEmpty, OnTheWay
  <2>b. rxReg' = << <<tag, txCount>> >>
    BY <2>a
  <2>1. MainTypes'
    BY <2>a, <1>a DEF MainTypes, CallerWaits, mainVars, Locations, Clients
  <2>2. ObjTypes'
    BY <2>a, <1>a DEF ObjTypes, objVars, busVars, Flags, Sizes
  <2>3. BufferTypes'
    BY <2>a, <1>a DEF BufferTypes, ObjTypes, objVars, rxCount, Sizes
  <2>4. WireTypes'
    BY <2>a, <1>a DEF WireTypes, ObjTypes, BufferTypes, busVars, objVars
  <2>5. OneByteAtATime'
    BY <1>a, <2>a, <2>b DEF OneByteAtATime, OnTheWay, objVars, rxCount
  <2>6. FreeIsQuiet'
    BY <2>a, <1>a
    DEF OneByteAtATime, FreeIsQuiet, CompleteIsEmpty, ObjTypes, BufferTypes,
        WireTypes, WireEmpty, OnTheWay, rxCount, objVars, busVars
  <2>7. CompleteIsEmpty'
    BY <2>a, <1>a
    DEF CompleteIsEmpty, OneByteAtATime, FreeIsQuiet, WireEmpty, ObjTypes, busVars,
        objVars
  <2>8. AnswersInOrder'
    BY <2>a, <1>a DEF AnswersInOrder, rxCount, objVars, BufferTypes
  <2>9. CallerWaits'
    BY <2>a, <1>a
       DEF CallerWaits, MainTypes, ObjTypes, FreeIsQuiet, mainVars, objVars
  <2> QED BY ONLY <1>b, <2>1, <2>2, <2>3, <2>4, <2>5, <2>6, <2>7, <2>8, <2>9
<1>3. CASE TransmitComplete
  <2> USE <1>3 DEF TransmitComplete
  <2>1. MainTypes'
    BY <1>a DEF MainTypes, CallerWaits, mainVars, Locations, Clients
  <2>2. ObjTypes'
    BY <1>a DEF ObjTypes, objVars, busVars, Flags, Sizes
  <2>3. BufferTypes'
    BY <1>a DEF BufferTypes, ObjTypes, objVars, rxCount, Sizes
  <2>4. WireTypes'
    BY <1>a DEF WireTypes, ObjTypes, BufferTypes, busVars, objVars
  <2>5. OneByteAtATime'
    BY <1>a
    DEF OneByteAtATime, FreeIsQuiet, CompleteIsEmpty, ObjTypes, BufferTypes,
        WireTypes, WireEmpty, OnTheWay, rxCount, objVars, busVars
  <2>6. FreeIsQuiet'
    BY <1>a
    DEF OneByteAtATime, FreeIsQuiet, CompleteIsEmpty, ObjTypes, BufferTypes,
        WireTypes, WireEmpty, OnTheWay, rxCount, objVars, busVars
  <2>7. CompleteIsEmpty'
    BY <1>a
    DEF CompleteIsEmpty, OneByteAtATime, FreeIsQuiet, WireEmpty, ObjTypes, busVars,
        objVars
  <2>8. AnswersInOrder'
    BY <1>a DEF AnswersInOrder, rxCount, objVars, BufferTypes
  <2>9. CallerWaits'
    BY <1>a DEF CallerWaits, MainTypes, ObjTypes, FreeIsQuiet, mainVars, objVars
  <2> QED BY ONLY <1>b, <2>1, <2>2, <2>3, <2>4, <2>5, <2>6, <2>7, <2>8, <2>9
<1>4. CASE HandleReceive
  <2> USE <1>4 DEF HandleReceive
  <2>a. transferIsBusy
    BY <1>a DEF FreeIsQuiet, Pending
  <2>b. /\ txReg = None /\ shift = None
        /\ \/ txCount = rxCount + 1 /\ rxReg = << <<tag, txCount>> >>
           \/ txCount = rxCount /\ rxReg = << >>
    BY <1>a, <2>a
    DEF OneByteAtATime, CompleteIsEmpty, OnTheWay, WireEmpty, ObjTypes, Flags,
        Pending, Raised
  <2>c. rxReg' = << >> /\ rxCount' = txCount /\ AnswersInOrder'
    <3>1. CASE rxReg = << >>
      BY <1>a, <2>b, <3>1 DEF rxCount, AnswersInOrder
    <3>2. CASE rxReg # << >>
      <4>1. txCount = rxCount + 1 /\ Head(rxReg) = <<tag, txCount>> /\ Tail(rxReg) = << >>
        BY <2>b, <3>2, OneElement
      <4>2. rxCount \in Nat /\ rxCount < size
        BY <1>a, <4>1 DEF BufferTypes, ObjTypes, Sizes, rxCount
      <4>3. rxBuffer' = Append(rxBuffer, <<tag, rxCount + 1>>) /\ rxReg' = << >>
            /\ tag' = tag
        BY <3>2, <4>1, <4>2
      <4>4. rxBuffer' = [k \in 1..txCount |-> <<tag, k>>] /\ Len(rxBuffer') = txCount
        BY ONLY <1>a, <4>1, <4>2, <4>3, AppendAnswer DEF AnswersInOrder
      <4> QED BY <4>3, <4>4 DEF AnswersInOrder, rxCount
    <3> QED BY <3>1, <3>2
  <2>1. MainTypes'
    BY <1>a DEF MainTypes, mainVars
  <2>2. ObjTypes'
    BY <1>a DEF ObjTypes
  <2>3. BufferTypes'
    <3>1. tag' \in 0..1 /\ txCount \in Nat /\ txCount <= size /\ size' = size
      BY <1>a DEF BufferTypes, ObjTypes, Sizes
    <3>2. rxBuffer' = [k \in 1..txCount |-> <<tag', k>>]
      BY <2>c DEF AnswersInOrder
    <3>3. rxBuffer' \in Seq((0..1) \X Nat)
      BY ONLY <3>1, <3>2
    <3> QED BY <2>c, <3>1, <3>3 DEF BufferTypes
  <2>4. WireTypes'
    BY <1>a, <2>c DEF WireTypes
  <2>5. OneByteAtATime'
    BY <1>a, <2>a, <2>b, <2>c DEF OneByteAtATime, WireEmpty
  <2>6. FreeIsQuiet'
    BY <2>a DEF FreeIsQuiet
  <2>7. CompleteIsEmpty'
    BY <1>a DEF CompleteIsEmpty
  <2>8. AnswersInOrder'
    BY <2>c
  <2>9. CallerWaits'
    BY <1>a DEF CallerWaits, mainVars
  <2> QED BY ONLY <1>b, <2>1, <2>2, <2>3, <2>4, <2>5, <2>6, <2>7, <2>8, <2>9
<1>5. CASE HandleTransmit
  <2> USE <1>5 DEF HandleTransmit
  <2>a. transferIsBusy /\ txCount = rxCount /\ WireEmpty
    BY <1>a DEF FreeIsQuiet, OneByteAtATime
  <2>b. /\ UNCHANGED <<mainVars, size, rxBuffer, transferIsBusy, shift, rxReg, tag>>
        /\ handler' = "complete" /\ rxCount' = rxCount
        /\ txCount \in 0..size /\ size \in Nat /\ size > 0
    BY <1>a, <2>a DEF ObjTypes, Sizes, rxCount, OneByteAtATime
  <2>c. /\ \/ /\ txCount < size /\ txReg' = txCount + 1 /\ txCount' = txCount + 1
              /\ txc' = FALSE
           \/ txCount = size /\ UNCHANGED <<txReg, txCount, txc>>
        /\ isLast' = (isLast \/ txCount' = size) /\ inten' = inten \ {"DRE"}
    BY <2>a, <2>b DEF WireEmpty
  <2>d. isLast' = (txCount' = size) /\ isLast' \in BOOLEAN /\ txCount' \in 0..size
    BY <1>a, <2>a, <2>b, <2>c DEF OneByteAtATime, ObjTypes
  <2> HIDE <1>5
  <2>1. MainTypes'
    BY <1>a, <2>b DEF MainTypes, mainVars
  <2>2. ObjTypes'
    BY <1>a, <2>b, <2>c, <2>d DEF ObjTypes
  <2>3. BufferTypes'
    BY <1>a, <2>b DEF BufferTypes
  <2>4. WireTypes'
    BY <1>a, <2>b, <2>c DEF WireTypes
  <2>5. OneByteAtATime'
    BY <1>a, <2>a, <2>b, <2>c, <2>d DEF OneByteAtATime, WireEmpty, OnTheWay
  <2>6. FreeIsQuiet'
    BY <2>a, <2>b DEF FreeIsQuiet
  <2>7. CompleteIsEmpty'
    BY <2>a, <2>b, <2>c DEF CompleteIsEmpty, WireEmpty
  <2>8. AnswersInOrder'
    BY <1>a, <2>b DEF AnswersInOrder
  <2>9. CallerWaits'
    BY <1>a, <2>b DEF CallerWaits, mainVars
  <2> QED BY ONLY <1>b, <2>1, <2>2, <2>3, <2>4, <2>5, <2>6, <2>7, <2>8, <2>9
<1>6. CASE HandleComplete
  <2> USE <1>6 DEF HandleComplete, Completes
  <2>1. MainTypes'
    BY <1>a DEF MainTypes, CallerWaits, mainVars, Locations, Clients
  <2>2. ObjTypes'
    BY <1>a DEF ObjTypes, objVars, busVars, Flags, Sizes
  <2>3. BufferTypes'
    BY <1>a DEF BufferTypes, ObjTypes, objVars, rxCount, Sizes
  <2>4. WireTypes'
    BY <1>a DEF WireTypes, ObjTypes, BufferTypes, busVars, objVars
  <2>5. OneByteAtATime'
    BY <1>a
    DEF OneByteAtATime, FreeIsQuiet, CompleteIsEmpty, ObjTypes, BufferTypes,
        WireTypes, WireEmpty, OnTheWay, rxCount, objVars, busVars
  <2>6. FreeIsQuiet'
    BY <1>a
    DEF OneByteAtATime, FreeIsQuiet, CompleteIsEmpty, ObjTypes, BufferTypes,
        WireTypes, WireEmpty, OnTheWay, rxCount, objVars, busVars
  <2>7. CompleteIsEmpty'
    BY <1>a
    DEF CompleteIsEmpty, OneByteAtATime, FreeIsQuiet, WireEmpty, ObjTypes, busVars,
        objVars
  <2>8. AnswersInOrder'
    BY <1>a DEF AnswersInOrder, rxCount, objVars, BufferTypes
  <2>9. CallerWaits'
    BY <1>a DEF CallerWaits, MainTypes, ObjTypes, FreeIsQuiet, mainVars, objVars
  <2> QED BY ONLY <1>b, <2>1, <2>2, <2>3, <2>4, <2>5, <2>6, <2>7, <2>8, <2>9
<1>7. CASE HandleRearm
  <2> USE <1>7 DEF HandleRearm
  <2>1. MainTypes'
    BY <1>a DEF MainTypes, CallerWaits, mainVars, Locations, Clients
  <2>2. ObjTypes'
    BY <1>a DEF ObjTypes, objVars, busVars, Flags, Sizes
  <2>3. BufferTypes'
    BY <1>a DEF BufferTypes, ObjTypes, objVars, rxCount, Sizes
  <2>4. WireTypes'
    BY <1>a DEF WireTypes, ObjTypes, BufferTypes, busVars, objVars
  <2>5. OneByteAtATime'
    BY <1>a
    DEF OneByteAtATime, FreeIsQuiet, CompleteIsEmpty, ObjTypes, BufferTypes,
        WireTypes, WireEmpty, OnTheWay, rxCount, objVars, busVars
  <2>6. FreeIsQuiet'
    BY <1>a
    DEF OneByteAtATime, FreeIsQuiet, CompleteIsEmpty, ObjTypes, BufferTypes,
        WireTypes, WireEmpty, OnTheWay, rxCount, objVars, busVars
  <2>7. CompleteIsEmpty'
    BY <1>a
    DEF CompleteIsEmpty, OneByteAtATime, FreeIsQuiet, WireEmpty, ObjTypes, busVars,
        objVars
  <2>8. AnswersInOrder'
    BY <1>a DEF AnswersInOrder, rxCount, objVars, BufferTypes
  <2>9. CallerWaits'
    BY <1>a DEF CallerWaits, MainTypes, ObjTypes, FreeIsQuiet, mainVars, objVars
  <2> QED BY ONLY <1>b, <2>1, <2>2, <2>3, <2>4, <2>5, <2>6, <2>7, <2>8, <2>9
<1>8. CASE handler = "idle" /\ Call
  <2> USE <1>8 DEF Call
  <2>1. MainTypes'
    BY <1>a DEF MainTypes, CallerWaits, mainVars, Locations, Clients
  <2>2. ObjTypes'
    BY <1>a DEF ObjTypes, objVars, busVars, Flags, Sizes
  <2>3. BufferTypes'
    BY <1>a DEF BufferTypes, ObjTypes, objVars, rxCount, Sizes
  <2>4. WireTypes'
    BY <1>a DEF WireTypes, ObjTypes, BufferTypes, busVars, objVars
  <2>5. OneByteAtATime'
    BY <1>a
    DEF OneByteAtATime, FreeIsQuiet, CompleteIsEmpty, ObjTypes, BufferTypes,
        WireTypes, WireEmpty, OnTheWay, rxCount, objVars, busVars
  <2>6. FreeIsQuiet'
    BY <1>a
    DEF OneByteAtATime, FreeIsQuiet, CompleteIsEmpty, ObjTypes, BufferTypes,
        WireTypes, WireEmpty, OnTheWay, rxCount, objVars, busVars
  <2>7. CompleteIsEmpty'
    BY <1>a
    DEF CompleteIsEmpty, OneByteAtATime, FreeIsQuiet, WireEmpty, ObjTypes, busVars,
        objVars
  <2>8. AnswersInOrder'
    BY <1>a DEF AnswersInOrder, rxCount, objVars, BufferTypes
  <2>9. CallerWaits'
    BY <1>a DEF CallerWaits, MainTypes, ObjTypes, FreeIsQuiet, mainVars, objVars
  <2> QED BY ONLY <1>b, <2>1, <2>2, <2>3, <2>4, <2>5, <2>6, <2>7, <2>8, <2>9
<1>9. CASE handler = "idle" /\ WaitFree
  <2> USE <1>9 DEF WaitFree, IsBusy
  <2>1. MainTypes'
    BY <1>a DEF MainTypes, CallerWaits, mainVars, Locations, Clients
  <2>2. ObjTypes'
    BY <1>a DEF ObjTypes, objVars, busVars, Flags, Sizes
  <2>3. BufferTypes'
    BY <1>a DEF BufferTypes, ObjTypes, objVars, rxCount, Sizes
  <2>4. WireTypes'
    BY <1>a DEF WireTypes, ObjTypes, BufferTypes, busVars, objVars
  <2>5. OneByteAtATime'
    BY <1>a
    DEF OneByteAtATime, FreeIsQuiet, CompleteIsEmpty, ObjTypes, BufferTypes,
        WireTypes, WireEmpty, OnTheWay, rxCount, objVars, busVars
  <2>6. FreeIsQuiet'
    BY <1>a
    DEF OneByteAtATime, FreeIsQuiet, CompleteIsEmpty, ObjTypes, BufferTypes,
        WireTypes, WireEmpty, OnTheWay, rxCount, objVars, busVars
  <2>7. CompleteIsEmpty'
    BY <1>a
    DEF CompleteIsEmpty, OneByteAtATime, FreeIsQuiet, WireEmpty, ObjTypes, busVars,
        objVars
  <2>8. AnswersInOrder'
    BY <1>a DEF AnswersInOrder, rxCount, objVars, BufferTypes
  <2>9. CallerWaits'
    BY <1>a DEF CallerWaits, MainTypes, ObjTypes, FreeIsQuiet, mainVars, objVars
  <2> QED BY ONLY <1>b, <2>1, <2>2, <2>3, <2>4, <2>5, <2>6, <2>7, <2>8, <2>9
<1>10. CASE handler = "idle" /\ WriteRead
  <2> USE <1>10 DEF WriteRead
  <2>a. ~transferIsBusy /\ WireEmpty /\ ~isLast /\ inten = {} /\ handler = "idle"
    BY <1>a DEF CallerWaits, FreeIsQuiet
  <2>b. /\ pc' = "wait" /\ tag' = 1 - tag
        /\ size' = BytesOf(client) /\ txReg' = 1 /\ txCount' = 1
        /\ rxBuffer' = << >> /\ transferIsBusy' = TRUE /\ isLast' = FALSE
        /\ rxReg' = << >> /\ txc' = FALSE /\ inten' = {"RXC"} /\ handler' = "idle"
        /\ shift' = None /\ UNCHANGED <<client, polls, nss>>
    BY <2>a DEF WireEmpty
  <2>c. size' \in Sizes /\ size' \in Nat /\ size' > 0
    BY <2>b DEF BytesOf, Sizes
  <2> HIDE <1>10
  <2>1. MainTypes'
    BY <1>a, <2>b DEF MainTypes, Locations
  <2>2. ObjTypes'
    <3>1. (txCount \in 0..size)'
      BY <2>b, <2>c
    <3> QED BY <1>a, <2>b, <2>c, <3>1 DEF ObjTypes, Flags
  <2>3. BufferTypes'
    BY <1>a, <2>b, <2>c DEF BufferTypes, rxCount
  <2>4. WireTypes'
    BY <2>b, <2>c DEF WireTypes
  <2>5. OneByteAtATime'
    BY <2>b, <2>c DEF OneByteAtATime, OnTheWay, rxCount
  <2>6. FreeIsQuiet'
    BY <2>b DEF FreeIsQuiet
  <2>7. CompleteIsEmpty'
    BY <2>b DEF CompleteIsEmpty
  <2>8. AnswersInOrder'
    BY <2>b DEF AnswersInOrder, rxCount
  <2>9. CallerWaits'
    <3>1. pc = "start"
      BY <1>10
    <3> QED BY <1>a, <2>b, <2>c, <3>1 DEF CallerWaits
  <2> QED BY ONLY <1>b, <2>1, <2>2, <2>3, <2>4, <2>5, <2>6, <2>7, <2>8, <2>9
<1>11. CASE handler = "idle" /\ Return
  <2> USE <1>11 DEF Return, IsBusy
  <2>1. MainTypes'
    <3>1. (polls \in 0..WaitAttempts)'
      BY <1>a DEF MainTypes, CallerWaits
    <3>2. (nss \in BOOLEAN)'
      BY <1>a DEF MainTypes
    <3> QED BY <1>a, <3>1, <3>2 DEF MainTypes, Locations, Clients
  <2>2. ObjTypes'
    BY <1>a DEF ObjTypes, objVars, busVars, Flags, Sizes
  <2>3. BufferTypes'
    BY <1>a DEF BufferTypes, ObjTypes, objVars, rxCount, Sizes
  <2>4. WireTypes'
    BY <1>a DEF WireTypes, ObjTypes, BufferTypes, busVars, objVars
  <2>5. OneByteAtATime'
    BY <1>a
    DEF OneByteAtATime, FreeIsQuiet, CompleteIsEmpty, ObjTypes, BufferTypes,
        WireTypes, WireEmpty, OnTheWay, rxCount, objVars, busVars
  <2>6. FreeIsQuiet'
    BY <1>a
    DEF OneByteAtATime, FreeIsQuiet, CompleteIsEmpty, ObjTypes, BufferTypes,
        WireTypes, WireEmpty, OnTheWay, rxCount, objVars, busVars
  <2>7. CompleteIsEmpty'
    BY <1>a
    DEF CompleteIsEmpty, OneByteAtATime, FreeIsQuiet, WireEmpty, ObjTypes, busVars,
        objVars
  <2>8. AnswersInOrder'
    BY <1>a DEF AnswersInOrder, rxCount, objVars, BufferTypes
  <2>9. CallerWaits'
    BY <1>a DEF CallerWaits, MainTypes, ObjTypes, FreeIsQuiet, mainVars, objVars
  <2> QED BY ONLY <1>b, <2>1, <2>2, <2>3, <2>4, <2>5, <2>6, <2>7, <2>8, <2>9
<1>12. CASE handler = "idle" /\ pc \in {"waitFree", "wait"} /\ StillBusy
  <2> USE <1>12 DEF StillBusy, IsBusy, GivesUp
  <2>1. MainTypes'
    <3>1. (polls \in 0..WaitAttempts)'
      BY <1>a DEF MainTypes, CallerWaits
    <3>2. (nss \in BOOLEAN)'
      BY <1>a DEF MainTypes
    <3> QED BY <1>a, <3>1, <3>2 DEF MainTypes, Locations, Clients
  <2>2. ObjTypes'
    BY <1>a DEF ObjTypes, objVars, busVars, Flags, Sizes
  <2>3. BufferTypes'
    BY <1>a DEF BufferTypes, ObjTypes, objVars, rxCount, Sizes
  <2>4. WireTypes'
    BY <1>a DEF WireTypes, ObjTypes, BufferTypes, busVars, objVars
  <2>5. OneByteAtATime'
    BY <1>a
    DEF OneByteAtATime, FreeIsQuiet, CompleteIsEmpty, ObjTypes, BufferTypes,
        WireTypes, WireEmpty, OnTheWay, rxCount, objVars, busVars
  <2>6. FreeIsQuiet'
    BY <1>a
    DEF OneByteAtATime, FreeIsQuiet, CompleteIsEmpty, ObjTypes, BufferTypes,
        WireTypes, WireEmpty, OnTheWay, rxCount, objVars, busVars
  <2>7. CompleteIsEmpty'
    BY <1>a
    DEF CompleteIsEmpty, OneByteAtATime, FreeIsQuiet, WireEmpty, ObjTypes, busVars,
        objVars
  <2>8. AnswersInOrder'
    BY <1>a DEF AnswersInOrder, rxCount, objVars, BufferTypes
  <2>9. CallerWaits'
    BY <1>a DEF CallerWaits, MainTypes, ObjTypes, FreeIsQuiet, mainVars, objVars
  <2> QED BY ONLY <1>b, <2>1, <2>2, <2>3, <2>4, <2>5, <2>6, <2>7, <2>8, <2>9
<1>13. CASE UNCHANGED vars
  <2> QED BY ONLY <1>13, IndInv
             DEF vars, mainVars, objVars, busVars, IndInv, TypeOK, OneByteAtATime,
                 FreeIsQuiet, CompleteIsEmpty, AnswersInOrder, CallerWaits,
                 WireEmpty, OnTheWay, rxCount
<1> QED BY <1>1, <1>2, <1>3, <1>4, <1>5, <1>6, <1>7, <1>8, <1>9, <1>10, <1>11, <1>12, <1>13
           DEF Next, Main, Handler, Bus, Stopped

\* IndInv is an invariant of every execution.
THEOREM SpiInvariance == Spec => []IndInv
  BY InitInv, NextInv, PTL DEF Spec

--------------------------------------------------------------------------------
(* What the invariant gives.                                               *)

\* Counters stay within the transfer, and the receive buffer never overflows.
THEOREM SpiTypes == Spec => []TypeOK
<1>1. IndInv => TypeOK
  BY DEF IndInv
<1> QED BY <1>1, SpiInvariance, PTL

\* A call that returns has all the answers to its own bytes, in order, for transfers
\* of any length.
THEOREM EveryAnswerIsRead == Spec => []AnswersAreComplete
<1>1. IndInv => AnswersAreComplete
  <2> SUFFICES ASSUME IndInv, pc = "idle", size > 0
               PROVE  rxBuffer = [k \in 1..size |-> <<tag, k>>]
    BY DEF AnswersAreComplete
  <2>1. ~transferIsBusy
    BY DEF IndInv, CallerWaits
  <2>2. rxCount = size
    BY <2>1 DEF IndInv, FreeIsQuiet
  <2> QED BY <2>2 DEF IndInv, AnswersInOrder
<1> QED BY <1>1, SpiInvariance, PTL

\* The chip is not released under a byte that is on the wire.
THEOREM SelectedUntilShifted == Spec => []SelectedWhileShifting
<1>1. IndInv => SelectedWhileShifting
  BY DEF IndInv, SelectedWhileShifting, CallerWaits, FreeIsQuiet, WireEmpty
<1> QED BY <1>1, SpiInvariance, PTL

\* The handler never writes to a buffer whose call has returned.
THEOREM BufferIsOwned == Spec => BufferHasOwner
<1> DEFINE A == HandleReceive /\ rxBuffer' # rxBuffer => pc \in {"wait", "failed"}
<1>1. IndInv /\ [Next]_vars => [A]_vars
  <2> SUFFICES ASSUME IndInv, HandleReceive PROVE pc \in {"wait", "failed"}
    OBVIOUS
  <2>1. transferIsBusy
    BY DEF IndInv, HandleReceive, FreeIsQuiet, Pending
  <2> QED BY <2>1 DEF IndInv, CallerWaits
<1> QED BY <1>1, SpiInvariance, PTL DEF Spec, BufferHasOwner
================================================================================
